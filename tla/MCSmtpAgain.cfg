SPECIFICATION Spec
CONSTANTS
    Jobs = {"one", "two"}
    Mail <- MCMail
    Offers <- MCOffers
    Setups <- MCSetups
    Sasl <- MCSasl
    MaxFaults = 1
PROPERTIES
    NotHadBefore
CHECK_DEADLOCK FALSE
