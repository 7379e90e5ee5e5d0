SPECIFICATION Spec
CONSTANTS
    Jobs = {"one", "two"}
    Mail <- MCMail
    Offers <- MCOffers
    Setups <- MCSetups
    Sasl <- MCSasl
    MaxFaults = 0
PROPERTIES
    BarredAsTold
CHECK_DEADLOCK FALSE
