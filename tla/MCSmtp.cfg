SPECIFICATION FairSpec
CONSTANTS
    Jobs = {"one", "two", "bad"}
    Mail <- MCMail
    Offers <- MCOffers
    Setups <- MCSetups
    Sasl <- MCSasl
    MaxFaults = 2
INVARIANTS
    TypeOK
    OwnRecipients
    OnlyOffered
    Secured
    CopiesKnown
PROPERTIES
    Ends
CHECK_DEADLOCK FALSE
