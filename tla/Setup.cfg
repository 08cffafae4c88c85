SPECIFICATION SetupSpec
CONSTANTS
    Provider = {"g", "h", "l"}
    Native = {"g"}
    Local = {"l"}
    Env = {"h"}
    Key = {"good", "bad"}
    GoodKey = {"good"}
    Recorded = {"g"}
    MaxActs = 4
INVARIANTS
    SetupTypeOK
    QuietAgrees
    CancelRestores
PROPERTIES
    VerifyEnds
CHECK_DEADLOCK FALSE
