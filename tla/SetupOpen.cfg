SPECIFICATION SetupSpec
CONSTANTS
    Provider = {"g", "h"}
    Native = {"g"}
    Local = {}
    Env = {}
    Key = {"good", "bad"}
    GoodKey = {"good"}
    Recorded = {"g"}
    MaxActs = 2
INVARIANTS
    NoneIsInUse
CHECK_DEADLOCK FALSE
