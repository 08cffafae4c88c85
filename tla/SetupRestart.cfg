SPECIFICATION SetupSpec
CONSTANTS
    Provider = {"g", "h"}
    Native = {"g"}
    Local = {}
    Env = {}
    Key = {"good", "bad"}
    GoodKey = {"good"}
    Recorded = {}
    MaxActs = 3
INVARIANTS
    FileIsValid
CHECK_DEADLOCK FALSE
