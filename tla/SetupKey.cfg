SPECIFICATION SetupSpec
CONSTANTS
    Provider = {"g"}
    Native = {"g"}
    Local = {}
    Env = {}
    Key = {"good", "bad"}
    GoodKey = {"good"}
    Recorded = {}
    MaxActs = 4
INVARIANTS
    KeyringIsVerified
CHECK_DEADLOCK FALSE
