SPECIFICATION ConfigSpec
CONSTANTS
    Provider = {"p", "q"}
    WorkDir = {"d"}
    Pref = {"x", "y"}
    DefaultPref = "x"
    MaxActs = 2
INVARIANTS
    RefusedKeysStay
CHECK_DEADLOCK FALSE
