SPECIFICATION PartsSpec
CONSTANTS
    Path <- SmallPath
    FirstTree <- SmallTree
    Protected <- SmallProtected
    Denied <- SmallDenied
    ReadOnlyDirs <- SmallReadOnly
    Mounts <- SmallMounts
    Sources <- SmallSources
    Part = "b"
    MaxSteps = 2
    Program = {p1, p2}
    Id = {i1, i2}
    Title = {"t", "u"}
    Body = {"x"}
    MaxOps = 3
    Provider = {"p", "q"}
    WorkDir = {"d"}
    Pref = {"x", "y"}
    DefaultPref = "x"
    MaxActs = 5
    Server = {"a", "b", "c"}
    Tool = {"t", "u"}
    Key <- SlashKey
    NoKey = ""
    NoServer = ""
    Entries = 2
    Anthropic = {1}
    OpenAI = {2}
    Gemini = {}
    Keyless = {0}
    MaxContextMessages = 3
    MaxContextChars = 6
    Lengths = {1, 3}
    MaxMessages = 5
    MaxAsks = 2
    Preset = {"p", "q"}
    EnvPreset = {"q"}
    StartDir = {"d", "e"}
    MaxStarts = 2
    SkillName = {1, 2}
    SkillDirs = 2
    SkillFiles <- SmallSkillFiles
    MaxFiles = 3
INVARIANTS
    PartsTypeOK
    NothingLost
    SuccessMeansDone
    ListIsComplete
    TrustIsKept
    KeysAreKept
    TrimIsLongest
    ShownIsWhoAnswered
    KeyIsAtHand
    WorkIsTrusted
    LatestIsMatched
PROPERTIES
    BarredStays
    StoreRefinement
    RegistryRefinement
CHECK_DEADLOCK FALSE
