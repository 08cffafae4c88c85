SPECIFICATION Spec
CONSTANTS
    s1 = s1
    s2 = s2
    Sid = {s1, s2}
    Titles = {"first"}
    Others = {"other"}
    Commands = {}
    Typed = {"switch-session"}
    Stages = {"plan"}
    Nil = Nil
    Paged = FALSE
    Capacity = 1
    MaxRuns = 2
    MaxSends = 0
    MaxPosts = 1
INVARIANTS
    OneRunAtATime
    QuietIsSaved
    TurnsAreShown
    HistoryIsOwn
SYMMETRY SidSymmetry
CHECK_DEADLOCK FALSE
