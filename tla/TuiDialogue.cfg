SPECIFICATION FairSpec
CONSTANTS
    s1 = s1
    s2 = s2
    Sid = {s1}
    Titles = {"first"}
    Others = {"other"}
    Commands = {"skills"}
    Typed = {"/clear", "connect-provider"}
    Stages = {"skill", "plan", "execute", "result"}
    Nil = Nil
    Paged = TRUE
    Capacity = 1
    MaxRuns = 1
    MaxSends = 3
    MaxPosts = 2
INVARIANTS
    TypeOK
    QuestionIsOpen
PROPERTIES
    StreamInOrder
    YesIsForTheQuestion
    CommandEnds
CHECK_DEADLOCK FALSE
