SPECIFICATION FairSpec
CONSTANTS
    Modes <- AllModes
    MCPModes <- AllMCPModes
    Approvers <- BothApprovers
    MaxPlanIntentRetries = 3
    MaxRevisions = 3
    MaxConversationTurns = 2
    MaxSteps = 2
    MaxRuns = 3
INVARIANTS
    DangerousIsAnswered
    FullIsAnswered
    ExecutedPlanWasApproved
    HistoryOfTurns
PROPERTIES
    RunEnds
CHECK_DEADLOCK FALSE
