SPECIFICATION Spec
CONSTANTS
    Modes <- AllModes
    MCPModes <- AllMCPModes
    Approvers <- BothApprovers
    MaxPlanIntentRetries = 3
    MaxRevisions = 3
    MaxConversationTurns = 2
    MaxSteps = 2
    MaxRuns = 1
INVARIANT
    DangerousAlwaysPrompts
CHECK_DEADLOCK FALSE
