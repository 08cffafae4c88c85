------------------------------ MODULE AgentLoop ------------------------------
(***************************************************************************)
(* One agent working through the commands of a conversation                *)
(* (internal/agent/agent.go): plan, ask, execute, report.                  *)
(*                                                                         *)
(* The planner is a language model: it may return any plan, one that does  *)
(* not match the command's intent, or an error.  A plan is kept as the     *)
(* number of the call that made it, its length and the extra text its      *)
(* prompt carried; the action of a step is chosen when its turn comes.     *)
(* The user is asked through an Approver (cmd/bolt-cowork/main.go): the    *)
(* command line one always asks, the one of the terminal UI first checks   *)
(* the approval mode again and otherwise says yes by itself.  The command  *)
(* line runs a single command; in the terminal UI each command gets an     *)
(* agent of its own and the history of the session so far.  What skills    *)
(* contribute to the prompt is left out, the question about them is not.   *)
(***************************************************************************)
EXTENDS Integers, Sequences

CONSTANTS
    Modes,                 \* approval modes a command may be run under
    MCPModes,              \* modes of the MCP gate; "" when it is not set
    Approvers,             \* {"cli"}, {"tui"} or both
    MaxPlanIntentRetries,  \* maxPlanIntentRetries, 3 in the code
    MaxRevisions,          \* maxRevisions, 3 in the code
    MaxConversationTurns,  \* maxConversationTurns, 20 in the code
    MaxSteps,              \* bound: steps of a plan
    MaxRuns                \* bound: commands of the conversation

ApprovalModes == {"full", "plan-only", "dangerous-only", "none"}

ASSUME ModesAssumption ==
    /\ Modes \subseteq ApprovalModes
    /\ MCPModes \subseteq ApprovalModes \cup {""}
    /\ Approvers \subseteq {"cli", "tui"}

ASSUME BoundsAssumption ==
    /\ MaxPlanIntentRetries \in Nat \ {0}
    /\ MaxRevisions \in Nat
    /\ MaxConversationTurns \in Nat \ {0}
    /\ MaxSteps \in Nat
    /\ MaxRuns \in Nat

-----------------------------------------------------------------------------
(* Actions a step can have: one of each class the approval gates tell      *)
(* apart.  "write" stands for every built-in action that changes files or  *)
(* runs a command, "read" for read, list, stat and hash.                   *)

Actions == {"read", "write", "delete", "call_mcp_tool", "read_mcp_resource"}

IsDangerous(a) == a \in {"write", "delete", "call_mcp_tool"}

IsReadOnly(a) == a = "read"

(* An approval mode the code does not know counts as full. *)
ShouldApprove(m, stage, dangerous) ==
    \/ m \notin {"plan-only", "dangerous-only", "none"}
    \/ m = "plan-only" /\ stage = "plan"
    \/ m = "dangerous-only" /\ stage = "execute" /\ dangerous

(* The MCP gate; the agent asks it in the phase "execution" only.          *)
ShouldRequestApproval(toolDangerous, phase, m) ==
    \/ m \notin {"plan-only", "dangerous-only", "none"}
    \/ m = "plan-only" /\ phase = "planning"
    \/ m = "dangerous-only" /\ phase = "execution" /\ toolDangerous

-----------------------------------------------------------------------------
VARIABLES
    pc,               \* where Run is; "idle" between commands
    mode,             \* agent.mode, and the mode the approver was built with
    mcpMode,          \* agent.mcpMode
    approver,         \* which Approver the program builds its agents with
    intentRetries,    \* planStage: plans in a row that missed the intent
    revisionCount,    \* planStage: revisions the user asked for
    planningCommand,  \* planStage: what is added to the command in the prompt
    plan,             \* the plan CreatePlan returned last
    step,             \* executeStage: number of the current step
    action,           \* executeStage: its action
    target,           \* executeStage: its path, as planned or as picked
    dangerous,        \* executeStage: req.Dangerous of the current step
    approveAll,       \* executeStage: approveAll
    messages,         \* agent.messages, each with the command it belongs to
    history,          \* Session.history: the commands that succeeded
    run,              \* history variable: number of the current command
    calls,            \* history variable: CreatePlan calls of this command
    answer,           \* history variable: the user's last answer
    blanket,          \* history variable: the user approved all steps of plan
    feedback          \* history variable: the revision whose text is wanted

config  == <<mode, mcpMode, approver>>
plans   == <<intentRetries, revisionCount, planningCommand, plan>>
current == <<step, action, target, dangerous>>
heard   == <<answer, blanket, feedback>>
said    == <<messages, history, run>>
vars == <<pc, config, plans, current, approveAll, said, calls, heard>>

(* What the planning prompt adds to the command: nothing, the IMPORTANT    *)
(* hint about the missed intent, or the text of a revision, by its number. *)
NoExtra == [kind |-> "none", text |-> 0]
Hint    == [kind |-> "hint", text |-> 0]
Extra   == [kind: {"none", "hint", "revision"}, text: 0..MaxRevisions]

NoPlan == [made |-> 0, len |-> 0, from |-> NoExtra]
Plan   == [made: Nat, len: 0..MaxSteps, from: Extra]

NoAnswer == [stage |-> "none", made |-> 0, step |-> 0,
             target |-> "planned", decision |-> "none"]
Answer   == [stage: {"none", "skill", "plan", "execute", "result"},
             made: Nat, step: Nat, target: {"planned", "picked"},
             decision: {"none", "Approve", "ApproveAll", "Reject", "Revise"}]

Message == [role: {"user", "assistant"}, run: Nat]

Points == {"idle", "skillGate", "listing", "planning", "planGate", "revising",
           "planned", "steps", "preparing", "deciding", "stepGate", "running",
           "resultGate"}

ConfigTypeOK ==
    /\ mode \in Modes \cup {"full"}
    /\ mcpMode \in MCPModes \cup {""}
    /\ approver \in Approvers

PlansTypeOK ==
    /\ intentRetries \in 0..MaxPlanIntentRetries
    /\ revisionCount \in 0..MaxRevisions
    /\ planningCommand \in Extra
    /\ plan \in Plan
    /\ calls \in Nat

StepTypeOK ==
    /\ step \in Nat
    /\ action \in Actions
    /\ target \in {"planned", "picked"}

FlagsTypeOK ==
    /\ dangerous \in BOOLEAN
    /\ approveAll \in BOOLEAN
    /\ blanket \in BOOLEAN

HistoryTypeOK ==
    /\ run \in 0..MaxRuns
    /\ messages \in Seq(Message)
    /\ history \in Seq(Message)

HeardTypeOK ==
    /\ answer \in Answer
    /\ feedback \in 0..MaxRevisions

TypeOK ==
    /\ pc \in Points
    /\ ConfigTypeOK
    /\ PlansTypeOK
    /\ StepTypeOK
    /\ FlagsTypeOK
    /\ HistoryTypeOK
    /\ HeardTypeOK

Init ==
    /\ pc = "idle"
    /\ mode = "full" /\ mcpMode = "" /\ approver \in Approvers
    /\ intentRetries = 0 /\ revisionCount = 0
    /\ planningCommand = NoExtra
    /\ plan = NoPlan
    /\ step = 0 /\ action = "read" /\ target = "planned" /\ dangerous = FALSE
    /\ approveAll = FALSE
    /\ messages = <<>> /\ history = <<>>
    /\ run = 0 /\ calls = 0
    /\ answer = NoAnswer /\ blanket = FALSE /\ feedback = 0

-----------------------------------------------------------------------------
(* Mutation: the oldest messages are kept.                                 *)
KeepOldest(past, role, r) ==
    LET longer == Append(past, [role |-> role, run |-> r])
        max    == MaxConversationTurns * 2
    IN  IF Len(longer) > max THEN SubSeq(longer, 1, max) ELSE longer

(* addMessage: append, then keep the last MaxConversationTurns*2 messages. *)
AddMessage(past, role, r) ==
    LET longer == Append(past, [role |-> role, run |-> r])
        max    == MaxConversationTurns * 2
    IN  IF Len(longer) > max
        THEN SubSeq(longer, Len(longer) - max + 1, Len(longer))
        ELSE longer

(* Run returns: the agent with its messages, the locals of Run and of its  *)
(* stages are gone.                                                        *)
Return ==
    /\ pc' = "idle"
    /\ mode' = "full" /\ mcpMode' = ""
    /\ intentRetries' = 0 /\ revisionCount' = 0
    /\ planningCommand' = NoExtra
    /\ plan' = NoPlan
    /\ step' = 0 /\ action' = "read" /\ target' = "planned"
    /\ dangerous' = FALSE
    /\ approveAll' = FALSE
    /\ messages' = <<>>
    /\ calls' = 0
    /\ answer' = NoAnswer /\ blanket' = FALSE /\ feedback' = 0
    /\ UNCHANGED <<approver, run>>

(* It returns an error: the session keeps the history it had.              *)
Fail == Return /\ UNCHANGED history

(* It returns a result, and the session takes the agent's history.         *)
Succeed ==
    /\ Return
    /\ history' = IF approver = "tui"
                  THEN AddMessage(messages, "assistant", run) ELSE history

(* The user answers the question of gate g with decision d.                *)
Answered(g, d) ==
    answer' = [stage |-> g, made |-> plan.made, step |-> step,
               target |-> target, decision |-> d]

-----------------------------------------------------------------------------
(* A command: an agent with the history of the session, to which the       *)
(* user's message is added; skills are matched or forced, and the user is  *)
(* asked about them.                                                       *)
StartRun ==
    /\ pc = "idle"
    /\ run < MaxRuns
    /\ approver = "cli" => run = 0
    /\ run' = run + 1
    /\ messages' = AddMessage(history, "user", run + 1)
    /\ mode' \in Modes /\ mcpMode' \in MCPModes
    /\ \E matched \in BOOLEAN :
         pc' = IF matched /\ ShouldApprove(mode', "skill", FALSE)
               THEN "skillGate" ELSE "listing"
    /\ UNCHANGED <<approver, plans, current, approveAll, history, calls,
                   heard>>

(* A rejected skill is dropped and the command goes on without it.         *)
AnswerSkill ==
    /\ pc = "skillGate"
    /\ \/ /\ \E d \in {"Approve", "Reject"} : Answered("skill", d)
          /\ pc' = "listing"
          /\ UNCHANGED <<config, plans, current, approveAll, said, calls,
                         blanket, feedback>>
       \/ Fail

BuildDirListing ==
    /\ pc = "listing"
    /\ \/ /\ pc' = "planning"
          /\ UNCHANGED <<config, plans, current, approveAll, said, calls,
                         heard>>
       \/ Fail

(* CreatePlan, validatePlanAgainstCommand: the plan misses the intent and  *)
(* another is asked for.  At the last attempt, or when the model or its    *)
(* answer fails, the command ends (Fail in CreatePlan).                    *)
MissesIntent ==
    /\ intentRetries + 1 < MaxPlanIntentRetries
    /\ intentRetries' = intentRetries + 1
    /\ planningCommand' = Hint
    /\ UNCHANGED <<pc, config, revisionCount, plan, current, approveAll, said,
                   heard>>

(* Mutation: a plan already revised is not put to the user again.          *)
RevisedIsFinal ==
    /\ intentRetries' = 0
    /\ \E len \in 0..MaxSteps :
         plan' = [made |-> calls + 1, len |-> len, from |-> planningCommand]
    /\ pc' = IF ShouldApprove(mode, "plan", FALSE) /\ revisionCount = 0
             THEN "planGate" ELSE "planned"
    /\ UNCHANGED <<config, revisionCount, planningCommand, current,
                   approveAll, said, heard>>

(* The plan matches, and goes to the user when the mode says so.           *)
MatchesIntent ==
    /\ intentRetries' = 0
    /\ \E len \in 0..MaxSteps :
         plan' = [made |-> calls + 1, len |-> len, from |-> planningCommand]
    /\ pc' = IF ShouldApprove(mode, "plan", FALSE)
             THEN "planGate" ELSE "planned"
    /\ UNCHANGED <<config, revisionCount, planningCommand, current,
                   approveAll, said, heard>>

CreatePlan ==
    /\ pc = "planning"
    /\ \/ /\ calls' = calls + 1
          /\ MissesIntent \/ MatchesIntent
       \/ Fail

(* Revise at the plan's gate, up to MaxRevisions times.  Only the command  *)
(* line approver is a RevisionPrompter.                                    *)
Revise ==
    /\ revisionCount < MaxRevisions
    /\ revisionCount' = revisionCount + 1
    /\ Answered("plan", "Revise")
    /\ IF approver = "cli"
       THEN pc' = "revising" /\ UNCHANGED <<planningCommand, feedback>>
       ELSE /\ pc' = "planning"
            /\ planningCommand' = NoExtra
            /\ feedback' = 0
    /\ UNCHANGED <<config, intentRetries, plan, current, approveAll, said,
                   calls, blanket>>

(* Reject, an answer that does not arrive and a revision too many end the  *)
(* command (Fail).                                                         *)
AnswerPlan ==
    /\ pc = "planGate"
    /\ \/ /\ Answered("plan", "Approve")
          /\ pc' = "planned"
          /\ UNCHANGED <<config, plans, current, approveAll, said, calls,
                         blanket, feedback>>
       \/ Revise
       \/ Fail

(* PromptRevision: the text, when there is any, is added to the command.   *)
PromptRevision ==
    /\ pc = "revising"
    /\ \/ /\ \/ /\ planningCommand' =
                      [kind |-> "revision", text |-> revisionCount]
                /\ feedback' = revisionCount
             \/ /\ planningCommand' = NoExtra
                /\ feedback' = 0
          /\ pc' = "planning"
          /\ UNCHANGED <<config, intentRetries, revisionCount, plan, current,
                         approveAll, said, calls, answer, blanket>>
       \/ Fail

(* The plan is final.  One without steps is the answer itself.             *)
PlanReady ==
    /\ pc = "planned"
    /\ IF plan.len = 0
       THEN Succeed
       ELSE /\ pc' = "steps"
            /\ step' = 1
            /\ approveAll' = FALSE
            /\ UNCHANGED <<config, plans, action, target, dangerous, said,
                           calls, heard>>

-----------------------------------------------------------------------------
(* executeStage takes the next step; the path of a delete is checked first. *)
NextStep ==
    /\ pc = "steps"
    /\ step <= plan.len
    /\ action' \in Actions
    /\ target' = "planned"
    /\ pc' = IF action' = "delete" THEN "preparing" ELSE "deciding"
    /\ UNCHANGED <<config, plans, step, dangerous, approveAll, said, calls,
                   heard>>

(* Mutation: a step whose path the user does not pick is tried again.      *)
PrepareAgain ==
    /\ pc = "preparing"
    /\ \/ target' \in {"planned", "picked"} /\ pc' = "deciding"
       \/ target' = target /\ pc' = "steps"
    /\ UNCHANGED <<config, plans, step, action, dangerous, approveAll, said,
                   calls, heard>>

(* prepareDeleteStep: the path exists, or the user picks one of those that *)
(* have its name.  Only the command line approver is a PathSelector.  No   *)
(* candidate, no pick and an error end the command.                        *)
PrepareDelete ==
    /\ pc = "preparing"
    /\ \/ /\ target' \in IF approver = "cli"
                         THEN {"planned", "picked"} ELSE {"planned"}
          /\ pc' = "deciding"
          /\ UNCHANGED <<config, plans, step, action, dangerous, approveAll,
                         said, calls, heard>>
       \/ Fail

(* Mutation: Approve all covers dangerous steps in every mode.             *)
AsksUntilApproveAll(d) ==
    /\ ~(mode = "dangerous-only" /\ IsReadOnly(action))
    /\ ~approveAll
    /\ IF action = "call_mcp_tool" /\ mcpMode # ""
       THEN ShouldRequestApproval(d, "execution", mcpMode)
       ELSE ShouldApprove(mode, "execute", d)

(* Mutation: read-only steps never ask.                                    *)
AsksToChange(d) ==
    /\ ~IsReadOnly(action)
    /\ IF action = "call_mcp_tool" /\ mcpMode # ""
       THEN /\ ~approveAll \/ (mcpMode = "dangerous-only" /\ d)
            /\ ShouldRequestApproval(d, "execution", mcpMode)
       ELSE /\ ~approveAll \/ (mode = "dangerous-only" /\ d)
            /\ ShouldApprove(mode, "execute", d)

(* Does the agent ask its approver about the current step, d being         *)
(* toolDangerous for an MCP tool and isDangerous(step) otherwise?          *)
Asks(d) ==
    /\ ~(mode = "dangerous-only" /\ IsReadOnly(action))
    /\ IF action = "call_mcp_tool" /\ mcpMode # ""
       THEN /\ ~approveAll \/ (mcpMode = "dangerous-only" /\ d)
            /\ ShouldRequestApproval(d, "execution", mcpMode)
       ELSE /\ ~approveAll \/ (mode = "dangerous-only" /\ d)
            /\ ShouldApprove(mode, "execute", d)

(* Does the approver ask the user?                                         *)
PutsToUser(d) == approver = "cli" \/ ShouldApprove(mode, "execute", d)

(* The gate of a step.  The danger of an MCP tool is looked up in the      *)
(* registry, where a tool may be missing and then counts as dangerous.     *)
Decide ==
    /\ pc = "deciding"
    /\ IF action = "call_mcp_tool" /\ mcpMode # ""
       THEN dangerous' \in BOOLEAN
       ELSE dangerous' = IsDangerous(action)
    /\ pc' = IF Asks(dangerous') /\ PutsToUser(dangerous')
             THEN "stepGate" ELSE "running"
    /\ UNCHANGED <<config, plans, step, action, target, approveAll, said,
                   calls, heard>>

AnswerStep ==
    /\ pc = "stepGate"
    /\ \/ /\ Answered("execute", "Approve")
          /\ pc' = "running"
          /\ UNCHANGED <<config, plans, current, approveAll, said, calls,
                         blanket, feedback>>
       \/ /\ Answered("execute", "ApproveAll")
          /\ approveAll' = TRUE
          /\ blanket' = TRUE
          /\ pc' = "running"
          /\ UNCHANGED <<config, plans, current, said, calls, feedback>>
       \/ Fail

(* ExecuteStep; a step that fails ends the command.                        *)
ExecuteStep ==
    /\ pc = "running"
    /\ \/ /\ pc' = "steps"
          /\ step' = step + 1
          /\ UNCHANGED <<config, plans, action, target, dangerous, approveAll,
                         said, calls, heard>>
       \/ Fail

(* All steps are done: resultStage asks when the mode says so.             *)
StepsDone ==
    /\ pc = "steps"
    /\ step > plan.len
    /\ IF ShouldApprove(mode, "result", FALSE)
       THEN /\ pc' = "resultGate"
            /\ UNCHANGED <<config, plans, current, approveAll, said, calls,
                           heard>>
       ELSE Succeed

AnswerResult == pc = "resultGate" /\ (Succeed \/ Fail)

-----------------------------------------------------------------------------
AgentStep ==
    \/ BuildDirListing \/ CreatePlan \/ PlanReady
    \/ NextStep \/ PrepareDelete \/ Decide \/ ExecuteStep \/ StepsDone

UserStep ==
    \/ AnswerSkill \/ AnswerPlan \/ PromptRevision \/ AnswerStep \/ AnswerResult

Next == StartRun \/ AgentStep \/ UserStep

Spec == Init /\ [][Next]_vars

(* What the agent does by itself it goes on doing, and the user answers    *)
(* what he is asked.  Nothing is said of the calls that wait on another    *)
(* program, CreatePlan and ExecuteStep.                                    *)
AgentGoesOn == AgentStep /\ pc \notin {"planning", "running"}
FairSpec == Spec /\ WF_vars(AgentGoesOn) /\ WF_vars(UserStep)

-----------------------------------------------------------------------------
(* The user said yes to the current step, with the path it is run with.    *)
StepApproved ==
    /\ answer.stage = "execute"
    /\ answer.made = plan.made
    /\ answer.step = step
    /\ answer.target = target
    /\ answer.decision \in {"Approve", "ApproveAll"}

(* In mode dangerous-only a step that changes anything runs only after the *)
(* user said yes to that very step and its path, whatever he approved      *)
(* before; so does an MCP tool taken for dangerous under the gate's        *)
(* dangerous-only.  (executeStage, prepareDeleteStep)                      *)
DangerousIsAnswered ==
    (pc = "running" /\ mode = "dangerous-only" /\ dangerous
        /\ (action = "call_mcp_tool" => mcpMode \in {"", "dangerous-only"}))
    => StepApproved

(* In mode full a step runs without an answer of its own only after the    *)
(* user approved all remaining steps of this very plan.  (executeStage)    *)
FullIsAnswered ==
    (pc = "running" /\ mode = "full"
        /\ (action = "call_mcp_tool" => mcpMode \in {"", "full"}))
    => StepApproved \/ blanket

(* In the modes that ask about the plan, the plan being executed is the    *)
(* one the user approved, not one made before or after it.  (planStage)    *)
ExecutedPlanWasApproved ==
    (pc \in {"planned", "steps", "preparing", "deciding", "stepGate", "running",
             "resultGate"} /\ mode \in {"full", "plan-only"})
    => /\ answer.made = plan.made
       /\ answer.stage = "plan" => answer.decision = "Approve"
       /\ answer.stage # "skill"

(* A command costs at most MaxPlanIntentRetries calls of the model for     *)
(* each plan the user may see.  (planStage)                                *)
CallsBounded == calls <= MaxPlanIntentRetries * (MaxRevisions + 1)

(* The history of a session is made of whole turns, each a user message    *)
(* with the answer to it, whatever commands failed in between and whatever *)
(* was trimmed; the planner of a command has its message last.             *)
(* (addMessage, Run, Session.Update)                                       *)
HistoryOfTurns ==
    /\ Len(history) <= 2 * MaxConversationTurns
    /\ \E n \in 0..MaxConversationTurns :
         /\ Len(history) = 2 * n
         /\ \A i \in 1..n :
              /\ history[2 * i - 1].role = "user"
              /\ history[2 * i] = [role |-> "assistant",
                                   run |-> history[2 * i - 1].run]
    /\ pc # "idle"
         => /\ messages # <<>>
            /\ messages[Len(messages)] = [role |-> "user", run |-> run]

(* A plan put to the user was made from the text he last asked it to be    *)
(* revised with.  (planStage)                                              *)
FeedbackHeard == pc = "planGate" => plan.from.text = feedback

(* Under the MCP gate's mode full no MCP tool is called before the user    *)
(* was asked about it.  (executeStage, tuiApprover)                        *)
McpCallIsPrompted ==
    (pc = "running" /\ action = "call_mcp_tool" /\ mcpMode = "full")
    => StepApproved \/ blanket

(* In mode dangerous-only every dangerous step asks, also after Approve     *)
(* all, whether or not an MCP gate that asks is configured.  (executeStage) *)
DangerousAlwaysPrompts ==
    (pc = "running" /\ mode = "dangerous-only" /\ dangerous
        /\ mcpMode \in {"", "full", "dangerous-only"})
    => StepApproved

(* Assumptions of the next property, and not of the code.  The clients of  *)
(* all providers are http.DefaultClient, which has no timeout, and the     *)
(* context of a command has no deadline: a provider that hangs keeps it in *)
(* planning.  A step is file operations, or a command that is killed after *)
(* two minutes but whose children may still hold its output.               *)
ProviderAnswers == WF_vars(CreatePlan)
StepReturns == WF_vars(ExecuteStep)

(* A command whose provider answers every call and whose steps return ends: *)
(* neither plans that miss the intent nor revisions go on for ever.  (Run)  *)
RunEnds == ProviderAnswers /\ StepReturns => (pc # "idle" ~> pc = "idle")
=============================================================================
