--------------------------- MODULE AgentLoop_proofs ---------------------------
(***************************************************************************)
(* Theorems about the agent loop, for every set of modes, every bound on   *)
(* retries, revisions, history, steps and commands.                        *)
(***************************************************************************)
EXTENDS AgentLoop, SequenceTheorems, TLAPS

-----------------------------------------------------------------------------
(* What addMessage does to a history: it grows by one message up to        *)
(* 2 * MaxConversationTurns of them, it ends with the new one, and before  *)
(* it are the last ones it had, in their order.                            *)

LEMMA LastOnes ==
    ASSUME NEW S, NEW s \in Seq(S), NEW d \in Nat, d < Len(s)
    PROVE  LET last == SubSeq(s, d + 1, Len(s))
           IN  /\ last \in Seq(S)
               /\ Len(last) = Len(s) - d
               /\ \A k \in 1..(Len(s) - d) : last[k] = s[k + d]
BY SubSeqProperties

Longer(n) == IF n < 2 * MaxConversationTurns THEN n + 1 ELSE 2 * MaxConversationTurns

LEMMA AddMessageKeeps ==
    ASSUME NEW h \in Seq(Message), NEW role \in {"user", "assistant"},
           NEW r \in Nat
    PROVE  LET new == AddMessage(h, role, r)
           IN  /\ new \in Seq(Message)
               /\ Len(new) = Longer(Len(h))
               /\ new[Len(new)] = [role |-> role, run |-> r]
               /\ \A k \in 1..(Longer(Len(h)) - 1) :
                    new[k] = h[k + (Len(h) + 1 - Longer(Len(h)))]
<1> DEFINE m == [role |-> role, run |-> r]
           longer == Append(h, m)
           max == MaxConversationTurns * 2
<1>1. m \in Message
  BY DEF Message
<1>2. /\ longer \in Seq(Message)
      /\ Len(longer) = Len(h) + 1
      /\ longer[Len(longer)] = m
      /\ \A k \in 1..Len(h) : longer[k] = h[k]
  BY <1>1
<1>3. max \in Nat \ {0} /\ max = 2 * MaxConversationTurns /\ Len(h) \in Nat
  BY BoundsAssumption
<1> HIDE DEF m, longer, max
<1>4. CASE Len(longer) > max
  <2>1. Longer(Len(h)) = max
    BY <1>2, <1>3, <1>4 DEF Longer
  <2>2. PICK d \in Nat : d + max = Len(longer)
    <3>1. Len(longer) - max \in Nat /\ (Len(longer) - max) + max = Len(longer)
      BY <1>2, <1>3, <1>4
    <3> QED
      BY <3>1
  <2> DEFINE last == SubSeq(longer, d + 1, Len(longer))
  <2>3. AddMessage(h, role, r) = last
    <3>1. AddMessage(h, role, r) = SubSeq(longer, Len(longer) - max + 1, Len(longer))
      BY <1>4, Zenon DEF AddMessage, longer, max, m
    <3>2. Len(longer) - max + 1 = d + 1
      BY <1>2, <1>3, <2>2
    <3> QED
      BY <3>1, <3>2
  <2>4. /\ last \in Seq(Message)
        /\ Len(last) = max
        /\ \A k \in 1..max : last[k] = longer[k + d]
    <3>1. d < Len(longer) /\ Len(longer) - d = max
      BY <1>2, <1>3, <2>2
    <3> QED
      BY <1>2, <3>1, LastOnes
  <2> HIDE DEF last
  <2>5. last[max] = m
    BY <1>2, <1>3, <2>2, <2>4
  <2>6. \A k \in 1..(max - 1) : last[k] = h[k + d]
    <3>1. d + max = Len(h) + 1
      BY <1>2, <2>2
    <3> SUFFICES ASSUME NEW k \in 1..(max - 1) PROVE last[k] = h[k + d]
      OBVIOUS
    <3>2. last[k] = longer[k + d]
      BY <1>3, <2>4
    <3>3. k + d \in 1..Len(h)
      BY <1>3, <2>2, <3>1
    <3> QED
      BY <1>2, <3>2, <3>3
  <2>7. Len(h) + 1 - max = d
    BY <1>2, <1>3, <2>2
  <2> QED
    BY <2>1, <2>3, <2>4, <2>5, <2>6, <2>7 DEF m
<1>5. CASE ~(Len(longer) > max)
  <2>1. Longer(Len(h)) = Len(longer)
    BY <1>2, <1>3, <1>5 DEF Longer
  <2>2. AddMessage(h, role, r) = longer
    BY <1>5, Zenon DEF AddMessage, longer, max, m
  <2>3. \A k \in 1..(Len(longer) - 1) : longer[k] = h[k + (Len(h) + 1 - Len(longer))]
    BY <1>2, <1>3
  <2> QED
    BY <1>2, <2>1, <2>2, <2>3 DEF m
<1> QED
  BY <1>4, <1>5

-----------------------------------------------------------------------------
(* Type correctness, one part of TypeOK after the other.                    *)

LEMMA Constants ==
    /\ NoExtra \in Extra /\ Hint \in Extra
    /\ NoPlan \in Plan
    /\ NoAnswer \in Answer
<1>1. NoExtra \in Extra /\ Hint \in Extra
  BY BoundsAssumption DEF Extra, NoExtra, Hint
<1>2. NoPlan \in Plan
  BY <1>1, BoundsAssumption DEF Plan, NoPlan
<1>3. NoAnswer \in Answer
  BY DEF Answer, NoAnswer
<1> QED
  BY <1>1, <1>2, <1>3

LEMMA ReturnTypes ==
    ASSUME TypeOK, Return
    PROVE  /\ pc' \in Points
           /\ ConfigTypeOK' /\ PlansTypeOK' /\ StepTypeOK'
           /\ FlagsTypeOK' /\ HeardTypeOK'
           /\ run' = run /\ messages' = <<>>
<1>1. pc' \in Points
  BY Zenon DEF Return, Points
<1>2. ConfigTypeOK'
  BY Zenon DEF Return, ConfigTypeOK, TypeOK
<1>3. PlansTypeOK'
  <2>1. /\ intentRetries' = 0 /\ revisionCount' = 0 /\ calls' = 0
        /\ planningCommand' = NoExtra /\ plan' = NoPlan
    BY Zenon DEF Return
  <2> QED
    BY <2>1, Constants, BoundsAssumption DEF PlansTypeOK
<1>4. StepTypeOK'
  <2>1. step' = 0 /\ action' = "read" /\ target' = "planned"
    BY Zenon DEF Return
  <2> QED
    BY <2>1 DEF StepTypeOK, Actions
<1>5. FlagsTypeOK'
  BY Zenon DEF Return, FlagsTypeOK
<1>6. HeardTypeOK'
  <2>1. answer' = NoAnswer /\ feedback' = 0
    BY Zenon DEF Return
  <2> QED
    BY <2>1, Constants, BoundsAssumption DEF HeardTypeOK
<1>7. run' = run /\ messages' = <<>>
  BY Zenon DEF Return
<1> QED
  BY <1>1, <1>2, <1>3, <1>4, <1>5, <1>6, <1>7

LEMMA FailTypes == ASSUME TypeOK, Fail PROVE TypeOK'
<1>1. Return /\ history' = history
  BY Zenon DEF Fail
<1>2. HistoryTypeOK'
  BY <1>1, ReturnTypes DEF TypeOK, HistoryTypeOK
<1> QED
  BY <1>1, <1>2, ReturnTypes DEF TypeOK

LEMMA SucceedTypes == ASSUME TypeOK, Succeed PROVE TypeOK'
<1> DEFINE new == AddMessage(messages, "assistant", run)
<1>1. Return /\ (history' = history \/ history' = new)
  BY Zenon DEF Succeed
<1>2. /\ run \in Nat /\ run \in 0..MaxRuns
      /\ messages \in Seq(Message) /\ history \in Seq(Message)
  BY BoundsAssumption DEF TypeOK, HistoryTypeOK
<1>3. new \in Seq(Message)
  BY <1>2, AddMessageKeeps
<1> HIDE DEF new
<1>4. HistoryTypeOK'
  BY <1>1, <1>2, <1>3, ReturnTypes DEF HistoryTypeOK
<1> QED
  BY <1>1, <1>4, ReturnTypes DEF TypeOK

LEMMA AnsweredTypes ==
    ASSUME TypeOK, NEW g \in {"skill", "plan", "execute", "result"},
           NEW d \in {"Approve", "ApproveAll", "Reject", "Revise"},
           Answered(g, d)
    PROVE  answer' \in Answer
BY DEF TypeOK, PlansTypeOK, StepTypeOK, Answered, Answer, Plan

LEMMA StartRunTypes == ASSUME TypeOK, StartRun PROVE TypeOK'
<1>1. pc' \in Points
  BY Zenon DEF TypeOK, StartRun, Points
<1>2. ConfigTypeOK'
  BY Zenon DEF TypeOK, ConfigTypeOK, StartRun, config
<1>3. PlansTypeOK'
  BY Zenon DEF TypeOK, PlansTypeOK, StartRun, plans
<1>4. StepTypeOK'
  BY Zenon DEF TypeOK, StepTypeOK, StartRun, current
<1>5. FlagsTypeOK'
  BY Zenon DEF TypeOK, FlagsTypeOK, StartRun, current, heard
<1>6. HistoryTypeOK'
  <2> DEFINE new == AddMessage(history, "user", run + 1)
  <2>1. run' = run + 1 /\ run < MaxRuns /\ messages' = new /\ history' = history
    BY Zenon DEF StartRun
  <2>2. run + 1 \in Nat /\ run + 1 \in 0..MaxRuns /\ history \in Seq(Message)
    BY <2>1, BoundsAssumption DEF TypeOK, HistoryTypeOK
  <2>3. new \in Seq(Message)
    BY <2>2, AddMessageKeeps
  <2> HIDE DEF new
  <2> QED
    BY <2>1, <2>2, <2>3 DEF HistoryTypeOK
<1>7. HeardTypeOK'
  BY Zenon DEF TypeOK, HeardTypeOK, StartRun, heard
<1> QED
  BY <1>1, <1>2, <1>3, <1>4, <1>5, <1>6, <1>7 DEF TypeOK

LEMMA MissesIntentTypes == ASSUME TypeOK, calls' = calls + 1, MissesIntent PROVE TypeOK'
<1>1. pc' \in Points
  BY Zenon DEF TypeOK, MissesIntent, Points
<1>2. ConfigTypeOK'
  BY Zenon DEF TypeOK, ConfigTypeOK, MissesIntent, config
<1>3. PlansTypeOK'
  BY Constants, BoundsAssumption DEF TypeOK, PlansTypeOK, MissesIntent
<1>4. StepTypeOK'
  BY Zenon DEF TypeOK, StepTypeOK, MissesIntent, current
<1>5. FlagsTypeOK'
  BY Zenon DEF TypeOK, FlagsTypeOK, MissesIntent, current, heard
<1>6. HistoryTypeOK'
  BY Zenon DEF TypeOK, HistoryTypeOK, MissesIntent, said
<1>7. HeardTypeOK'
  BY Zenon DEF TypeOK, HeardTypeOK, MissesIntent, heard
<1> QED
  BY <1>1, <1>2, <1>3, <1>4, <1>5, <1>6, <1>7 DEF TypeOK

LEMMA MatchesIntentTypes == ASSUME TypeOK, calls' = calls + 1, MatchesIntent PROVE TypeOK'
<1>1. pc' \in Points
  BY Zenon DEF TypeOK, MatchesIntent, Points
<1>2. ConfigTypeOK'
  BY Zenon DEF TypeOK, ConfigTypeOK, MatchesIntent, config
<1>3. PlansTypeOK'
  BY BoundsAssumption DEF TypeOK, PlansTypeOK, MatchesIntent, Plan
<1>4. StepTypeOK'
  BY Zenon DEF TypeOK, StepTypeOK, MatchesIntent, current
<1>5. FlagsTypeOK'
  BY Zenon DEF TypeOK, FlagsTypeOK, MatchesIntent, current, heard
<1>6. HistoryTypeOK'
  BY Zenon DEF TypeOK, HistoryTypeOK, MatchesIntent, said
<1>7. HeardTypeOK'
  BY Zenon DEF TypeOK, HeardTypeOK, MatchesIntent, heard
<1> QED
  BY <1>1, <1>2, <1>3, <1>4, <1>5, <1>6, <1>7 DEF TypeOK

LEMMA ReviseTypes == ASSUME TypeOK, Revise PROVE TypeOK'
<1>1. pc' \in Points
  BY Zenon DEF TypeOK, Revise, Points
<1>2. ConfigTypeOK'
  BY Zenon DEF TypeOK, ConfigTypeOK, Revise, config
<1>3. PlansTypeOK'
  BY Constants, BoundsAssumption DEF TypeOK, PlansTypeOK, Revise
<1>4. StepTypeOK'
  BY Zenon DEF TypeOK, StepTypeOK, Revise, current
<1>5. FlagsTypeOK'
  BY Zenon DEF TypeOK, FlagsTypeOK, Revise, current, heard
<1>6. HistoryTypeOK'
  BY Zenon DEF TypeOK, HistoryTypeOK, Revise, said
<1>7. HeardTypeOK'
  <2>1. answer' \in Answer
    BY AnsweredTypes DEF Revise
  <2> QED
    BY <2>1, BoundsAssumption DEF TypeOK, HeardTypeOK, Revise
<1> QED
  BY <1>1, <1>2, <1>3, <1>4, <1>5, <1>6, <1>7 DEF TypeOK

LEMMA PromptRevisionTypes == ASSUME TypeOK, PromptRevision, ~Fail PROVE TypeOK'
<1>1. pc' \in Points
  BY Zenon DEF TypeOK, PromptRevision, Points
<1>2. ConfigTypeOK'
  BY Zenon DEF TypeOK, ConfigTypeOK, PromptRevision, config
<1>3. PlansTypeOK'
  BY Constants, BoundsAssumption DEF TypeOK, PlansTypeOK, PromptRevision, Extra
<1>4. StepTypeOK'
  BY Zenon DEF TypeOK, StepTypeOK, PromptRevision, current
<1>5. FlagsTypeOK'
  BY Zenon DEF TypeOK, FlagsTypeOK, PromptRevision, current, heard
<1>6. HistoryTypeOK'
  BY Zenon DEF TypeOK, HistoryTypeOK, PromptRevision, said
<1>7. HeardTypeOK'
  BY BoundsAssumption DEF TypeOK, HeardTypeOK, PlansTypeOK, PromptRevision, heard
<1> QED
  BY <1>1, <1>2, <1>3, <1>4, <1>5, <1>6, <1>7 DEF TypeOK

LEMMA PlanReadyTypes == ASSUME TypeOK, PlanReady, ~Succeed PROVE TypeOK'
<1>1. pc' \in Points
  BY Zenon DEF TypeOK, PlanReady, Points
<1>2. ConfigTypeOK'
  BY Zenon DEF TypeOK, ConfigTypeOK, PlanReady, config
<1>3. PlansTypeOK'
  BY Zenon DEF TypeOK, PlansTypeOK, PlanReady, plans
<1>4. StepTypeOK'
  BY DEF TypeOK, StepTypeOK, PlanReady
<1>5. FlagsTypeOK'
  BY Zenon DEF TypeOK, FlagsTypeOK, PlanReady, current, heard
<1>6. HistoryTypeOK'
  BY Zenon DEF TypeOK, HistoryTypeOK, PlanReady, said
<1>7. HeardTypeOK'
  BY Zenon DEF TypeOK, HeardTypeOK, PlanReady, heard
<1> QED
  BY <1>1, <1>2, <1>3, <1>4, <1>5, <1>6, <1>7 DEF TypeOK

LEMMA NextStepTypes == ASSUME TypeOK, NextStep PROVE TypeOK'
<1>1. pc' \in Points
  BY Zenon DEF TypeOK, NextStep, Points
<1>2. ConfigTypeOK'
  BY Zenon DEF TypeOK, ConfigTypeOK, NextStep, config
<1>3. PlansTypeOK'
  BY Zenon DEF TypeOK, PlansTypeOK, NextStep, plans
<1>4. StepTypeOK'
  BY DEF TypeOK, StepTypeOK, NextStep
<1>5. FlagsTypeOK'
  BY Zenon DEF TypeOK, FlagsTypeOK, NextStep, current, heard
<1>6. HistoryTypeOK'
  BY Zenon DEF TypeOK, HistoryTypeOK, NextStep, said
<1>7. HeardTypeOK'
  BY Zenon DEF TypeOK, HeardTypeOK, NextStep, heard
<1> QED
  BY <1>1, <1>2, <1>3, <1>4, <1>5, <1>6, <1>7 DEF TypeOK

LEMMA DecideTypes == ASSUME TypeOK, Decide PROVE TypeOK'
<1>1. pc' \in Points
  BY Zenon DEF TypeOK, Decide, Points
<1>2. ConfigTypeOK'
  BY Zenon DEF TypeOK, ConfigTypeOK, Decide, config
<1>3. PlansTypeOK'
  BY Zenon DEF TypeOK, PlansTypeOK, Decide, plans
<1>4. StepTypeOK'
  BY Zenon DEF TypeOK, StepTypeOK, Decide, current
<1>5. FlagsTypeOK'
  <2>1. dangerous' \in BOOLEAN
    <3>1. IsDangerous(action) \in BOOLEAN
      BY DEF IsDangerous
    <3> QED
      BY <3>1, Zenon DEF Decide
  <2>2. approveAll' = approveAll /\ blanket' = blanket
    BY Zenon DEF Decide, heard
  <2> QED
    BY <2>1, <2>2, Zenon DEF TypeOK, FlagsTypeOK
<1>6. HistoryTypeOK'
  BY Zenon DEF TypeOK, HistoryTypeOK, Decide, said
<1>7. HeardTypeOK'
  BY Zenon DEF TypeOK, HeardTypeOK, Decide, heard
<1> QED
  BY <1>1, <1>2, <1>3, <1>4, <1>5, <1>6, <1>7 DEF TypeOK

LEMMA ExecuteStepTypes == ASSUME TypeOK, ExecuteStep, ~Fail PROVE TypeOK'
<1>1. pc' \in Points
  BY Zenon DEF TypeOK, ExecuteStep, Points
<1>2. ConfigTypeOK'
  BY Zenon DEF TypeOK, ConfigTypeOK, ExecuteStep, config
<1>3. PlansTypeOK'
  BY Zenon DEF TypeOK, PlansTypeOK, ExecuteStep, plans
<1>4. StepTypeOK'
  BY DEF TypeOK, StepTypeOK, ExecuteStep
<1>5. FlagsTypeOK'
  BY Zenon DEF TypeOK, FlagsTypeOK, ExecuteStep, current, heard
<1>6. HistoryTypeOK'
  BY Zenon DEF TypeOK, HistoryTypeOK, ExecuteStep, said
<1>7. HeardTypeOK'
  BY Zenon DEF TypeOK, HeardTypeOK, ExecuteStep, heard
<1> QED
  BY <1>1, <1>2, <1>3, <1>4, <1>5, <1>6, <1>7 DEF TypeOK

LEMMA TypeStep == TypeOK /\ [Next]_vars => TypeOK'
<1> SUFFICES ASSUME TypeOK, [Next]_vars, ~Fail, ~Succeed PROVE TypeOK'
  BY FailTypes, SucceedTypes
<1>1. CASE AnswerSkill
  <2>1. answer' \in Answer
    BY <1>1, AnsweredTypes DEF AnswerSkill
  <2>2. HeardTypeOK' /\ FlagsTypeOK' /\ HistoryTypeOK'
    BY <1>1, <2>1, Zenon DEF AnswerSkill, TypeOK, HeardTypeOK, FlagsTypeOK,
       HistoryTypeOK, current, said
  <2> QED
    BY <1>1, <2>2, Zenon DEF AnswerSkill, TypeOK, Points, ConfigTypeOK, PlansTypeOK,
       StepTypeOK, config, plans, current
<1>2. CASE BuildDirListing
  BY <1>2, Zenon DEF BuildDirListing, TypeOK, Points, ConfigTypeOK, PlansTypeOK,
     StepTypeOK, FlagsTypeOK, HistoryTypeOK, HeardTypeOK, said, config, plans, current,
     heard
<1>3. CASE AnswerPlan /\ ~Revise
  <2>1. answer' \in Answer
    BY <1>3, AnsweredTypes DEF AnswerPlan
  <2>2. HeardTypeOK' /\ FlagsTypeOK' /\ HistoryTypeOK'
    BY <1>3, <2>1, Zenon DEF AnswerPlan, TypeOK, HeardTypeOK, FlagsTypeOK,
       HistoryTypeOK, current, said
  <2> QED
    BY <1>3, <2>2, Zenon DEF AnswerPlan, TypeOK, Points, ConfigTypeOK, PlansTypeOK,
       StepTypeOK, config, plans, current
<1>4. CASE PrepareDelete
  BY <1>4, Zenon DEF PrepareDelete, TypeOK, Points, ConfigTypeOK, PlansTypeOK,
     StepTypeOK, FlagsTypeOK, HistoryTypeOK, HeardTypeOK, said, config, plans, heard
<1>5. CASE AnswerStep
  <2>1. answer' \in Answer
    BY <1>5, AnsweredTypes DEF AnswerStep
  <2>2. HeardTypeOK' /\ FlagsTypeOK' /\ HistoryTypeOK'
    BY <1>5, <2>1, Zenon DEF AnswerStep, TypeOK, HeardTypeOK, FlagsTypeOK,
       HistoryTypeOK, current, said
  <2> QED
    BY <1>5, <2>2, Zenon DEF AnswerStep, TypeOK, Points, ConfigTypeOK, PlansTypeOK,
       StepTypeOK, config, plans, current
<1>6. CASE StepsDone
  BY <1>6, Zenon DEF StepsDone, TypeOK, Points, ConfigTypeOK, PlansTypeOK,
     StepTypeOK, FlagsTypeOK, HistoryTypeOK, HeardTypeOK, said, config, plans, current,
     heard
<1>7. CASE UNCHANGED vars
  BY <1>7, Zenon DEF vars, TypeOK, Points, ConfigTypeOK, PlansTypeOK,
     StepTypeOK, FlagsTypeOK, HistoryTypeOK, HeardTypeOK, said, config, plans, current,
     heard
<1> QED
  BY <1>1, <1>2, <1>3, <1>4, <1>5, <1>6, <1>7, StartRunTypes, MissesIntentTypes,
     MatchesIntentTypes, ReviseTypes, PromptRevisionTypes, PlanReadyTypes,
     NextStepTypes, DecideTypes, ExecuteStepTypes
     DEF Next, AgentStep, UserStep, CreatePlan, AnswerResult, AnswerPlan

(* Every variable keeps its type.                                           *)
THEOREM TypeCorrect == Spec => []TypeOK
<1>1. Init => TypeOK
  <2> SUFFICES ASSUME Init PROVE TypeOK
    OBVIOUS
  <2>1. pc \in Points /\ ConfigTypeOK /\ FlagsTypeOK
    BY Zenon DEF Init, Points, ConfigTypeOK, FlagsTypeOK
  <2>2. PlansTypeOK
    <3>1. /\ intentRetries = 0 /\ revisionCount = 0 /\ calls = 0
          /\ planningCommand = NoExtra /\ plan = NoPlan
      BY Zenon DEF Init
    <3> QED
      BY <3>1, Constants, BoundsAssumption DEF PlansTypeOK
  <2>3. StepTypeOK
    BY DEF Init, StepTypeOK, Actions
  <2>4. HistoryTypeOK
    <3>1. run = 0 /\ messages = <<>> /\ history = <<>>
      BY Zenon DEF Init
    <3> QED
      BY <3>1, BoundsAssumption DEF HistoryTypeOK
  <2>5. HeardTypeOK
    <3>1. answer = NoAnswer /\ feedback = 0
      BY Zenon DEF Init
    <3> QED
      BY <3>1, Constants, BoundsAssumption DEF HeardTypeOK
  <2> QED
    BY <2>1, <2>2, <2>3, <2>4, <2>5 DEF TypeOK
<1> QED
  BY <1>1, TypeStep, PTL DEF Spec

-----------------------------------------------------------------------------
(* Which steps reach a control point, and which leave a variable alone.     *)

LEMMA ReachesRunning ==
    ASSUME [Next]_vars, pc' = "running"
    PROVE  Decide \/ AnswerStep \/ UNCHANGED vars
BY Zenon DEF Next, AgentStep, UserStep, StartRun, AnswerSkill, BuildDirListing,
   CreatePlan, MissesIntent, MatchesIntent, AnswerPlan, Revise, PromptRevision,
   PlanReady, NextStep, PrepareDelete, ExecuteStep, StepsDone, AnswerResult,
   Succeed, Fail, Return

LEMMA ChangesApproveAll ==
    ASSUME [Next]_vars
    PROVE  \/ approveAll' = approveAll /\ blanket' = blanket
           \/ approveAll' = FALSE
           \/ blanket' = TRUE
BY Zenon DEF Next, AgentStep, UserStep, StartRun, AnswerSkill, BuildDirListing,
   CreatePlan, MissesIntent, MatchesIntent, AnswerPlan, Revise, PromptRevision,
   PlanReady, NextStep, PrepareDelete, Decide, AnswerStep, ExecuteStep, StepsDone,
   AnswerResult, Succeed, Fail, Return, heard, vars

LEMMA ChangesHistory ==
    ASSUME [Next]_vars
    PROVE  \/ StartRun
           \/ pc' = "idle" /\ history' = history
           \/ pc # "idle" /\ Succeed
           \/ UNCHANGED said /\ approver' = approver /\ (pc' = "idle" <=> pc = "idle")
BY Zenon DEF Next, AgentStep, UserStep, AnswerSkill, BuildDirListing,
   CreatePlan, MissesIntent, MatchesIntent, AnswerPlan, Revise, PromptRevision,
   PlanReady, NextStep, PrepareDelete, Decide, AnswerStep, ExecuteStep, StepsDone,
   AnswerResult, Fail, Return, vars, config

-----------------------------------------------------------------------------
(* The gates of a step.  What is inductive is that the flag approveAll is   *)
(* only ever set by the user; a step comes to run from its gate, with the   *)
(* answer to it at hand, or from Decide, when nobody had to be asked.       *)

GateInv == approveAll => blanket

LEMMA AnswerApproves ==
    ASSUME TypeOK, AnswerStep, pc' = "running"
    PROVE  StepApproved'
<1>1. \/ Answered("execute", "Approve")
      \/ Answered("execute", "ApproveAll")
  BY Zenon DEF AnswerStep, Fail, Return
<1>2. plan' = plan /\ step' = step /\ target' = target
  BY Zenon DEF AnswerStep, Fail, Return, plans, current
<1> QED
  BY <1>1, <1>2 DEF Answered, StepApproved

LEMMA DecideAsksDangerous ==
    ASSUME TypeOK, Decide, pc' = "running", mode = "dangerous-only", dangerous',
           action = "call_mcp_tool" => mcpMode \in {"", "dangerous-only"}
    PROVE  FALSE
<1>1. ~(Asks(dangerous') /\ PutsToUser(dangerous'))
  BY Zenon DEF Decide
<1>2. PutsToUser(dangerous')
  BY DEF PutsToUser, ShouldApprove
<1>3. ~IsReadOnly(action)
  BY DEF Decide, IsReadOnly, IsDangerous
<1>4. Asks(dangerous')
  BY <1>3 DEF Asks, ShouldApprove, ShouldRequestApproval
<1> QED
  BY <1>1, <1>2, <1>4

LEMMA DecideAsksInFull ==
    ASSUME TypeOK, Decide, pc' = "running", mode = "full",
           action = "call_mcp_tool" => mcpMode \in {"", "full"}
    PROVE  approveAll
<1>1. ~(Asks(dangerous') /\ PutsToUser(dangerous'))
  BY Zenon DEF Decide
<1>2. PutsToUser(dangerous')
  BY DEF PutsToUser, ShouldApprove
<1>3. ~approveAll => Asks(dangerous')
  BY DEF Asks, ShouldApprove, ShouldRequestApproval
<1> QED
  BY <1>1, <1>2, <1>3

LEMMA DecideKeeps ==
    ASSUME Decide
    PROVE  /\ mode' = mode /\ mcpMode' = mcpMode /\ action' = action
           /\ approveAll' = approveAll /\ blanket' = blanket
BY Zenon DEF Decide, config, heard

LEMMA GateStep ==
    ASSUME TypeOK, GateInv, DangerousIsAnswered, FullIsAnswered, [Next]_vars
    PROVE  GateInv' /\ DangerousIsAnswered' /\ FullIsAnswered'
<1>1. GateInv'
  BY ChangesApproveAll, Zenon DEF GateInv
<1>2. CASE pc' # "running"
  BY <1>1, <1>2 DEF DangerousIsAnswered, FullIsAnswered
<1>3. CASE pc' = "running" /\ AnswerStep
  BY <1>1, <1>3, AnswerApproves DEF DangerousIsAnswered, FullIsAnswered
<1>4. CASE pc' = "running" /\ Decide
  <2>1. DangerousIsAnswered'
    BY <1>4, DecideKeeps, DecideAsksDangerous DEF DangerousIsAnswered
  <2>2. FullIsAnswered'
    BY <1>4, DecideKeeps, DecideAsksInFull DEF FullIsAnswered, GateInv
  <2> QED
    BY <1>1, <2>1, <2>2
<1>5. CASE UNCHANGED vars
  BY <1>1, <1>5, Zenon DEF vars, config, plans, current, heard,
     DangerousIsAnswered, FullIsAnswered, StepApproved
<1> QED
  BY <1>2, <1>3, <1>4, <1>5, ReachesRunning

(* In mode dangerous-only a step that changes anything runs only after the  *)
(* user said yes to that very step.                                         *)
THEOREM DangerousStepsAreAnswered == Spec => []DangerousIsAnswered
<1>1. Init => GateInv /\ DangerousIsAnswered /\ FullIsAnswered
  BY DEF Init, GateInv, DangerousIsAnswered, FullIsAnswered
<1> QED
  BY <1>1, TypeCorrect, GateStep, PTL DEF Spec

(* In mode full a step runs unasked only after Approve all.                 *)
THEOREM FullStepsAreAnswered == Spec => []FullIsAnswered
<1>1. Init => GateInv /\ DangerousIsAnswered /\ FullIsAnswered
  BY DEF Init, GateInv, DangerousIsAnswered, FullIsAnswered
<1> QED
  BY <1>1, TypeCorrect, GateStep, PTL DEF Spec

-----------------------------------------------------------------------------
(* The history.                                                             *)

Turns(h, n) ==
    /\ Len(h) = 2 * n
    /\ \A i \in 1..n : /\ h[2 * i - 1].role = "user"
                     /\ h[2 * i] = [role |-> "assistant", run |-> h[2 * i - 1].run]

WholeTurns(h) == \E n \in 0..MaxConversationTurns : Turns(h, n)

(* A turn is added to a history that is not full.                           *)
LEMMA TurnAdded ==
    ASSUME NEW h \in Seq(Message), NEW r \in Nat,
           NEW n \in Nat, n < MaxConversationTurns, Turns(h, n)
    PROVE  Turns(AddMessage(AddMessage(h, "user", r), "assistant", r), n + 1)
<1> DEFINE u == AddMessage(h, "user", r)
           v == AddMessage(u, "assistant", r)
<1>1. MaxConversationTurns \in Nat /\ Len(h) = 2 * n
  BY BoundsAssumption DEF Turns
<1>2. /\ u \in Seq(Message)
      /\ Len(u) = Longer(Len(h))
      /\ u[Len(u)] = [role |-> "user", run |-> r]
      /\ \A k \in 1..(Longer(Len(h)) - 1) :
            u[k] = h[k + (Len(h) + 1 - Longer(Len(h)))]
  BY AddMessageKeeps
<1> HIDE DEF u
<1>3. /\ v \in Seq(Message)
      /\ Len(v) = Longer(Len(u))
      /\ v[Len(v)] = [role |-> "assistant", run |-> r]
      /\ \A k \in 1..(Longer(Len(u)) - 1) :
            v[k] = u[k + (Len(u) + 1 - Longer(Len(u)))]
  BY <1>2, AddMessageKeeps
<1> HIDE DEF v
<1>4. Longer(Len(h)) = 2 * n + 1
  BY <1>1 DEF Longer
<1>5. Len(u) = 2 * n + 1 /\ Longer(Len(u)) = 2 * n + 2
  BY <1>1, <1>2, <1>4 DEF Longer
<1>6. \A k \in 1..(2 * n) : u[k] = h[k]
  <2> SUFFICES ASSUME NEW k \in 1..(2 * n) PROVE u[k] = h[k]
    OBVIOUS
  <2>1. k \in 1..(Longer(Len(h)) - 1) /\ k + (Len(h) + 1 - Longer(Len(h))) = k
    BY <1>1, <1>4
  <2> QED
    BY <1>2, <2>1
<1>7. \A k \in 1..(2 * n + 1) : v[k] = u[k]
  <2> SUFFICES ASSUME NEW k \in 1..(2 * n + 1) PROVE v[k] = u[k]
    OBVIOUS
  <2>1. k \in 1..(Longer(Len(u)) - 1) /\ k + (Len(u) + 1 - Longer(Len(u))) = k
    BY <1>1, <1>5
  <2> QED
    BY <1>3, <2>1
<1>8. Len(v) = 2 * (n + 1)
  BY <1>1, <1>3, <1>5
<1>9. ASSUME NEW i \in 1..(n + 1)
      PROVE  /\ v[2 * i - 1].role = "user"
             /\ v[2 * i] = [role |-> "assistant", run |-> v[2 * i - 1].run]
  <2>1. CASE i = n + 1
    <3>1. v[2 * i - 1] = [role |-> "user", run |-> r]
      <4>1. 2 * i - 1 = 2 * n + 1 /\ 2 * n + 1 \in 1..(2 * n + 1)
        BY <1>1, <2>1
      <4> QED
        BY <1>2, <1>5, <1>7, <4>1
    <3>2. v[2 * i] = [role |-> "assistant", run |-> r]
      BY <1>3, <1>8, <2>1
    <3> QED
      BY <3>1, <3>2
  <2>2. CASE i # n + 1
    <3>1. i \in 1..n /\ 2 * i \in 1..(2 * n) /\ 2 * i - 1 \in 1..(2 * n)
      BY <1>1, <2>2
    <3>2. v[2 * i] = h[2 * i] /\ v[2 * i - 1] = h[2 * i - 1]
      BY <1>6, <1>7, <3>1
    <3> QED
      BY <3>1, <3>2 DEF Turns
  <2> QED
    BY <2>1, <2>2
<1> QED
  BY <1>8, <1>9 DEF Turns, v, u

(* In a full history the new turn replaces the oldest one.                  *)
LEMMA TurnReplaced ==
    ASSUME NEW h \in Seq(Message), NEW r \in Nat,
           NEW n \in Nat, n = MaxConversationTurns, Turns(h, n)
    PROVE  Turns(AddMessage(AddMessage(h, "user", r), "assistant", r), n)
<1> DEFINE u == AddMessage(h, "user", r)
           v == AddMessage(u, "assistant", r)
<1>1. n > 0 /\ Len(h) = 2 * n
  BY BoundsAssumption DEF Turns
<1>2. /\ u \in Seq(Message)
      /\ Len(u) = Longer(Len(h))
      /\ u[Len(u)] = [role |-> "user", run |-> r]
      /\ \A k \in 1..(Longer(Len(h)) - 1) :
            u[k] = h[k + (Len(h) + 1 - Longer(Len(h)))]
  BY AddMessageKeeps
<1> HIDE DEF u
<1>3. /\ v \in Seq(Message)
      /\ Len(v) = Longer(Len(u))
      /\ v[Len(v)] = [role |-> "assistant", run |-> r]
      /\ \A k \in 1..(Longer(Len(u)) - 1) :
            v[k] = u[k + (Len(u) + 1 - Longer(Len(u)))]
  BY <1>2, AddMessageKeeps
<1> HIDE DEF v
<1>4. Longer(2 * n) = 2 * n
  BY <1>1 DEF Longer
<1>5. Len(u) = 2 * n /\ Len(v) = 2 * n
  BY <1>1, <1>2, <1>3, <1>4
<1>6. \A k \in 1..(2 * n - 1) : u[k] = h[k + 1]
  <2> SUFFICES ASSUME NEW k \in 1..(2 * n - 1) PROVE u[k] = h[k + 1]
    OBVIOUS
  <2>1. k \in 1..(Longer(Len(h)) - 1) /\ k + (Len(h) + 1 - Longer(Len(h))) = k + 1
    BY <1>1, <1>4
  <2> QED
    BY <1>2, <2>1
<1>7. \A k \in 1..(2 * n - 1) : v[k] = u[k + 1]
  <2> SUFFICES ASSUME NEW k \in 1..(2 * n - 1) PROVE v[k] = u[k + 1]
    OBVIOUS
  <2>1. k \in 1..(Longer(Len(u)) - 1) /\ k + (Len(u) + 1 - Longer(Len(u))) = k + 1
    BY <1>1, <1>4, <1>5
  <2> QED
    BY <1>3, <2>1
<1>8. ASSUME NEW i \in 1..n
      PROVE  /\ v[2 * i - 1].role = "user"
             /\ v[2 * i] = [role |-> "assistant", run |-> v[2 * i - 1].run]
  <2>1. CASE i = n
    <3>1. v[2 * i - 1] = [role |-> "user", run |-> r]
      <4>1. 2 * i - 1 \in 1..(2 * n - 1) /\ (2 * i - 1) + 1 = 2 * n
        BY <1>1, <2>1
      <4> QED
        BY <1>2, <1>5, <1>7, <4>1
    <3>2. v[2 * i] = [role |-> "assistant", run |-> r]
      BY <1>3, <1>5, <2>1
    <3> QED
      BY <3>1, <3>2
  <2>2. CASE i # n
    <3>1. /\ i + 1 \in 1..n
          /\ 2 * i \in 1..(2 * n - 1) /\ 2 * i + 1 \in 1..(2 * n - 1)
          /\ 2 * i - 1 \in 1..(2 * n - 1)
          /\ (2 * i - 1) + 1 = 2 * i
          /\ 2 * (i + 1) = (2 * i + 1) + 1 /\ 2 * (i + 1) - 1 = 2 * i + 1
      BY <1>1, <2>2
    <3>2. v[2 * i] = u[2 * i + 1] /\ v[2 * i - 1] = u[2 * i]
      BY <1>7, <3>1
    <3>3. u[2 * i + 1] = h[2 * (i + 1)] /\ u[2 * i] = h[2 * (i + 1) - 1]
      BY <1>6, <3>1
    <3> QED
      BY <3>1, <3>2, <3>3 DEF Turns
  <2> QED
    BY <2>1, <2>2
<1> QED
  BY <1>5, <1>8 DEF Turns, v, u

LEMMA WholeTurnsKept ==
    ASSUME NEW h \in Seq(Message), NEW r \in Nat, WholeTurns(h)
    PROVE  WholeTurns(AddMessage(AddMessage(h, "user", r), "assistant", r))
<1>1. PICK n \in 0..MaxConversationTurns : Turns(h, n)
  BY Zenon DEF WholeTurns
<1>2. MaxConversationTurns \in Nat
  BY BoundsAssumption
<1>3. CASE n = MaxConversationTurns
  BY <1>1, <1>2, <1>3, TurnReplaced DEF WholeTurns
<1>4. CASE n # MaxConversationTurns
  <2>1. n < MaxConversationTurns /\ n + 1 \in 0..MaxConversationTurns
    BY <1>2, <1>4
  <2> QED
    BY <1>1, <2>1, TurnAdded DEF WholeTurns
<1> QED
  BY <1>3, <1>4

(* While a command runs, its agent has the session's history and the        *)
(* user's message, and nothing else.                                        *)
HistoryInv ==
    /\ WholeTurns(history)
    /\ pc # "idle" => messages = AddMessage(history, "user", run)

LEMMA HistoryStep ==
    ASSUME TypeOK, HistoryInv, [Next]_vars
    PROVE  HistoryInv'
<1>1. history \in Seq(Message) /\ run \in Nat
  BY BoundsAssumption DEF TypeOK, HistoryTypeOK
<1>2. CASE StartRun
  BY <1>2, Zenon DEF StartRun, HistoryInv, WholeTurns, Turns
<1>3. CASE pc' = "idle" /\ history' = history
  BY <1>3, Zenon DEF HistoryInv, WholeTurns, Turns
<1>4. CASE pc # "idle" /\ Succeed
  <2> DEFINE new == AddMessage(AddMessage(history, "user", run), "assistant", run)
  <2>1. pc' = "idle" /\ (history' = history \/ history' = new)
    BY <1>4, Zenon DEF Succeed, Return, HistoryInv
  <2>2. WholeTurns(history) /\ WholeTurns(new)
    BY <1>1, WholeTurnsKept DEF HistoryInv
  <2> HIDE DEF new
  <2>3. WholeTurns(history')
    BY <2>1, <2>2
  <2> QED
    BY <2>1, <2>3 DEF HistoryInv, WholeTurns, Turns
<1>5. CASE UNCHANGED said /\ (pc' = "idle" <=> pc = "idle")
  BY <1>5, Zenon DEF said, HistoryInv, WholeTurns, Turns
<1> QED
  BY <1>2, <1>3, <1>4, <1>5, ChangesHistory

LEMMA HistoryInvMeans ==
    ASSUME TypeOK, HistoryInv PROVE HistoryOfTurns
<1>1. history \in Seq(Message) /\ run \in Nat /\ MaxConversationTurns \in Nat
  BY BoundsAssumption DEF TypeOK, HistoryTypeOK
<1>2. PICK n \in 0..MaxConversationTurns : Turns(history, n)
  BY Zenon DEF HistoryInv, WholeTurns
<1>3. Len(history) <= 2 * MaxConversationTurns
  BY <1>1, <1>2 DEF Turns
<1>4. CASE pc = "idle"
  BY <1>2, <1>3, <1>4 DEF Turns, HistoryOfTurns
<1>5. CASE pc # "idle"
  <2> DEFINE new == AddMessage(history, "user", run)
  <2>1. messages = new
    BY <1>5, Zenon DEF HistoryInv
  <2>2. /\ new \in Seq(Message)
        /\ Len(new) = Longer(Len(history))
        /\ new[Len(new)] = [role |-> "user", run |-> run]
    BY <1>1, AddMessageKeeps
  <2> HIDE DEF new
  <2>3. Len(new) # 0
    BY <1>1, <2>2, BoundsAssumption DEF Longer
  <2>4. new # <<>>
    BY <2>3
  <2> QED
    BY <1>2, <1>3, <2>1, <2>2, <2>4, Zenon DEF Turns, HistoryOfTurns
<1> QED
  BY <1>4, <1>5

(* The history of a session is made of whole turns, trimmed or not, and the *)
(* planner of a command has its message last.                               *)
THEOREM HistoryIsOfTurns == Spec => []HistoryOfTurns
<1>1. Init => HistoryInv
  <2> SUFFICES ASSUME Init PROVE HistoryInv
    OBVIOUS
  <2>1. pc = "idle" /\ history = <<>>
    BY Zenon DEF Init
  <2>2. Turns(<<>>, 0) /\ 0 \in 0..MaxConversationTurns
    BY BoundsAssumption DEF Turns
  <2> QED
    BY <2>1, <2>2, Zenon DEF HistoryInv, WholeTurns
<1> QED
  BY <1>1, TypeCorrect, HistoryStep, HistoryInvMeans, PTL DEF Spec

-----------------------------------------------------------------------------
(* The plan that is executed.  ExecutedPlanWasApproved is inductive: in the *)
(* modes that ask for it a plan becomes final by the user's yes, and what   *)
(* is asked afterwards is asked about a step of that plan.                  *)

Executing == {"planned", "steps", "preparing", "deciding", "stepGate", "running",
              "resultGate"}

LEMMA ReachesExecution ==
    ASSUME [Next]_vars, pc' \in Executing
    PROVE  \/ UNCHANGED vars
           \/ pc' = "planned" /\ MatchesIntent
           \/ /\ plan' = plan /\ mode' = mode
              /\ Answered("plan", "Approve")
           \/ /\ plan' = plan /\ mode' = mode
              /\ pc \in Executing
              /\ \/ answer' = answer
                 \/ Answered("execute", "Approve")
                 \/ Answered("execute", "ApproveAll")
BY Zenon DEF Executing, Next, AgentStep, UserStep, StartRun, AnswerSkill,
   BuildDirListing, CreatePlan, MissesIntent, MatchesIntent, AnswerPlan, Revise,
   PromptRevision, PlanReady, NextStep, PrepareDelete, Decide, AnswerStep,
   ExecuteStep, StepsDone, AnswerResult, Succeed, Fail, Return, config, plans, heard

LEMMA ExecutedPlanStep ==
    ASSUME TypeOK, ExecutedPlanWasApproved, [Next]_vars
    PROVE  ExecutedPlanWasApproved'
<1> SUFFICES ASSUME pc' \in Executing, mode' \in {"full", "plan-only"}
             PROVE  /\ answer'.made = plan'.made
                    /\ answer'.stage = "plan" => answer'.decision = "Approve"
                    /\ answer'.stage # "skill"
  BY DEF ExecutedPlanWasApproved, Executing
<1>1. CASE UNCHANGED vars
  <2>1. pc' = pc /\ mode' = mode /\ plan' = plan /\ answer' = answer
    BY <1>1, Zenon DEF vars, config, plans, heard
  <2> QED
    BY <2>1 DEF ExecutedPlanWasApproved, Executing
<1>2. ~(pc' = "planned" /\ MatchesIntent)
  <2> SUFFICES ASSUME pc' = "planned", MatchesIntent PROVE FALSE
    OBVIOUS
  <2>1. mode' = mode /\ ~ShouldApprove(mode, "plan", FALSE)
    BY Zenon DEF MatchesIntent, config
  <2> QED
    BY <2>1 DEF ShouldApprove
<1>3. CASE plan' = plan /\ Answered("plan", "Approve")
  BY <1>3 DEF Answered
<1>4. CASE /\ plan' = plan /\ mode' = mode
           /\ pc \in Executing
           /\ answer' = answer
  BY <1>4 DEF ExecutedPlanWasApproved, Executing
<1>5. CASE /\ plan' = plan
           /\ Answered("execute", "Approve") \/ Answered("execute", "ApproveAll")
  BY <1>5 DEF Answered
<1> QED
  BY <1>1, <1>2, <1>3, <1>4, <1>5, ReachesExecution

(* In the modes that ask about the plan, the plan being executed is the one *)
(* the user approved.                                                       *)
THEOREM ExecutedPlansAreApproved == Spec => []ExecutedPlanWasApproved
<1>1. Init => ExecutedPlanWasApproved
  BY Zenon DEF Init, ExecutedPlanWasApproved
<1> QED
  BY <1>1, TypeCorrect, ExecutedPlanStep, PTL DEF Spec

-----------------------------------------------------------------------------
(* The calls of the model.  Each plan the user may see has the budget       *)
(* MaxPlanIntentRetries; the attempts that missed the intent are paid from  *)
(* the budget of the plan they were made for.                               *)

CallsInv ==
    /\ intentRetries < MaxPlanIntentRetries
    /\ pc \in {"idle", "skillGate", "listing"}
         => calls = 0 /\ revisionCount = 0 /\ intentRetries = 0
    /\ pc \in {"planning", "revising"}
         => calls <= MaxPlanIntentRetries * revisionCount + intentRetries
    /\ pc \in {"planGate", "revising"} => intentRetries = 0
    /\ calls <= MaxPlanIntentRetries * revisionCount + MaxPlanIntentRetries

LEMMA Budget ==
    ASSUME NEW a \in Nat, NEW b \in Nat
    PROVE  /\ a * b \in Nat
           /\ a * (b + 1) = a * b + a
           /\ a * 0 = 0
OBVIOUS

LEMMA BudgetGrows ==
    ASSUME NEW a \in Nat, NEW b \in Nat, NEW c \in Nat, b <= c
    PROVE  a * b <= a * c
<1>1. PICK d \in Nat : c = b + d
  <2>1. c - b \in Nat /\ c = b + (c - b)
    OBVIOUS
  <2> QED
    BY <2>1
<1>2. a * c = a * b + a * d /\ a * d \in Nat /\ a * b \in Nat
  BY <1>1
<1> QED
  BY <1>2

(* What a step does to the counters of planStage.                           *)
LEMMA Counters ==
    ASSUME [Next]_vars
    PROVE  \/ /\ pc' = "idle"
              /\ calls' = 0 /\ revisionCount' = 0 /\ intentRetries' = 0
           \/ pc = "planning" /\ calls' = calls + 1 /\ MissesIntent
           \/ pc = "planning" /\ calls' = calls + 1 /\ MatchesIntent
           \/ /\ pc = "planGate" /\ pc' \in {"planning", "revising"}
              /\ revisionCount' = revisionCount + 1
              /\ calls' = calls /\ intentRetries' = intentRetries
           \/ /\ calls' = calls /\ revisionCount' = revisionCount
              /\ intentRetries' = intentRetries
              /\ \/ pc' = pc
                 \/ pc' \notin {"idle", "skillGate", "listing", "planning",
                                "revising", "planGate"}
                 \/ pc \in {"idle", "skillGate"} /\ pc' \in {"skillGate", "listing"}
                 \/ pc \in {"listing", "revising"} /\ pc' = "planning"
<1>1. CASE Return
  BY <1>1, Zenon DEF Return
<1>2. CASE ~Return /\ (StartRun \/ AnswerSkill \/ BuildDirListing)
  BY <1>2, Zenon DEF StartRun, AnswerSkill, BuildDirListing, Fail, plans
<1>3. CASE ~Return /\ (CreatePlan \/ AnswerPlan \/ PromptRevision)
  BY <1>3, Zenon DEF CreatePlan, AnswerPlan, Revise, PromptRevision, Fail, plans
<1>4. CASE ~Return /\ (PlanReady \/ NextStep \/ PrepareDelete \/ Decide)
  BY <1>4, Zenon DEF PlanReady, NextStep, PrepareDelete, Decide, Succeed, Fail, plans
<1>5. CASE ~Return /\ (AnswerStep \/ ExecuteStep \/ StepsDone \/ AnswerResult)
  BY <1>5, Zenon DEF AnswerStep, ExecuteStep, StepsDone, AnswerResult, Succeed, Fail,
     plans
<1>6. CASE UNCHANGED vars
  BY <1>6, Zenon DEF vars, plans
<1> QED
  BY <1>1, <1>2, <1>3, <1>4, <1>5, <1>6, Zenon DEF Next, AgentStep, UserStep

LEMMA CallsStep ==
    ASSUME TypeOK, CallsInv, [Next]_vars
    PROVE  CallsInv'
<1> DEFINE budget == MaxPlanIntentRetries * revisionCount
<1>1. /\ MaxPlanIntentRetries \in Nat /\ MaxPlanIntentRetries > 0
      /\ revisionCount \in Nat /\ intentRetries \in Nat /\ calls \in Nat
  BY BoundsAssumption DEF TypeOK, PlansTypeOK
<1>2. /\ budget \in Nat
      /\ MaxPlanIntentRetries * (revisionCount + 1) = budget + MaxPlanIntentRetries
      /\ MaxPlanIntentRetries * 0 = 0
  BY <1>1, Budget
<1>3. CASE pc' = "idle" /\ calls' = 0 /\ revisionCount' = 0 /\ intentRetries' = 0
  BY <1>1, <1>2, <1>3 DEF CallsInv
<1>4. CASE pc = "planning" /\ calls' = calls + 1 /\ MissesIntent
  <2>1. /\ pc' = pc /\ revisionCount' = revisionCount
        /\ intentRetries' = intentRetries + 1
        /\ intentRetries + 1 < MaxPlanIntentRetries
    BY <1>4, Zenon DEF MissesIntent
  <2>2. calls <= budget + intentRetries
    BY <1>4, Zenon DEF CallsInv
  <2> HIDE DEF budget
  <2>3. calls' <= budget + intentRetries' /\ calls' <= budget + MaxPlanIntentRetries
    BY <1>1, <1>2, <1>4, <2>1, <2>2
  <2> QED
    BY <1>4, <2>1, <2>3 DEF CallsInv, budget
<1>5. CASE pc = "planning" /\ calls' = calls + 1 /\ MatchesIntent
  <2>1. /\ pc' \in {"planGate", "planned"} /\ revisionCount' = revisionCount
        /\ intentRetries' = 0
    BY <1>5, Zenon DEF MatchesIntent
  <2>2. calls <= budget + intentRetries /\ intentRetries < MaxPlanIntentRetries
    BY <1>5, Zenon DEF CallsInv
  <2> HIDE DEF budget
  <2>3. calls' <= budget + MaxPlanIntentRetries
    BY <1>1, <1>2, <1>5, <2>2
  <2> QED
    BY <1>1, <2>1, <2>3 DEF CallsInv, budget
<1>6. CASE /\ pc = "planGate" /\ pc' \in {"planning", "revising"}
           /\ revisionCount' = revisionCount + 1
           /\ calls' = calls /\ intentRetries' = intentRetries
  <2>1. /\ calls <= budget + MaxPlanIntentRetries
        /\ intentRetries = 0
    BY <1>6, Zenon DEF CallsInv
  <2>2. MaxPlanIntentRetries * revisionCount' = budget + MaxPlanIntentRetries
    BY <1>2, <1>6
  <2> HIDE DEF budget
  <2> QED
    BY <1>1, <1>2, <1>6, <2>1, <2>2 DEF CallsInv
<1>7. CASE /\ calls' = calls /\ revisionCount' = revisionCount
           /\ intentRetries' = intentRetries
           /\ \/ pc' = pc
              \/ pc' \notin {"idle", "skillGate", "listing", "planning",
                             "revising", "planGate"}
              \/ pc \in {"idle", "skillGate"} /\ pc' \in {"skillGate", "listing"}
              \/ pc \in {"listing", "revising"} /\ pc' = "planning"
  <2>1. pc = "listing" => calls <= budget + intentRetries
    BY <1>1, <1>2 DEF CallsInv
  <2> QED
    BY <1>1, <1>7, <2>1 DEF CallsInv
<1> QED
  BY <1>3, <1>4, <1>5, <1>6, <1>7, Counters

(* A command costs at most MaxPlanIntentRetries calls of the model for each *)
(* plan the user may see.                                                   *)
THEOREM CallsAreBounded == Spec => []CallsBounded
<1>1. Init => CallsInv
  <2> SUFFICES ASSUME Init PROVE CallsInv
    OBVIOUS
  <2>1. pc = "idle" /\ calls = 0 /\ revisionCount = 0 /\ intentRetries = 0
    BY Zenon DEF Init
  <2> QED
    BY <2>1, BoundsAssumption DEF CallsInv
<1>2. TypeOK /\ CallsInv => CallsBounded
  <2> SUFFICES ASSUME TypeOK, CallsInv PROVE CallsBounded
    OBVIOUS
  <2>1. /\ MaxPlanIntentRetries \in Nat /\ MaxRevisions \in Nat /\ calls \in Nat
        /\ revisionCount \in Nat /\ revisionCount <= MaxRevisions
    BY BoundsAssumption DEF TypeOK, PlansTypeOK
  <2>2. MaxPlanIntentRetries * revisionCount <= MaxPlanIntentRetries * MaxRevisions
    BY <2>1, BudgetGrows
  <2>3. /\ MaxPlanIntentRetries * revisionCount \in Nat
        /\ MaxPlanIntentRetries * MaxRevisions \in Nat
        /\ MaxPlanIntentRetries * (MaxRevisions + 1)
             = MaxPlanIntentRetries * MaxRevisions + MaxPlanIntentRetries
    BY <2>1, Budget
  <2>4. calls <= MaxPlanIntentRetries * revisionCount + MaxPlanIntentRetries
    BY Zenon DEF CallsInv
  <2> QED
    BY <2>1, <2>2, <2>3, <2>4 DEF CallsBounded
<1> QED
  BY <1>1, <1>2, TypeCorrect, CallsStep, PTL DEF Spec
=============================================================================
