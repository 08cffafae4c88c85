----------------------------- MODULE TuiSession -----------------------------
(***************************************************************************)
(* The terminal UI (internal/ui): the application and its current view,    *)
(* the sessions on disk, and the goroutines that run the agent             *)
(* (views/session.go runAgentCmd).                                         *)
(*                                                                         *)
(* The UI is an event loop: one message at a time is handled by App.Update *)
(* and the view.  A handler may return commands; each of them runs in a    *)
(* goroutine of its own and sends one message back, so the messages on     *)
(* their way arrive in any order.  A key press is handled as it comes, but *)
(* a key pressed in a modal or in the palette only posts a message.        *)
(*                                                                         *)
(* The agent of a run sends what it does through a channel of bounded      *)
(* capacity; to ask the user it sends a question and waits for the         *)
(* question's own response channel.  What the agent does is AgentLoop's    *)
(* subject: here it asks, announces its plan, sends text and ends.         *)
(*                                                                         *)
(* A text is the set of runs it comes from, a history the sequence of the  *)
(* runs that are part of it.  Left out: the wizard, providers and models,  *)
(* token counts, notices and events that only change the status panel,     *)
(* storage errors, and Ctrl+C, which ends the program.                     *)
(***************************************************************************)
EXTENDS Integers, Sequences, FiniteSets, Bags, BagsExt

CONSTANTS
    Sid,        \* session ids, handed out at random by the store
    Titles,     \* titles a session may have
    Others,     \* names of skills, and of what the other modals list
    Commands,   \* commands the user may choose in the palette
    Typed,      \* commands the user may type or give by a key
    Stages,     \* approval stages the agent may ask at
    Nil,        \* no session, run, question or record
    Paged,      \* TRUE iff more skills are loaded than fit on a page
    Capacity,   \* capacity of a run's channel, 128 in the code
    MaxRuns,    \* bound: commands given to the agent
    MaxSends,   \* bound: messages of a run before its last
    MaxPosts    \* bound: messages of the user's keys on their way

Run == 1 .. MaxRuns
Question == Run \X (1 .. MaxSends)
Named == Titles \cup Others

PaletteCommand ==
    {"switch-session", "new-session", "skills", "connect-provider",
     "view-status", "/clear"}

ASSUME TuiAssumption ==
    /\ Nil \notin Sid /\ Nil \notin Run /\ Nil \notin Question
    /\ Commands \cup Typed \subseteq PaletteCommand
    /\ Stages \subseteq {"skill", "plan", "execute", "result"}
    /\ Others # {} /\ Named \cap {"none", "waiting"} = {}
    /\ Paged \in BOOLEAN
    /\ Capacity \in Nat \ {0}
    /\ MaxRuns \in Nat /\ MaxSends \in Nat /\ MaxPosts \in Nat

VARIABLES
    view,       \* App.current: the session shown, or the welcome screen
    store,      \* the session files
    used,       \* ids the store has handed out
    posts,      \* messages of the UI's own commands on their way
    agent,      \* goroutine of each run
    chan,       \* channel of each run
    readers,    \* waitNext commands of a run blocked on its channel
    coming,     \* messages read from a channel on their way to Update
    resp,       \* response channel of each question
    home,       \* history: the session each run was started in
    mixed,      \* history: a view was replaced while a run was in progress
    hasty,      \* history: the user went on before a message had arrived
    applied     \* history: last message of each run the view has handled

vars == <<view, store, used, posts, agent, chan, readers, coming, resp,
          home, mixed, hasty, applied>>

-----------------------------------------------------------------------------
(* Modals.  A modal is the set of the items that can be selected; an item  *)
(* has a key only in the list of sessions.                                 *)

Item(label) == [label |-> label, key |-> Nil]

(* Labels that the handler of a selection passes on as a yes. *)
Approving == {"Approve", "Approve all", "Revise"}

Label == Named \cup Approving \cup
    {"Reject", "+ New session", "Create session", "Rename", "Delete", "Cancel"}

ApprovalItems(stage) ==
    {Item("Approve"), Item("Reject")}
      \cup (IF stage = "plan" THEN {Item("Revise")} ELSE {})
      \cup (IF stage = "execute" THEN {Item("Approve all")} ELSE {})

Stored == {id \in Sid : store[id] # Nil}

(* Store.List; a title is what the user has typed.                         *)
Summaries(records) ==
    {[label |-> records[id].title, key |-> id] :
        id \in {i \in Sid : records[i] # Nil}}

(* The welcome screen lists the sessions there were when it was made; a     *)
(* session refreshes its list with every change of the store.              *)
CommandItems(v, command) ==
    CASE command = "switch-session" ->
           {Item("+ New session")}
             \cup (IF v.at = Nil THEN v.listed ELSE Summaries(store))
      [] command = "new-session" -> {Item("Create session"), Item("Cancel")}
      [] command = "rename-session" -> {Item("Rename"), Item("Cancel")}
      [] command = "delete-session" -> {Item("Delete"), Item("Cancel")}
      [] OTHER -> {Item(name) : name \in Others}

ShowModal(v, command) ==
    [v EXCEPT !.modal = CommandItems(v, command), !.command = command]

(* modalOpen: an open modal has items, the items of a closed one are not   *)
(* kept.                                                                   *)
Open(v) == v.modal # {}
Close(v) == [v EXCEPT !.modal = {}]

(* openCommandModal *)
OpenModal(v, command) == [ShowModal(v, command) EXCEPT !.palette = FALSE]

-----------------------------------------------------------------------------
(* Views, records and messages. *)

Welcome(summaries) ==
    [at |-> Nil, listed |-> summaries, title |-> Nil, messages |-> <<>>,
     history |-> <<>>, running |-> FALSE, plan |-> Nil, response |-> {},
     approval |-> Nil, modal |-> {}, command |-> "", target |-> Nil,
     palette |-> FALSE]

Snapshot(v) ==
    [id |-> v.at, title |-> v.title, messages |-> v.messages,
     history |-> v.history]

(* Mutation: what was said is not restored.                                *)
RestoredUnread(s) ==
    [Welcome({}) EXCEPT !.at = s.id, !.title = s.title,
                        !.history = s.history]

(* NewSession with WithRestoredSnapshot. *)
Restored(s) ==
    [Welcome({}) EXCEPT !.at = s.id, !.title = s.title,
                        !.messages = s.messages, !.history = s.history]

(* Mutation: the snapshot is taken for the session shown, whatever its id. *)
ApplyAnySnapshot(v, s) == [v EXCEPT !.title = s.title,
                                    !.messages = s.messages,
                                    !.history = s.history]

ApplySnapshot(v, s) == IF s.id # v.at THEN v
                       ELSE [v EXCEPT !.title = s.title,
                                      !.messages = s.messages,
                                      !.history = s.history]

UserMessage(r) == [role |-> "user", of |-> {r}]
AssistantMessage(R) == [role |-> "assistant", of |-> R]

(* appendToAssistant: text joins the last message if it is an answer. *)
AppendToAssistant(ms, r) ==
    IF ms # <<>> /\ ms[Len(ms)].role = "assistant"
      THEN [ms EXCEPT ![Len(ms)].of = @ \cup {r}]
      ELSE Append(ms, AssistantMessage({r}))

Post(m) == BagAdd(posts, m)
Handled(m) == BagRemove(posts, m)

(* Whatever answers message m is posted in its place. *)
Answer(m, n) == BagAdd(Handled(m), n)

Saves == {m \in BagToSet(posts) : m.type = "save"}
SavePosted == Saves # {}

(* A bound: what the user's keys have posted; saves come on top.           *)
CanPost == BagCardinality(posts) < MaxPosts + Cardinality(Saves)

InProgress(r) ==
    \/ agent[r].pc \in {"work", "last", "asking"}
    \/ readers[r] > 0
    \/ \E m \in coming : m.run = r

-----------------------------------------------------------------------------
(* The goroutine of a run.  Its channel and the waitNext command that      *)
(* reads it.                                                               *)

Idle == [pc |-> "idle", planned |-> FALSE, asked |-> 0, sent |-> 0,
         history |-> <<>>]

Init ==
    /\ view = Welcome({})
    /\ store = [id \in Sid |-> Nil]
    /\ used = {}
    /\ posts = EmptyBag
    /\ agent = [r \in Run |-> Idle]
    /\ chan = [r \in Run |-> <<>>]
    /\ readers = [r \in Run |-> 0]
    /\ coming = {}
    /\ resp = [q \in Question |-> "none"]
    /\ home = [r \in Run |-> Nil]
    /\ mixed = FALSE
    /\ hasty = FALSE
    /\ applied = [r \in Run |-> 0]

(* runAgentCmd: the goroutine of the run and the first waitNext. *)
RunAgent(r, history, id) ==
    /\ agent' = [agent EXCEPT ![r].pc = "work", ![r].history = history]
    /\ readers' = [readers EXCEPT ![r] = 1]
    /\ home' = [home EXCEPT ![r] = id]

NextRun(r) ==
    /\ agent[r].pc = "idle"
    /\ \A p \in Run : p < r => agent[p].pc # "idle"

uiVars == <<view, store, used, posts, home, mixed, hasty, applied>>

Message(r, kind) == [run |-> r, n |-> agent[r].sent + 1, kind |-> kind,
                     ok |-> TRUE, history |-> <<>>, stage |-> "plan",
                     question |-> Nil]

(* A send of onChunk or onEvent, or of the last message. *)
Send(m) ==
    /\ Len(chan[m.run]) < Capacity
    /\ chan' = [chan EXCEPT ![m.run] = Append(@, m)]

(* Text: the warning about an action approved by itself, or, when there is *)
(* no plan to execute, the answer; only the end follows an answer.         *)
AgentSendText(r) ==
    /\ agent[r].pc = "work"
    /\ agent[r].sent < MaxSends
    /\ Send(Message(r, "chunk"))
    /\ agent' = [agent EXCEPT
                   ![r].sent = @ + 1,
                   ![r].pc = IF agent[r].planned THEN "work" ELSE "last"]
    /\ UNCHANGED <<uiVars, readers, coming, resp>>

AgentSendPlan(r) ==
    /\ agent[r].pc = "work" /\ ~agent[r].planned
    /\ agent[r].sent < MaxSends
    /\ Send(Message(r, "plan"))
    /\ agent' = [agent EXCEPT ![r].sent = @ + 1, ![r].planned = TRUE]
    /\ UNCHANGED <<uiVars, readers, coming, resp>>

(* tuiApprover.RequestApproval up to its select. *)
AgentAsk(r, stage) ==
    /\ agent[r].pc = "work"
    /\ agent[r].planned <=> stage \in {"execute", "result"}
    /\ agent[r].sent < MaxSends
    /\ LET q == <<r, agent[r].asked + 1>>
       IN /\ Send([Message(r, "ask") EXCEPT !.stage = stage, !.question = q])
          /\ resp' = [resp EXCEPT ![q] = "waiting"]
    /\ agent' = [agent EXCEPT ![r].sent = @ + 1, ![r].asked = @ + 1,
                              ![r].pc = "asking"]
    /\ UNCHANGED <<uiVars, readers, coming>>

(* The answer arrives; a no may end the run or only leave something out. *)
AgentResume(r) ==
    /\ agent[r].pc = "asking"
    /\ resp[<<r, agent[r].asked>>] \in Label
    /\ agent' = [agent EXCEPT ![r].pc = "work"]
    /\ resp' = [resp EXCEPT ![<<r, agent[r].asked>>] = "none"]
    /\ UNCHANGED <<uiVars, chan, readers, coming>>

(* Run returns, and the goroutine is gone: the last message has the        *)
(* result, the history with this run when it succeeded.                    *)
AgentEnd(r, ok) ==
    /\ agent[r].pc = "work" \/ (agent[r].pc = "last" /\ ok)
    /\ Send([Message(r, "done") EXCEPT
               !.ok = ok,
               !.history = IF ok THEN Append(agent[r].history, r) ELSE <<>>])
    /\ agent' = [agent EXCEPT ![r] = [Idle EXCEPT !.pc = "ended"]]
    /\ UNCHANGED <<uiVars, readers, coming, resp>>

AgentNext(r) ==
    \/ AgentSendText(r)
    \/ AgentSendPlan(r)
    \/ \E stage \in Stages : AgentAsk(r, stage)
    \/ AgentResume(r)
    \/ \E ok \in BOOLEAN : AgentEnd(r, ok)

(* waitNext: the command reads one message and posts it. *)
Receive(r) ==
    /\ readers[r] > 0 /\ chan[r] # <<>>
    /\ coming' = coming \cup {Head(chan[r])}
    /\ chan' = [chan EXCEPT ![r] = Tail(@)]
    /\ readers' = [readers EXCEPT ![r] = @ - 1]
    /\ UNCHANGED <<uiVars, agent, resp>>

runVars == <<agent, chan, readers, coming, resp, home, applied>>

-----------------------------------------------------------------------------
(* Messages of a run in Session.Update.  On the welcome screen they are    *)
(* dropped, and nobody reads the channel any more.                         *)

Arrived(m) ==
    /\ coming' = coming \ {m}
    /\ applied' = [applied EXCEPT ![m.run] = m.n]
    /\ UNCHANGED <<store, used, agent, chan, resp, home, mixed, hasty>>

(* Mutation: two commands wait for the next message.                       *)
WaitNextTwice(r) == readers' = [readers EXCEPT ![r] = @ + 2]

WaitNext(r) == readers' = [readers EXCEPT ![r] = @ + 1]

HandleText(m) ==
    /\ m.kind = "chunk" /\ view.at # Nil
    /\ view' = IF view.plan # Nil
                 THEN [view EXCEPT !.response = @ \cup {m.run}]
                 ELSE [view EXCEPT !.messages = AppendToAssistant(@, m.run)]
    /\ WaitNext(m.run)
    /\ Arrived(m)
    /\ UNCHANGED posts

HandlePlan(m) ==
    /\ m.kind = "plan" /\ view.at # Nil
    /\ view' = [view EXCEPT !.plan = m.run]
    /\ WaitNext(m.run)
    /\ Arrived(m)
    /\ UNCHANGED posts

(* Mutation: nobody reads the channel after a question.                    *)
HandleQuestionOnly(m) ==
    /\ m.kind = "ask" /\ view.at # Nil
    /\ view' = [view EXCEPT !.approval = m.question,
                            !.modal = ApprovalItems(m.stage),
                            !.messages = AppendToAssistant(@, m.run)]
    /\ Arrived(m)
    /\ UNCHANGED <<posts, readers>>

HandleQuestion(m) ==
    /\ m.kind = "ask" /\ view.at # Nil
    /\ view' = [view EXCEPT !.approval = m.question,
                            !.modal = ApprovalItems(m.stage),
                            !.messages = AppendToAssistant(@, m.run)]
    /\ WaitNext(m.run)
    /\ Arrived(m)
    /\ UNCHANGED posts

(* finishActiveRun: a plan becomes a message, with the text collected. *)
FinishActiveRun(v) ==
    IF v.plan = Nil THEN v
    ELSE [v EXCEPT !.messages = Append(@, AssistantMessage(v.response
                                                             \cup {v.plan})),
                   !.plan = Nil, !.response = {}]

Finished(v, m) ==
    IF m.ok THEN FinishActiveRun([v EXCEPT !.running = FALSE,
                                           !.history = m.history])
    ELSE [v EXCEPT !.running = FALSE, !.plan = Nil,
                   !.messages = AppendToAssistant(@, m.run)]

(* Mutation: a failed run is not saved.                                    *)
HandleDoneQuietly(m) ==
    /\ m.kind = "done" /\ view.at # Nil
    /\ view' = Finished(view, m)
    /\ posts' = IF m.ok THEN Post([type |-> "save", snapshot |-> Snapshot(view')])
                        ELSE posts
    /\ Arrived(m)
    /\ UNCHANGED readers

HandleDone(m) ==
    /\ m.kind = "done" /\ view.at # Nil
    /\ view' = Finished(view, m)
    /\ posts' = Post([type |-> "save", snapshot |-> Snapshot(view')])
    /\ Arrived(m)
    /\ UNCHANGED readers

DropMessage(m) ==
    /\ view.at = Nil
    /\ coming' = coming \ {m}
    /\ UNCHANGED <<uiVars, agent, chan, readers, resp>>

HandleMessage(r) ==
    \E m \in coming :
        /\ m.run = r
        /\ \/ HandleText(m)
           \/ HandlePlan(m)
           \/ HandleQuestion(m)
           \/ HandleDone(m)
           \/ DropMessage(m)

-----------------------------------------------------------------------------
(* Keys and the mouse.  All keys go to an open modal, then to an open      *)
(* palette, then to the input.                                             *)

Pressed == \E m \in BagToSet(posts) : m.type \in {"select", "close"}

(* Enter on an item; value is what an input modal holds.  from, a history  *)
(* field, is the question the user has read.                               *)
PressEnter(item, value) ==
    /\ item \in view.modal
    /\ CanPost \/ (view.approval # Nil /\ ~Pressed)
    /\ posts' = Post([type |-> "select", label |-> item.label,
                      key |-> item.key, value |-> value,
                      from |-> IF Item("Approve") \in view.modal
                                 THEN view.approval ELSE Nil])
    /\ hasty' = (hasty \/ Pressed)
    /\ UNCHANGED <<view, store, used, runVars, mixed>>

PressEsc ==
    /\ Open(view)
    /\ CanPost \/ (view.approval # Nil /\ ~Pressed)
    /\ posts' = Post([type |-> "close"])
    /\ hasty' = (hasty \/ Pressed)
    /\ UNCHANGED <<view, store, used, runVars, mixed>>

(* Ctrl+R and Ctrl+D on an item with a key. *)
PressAction(action, item) ==
    /\ item \in view.modal /\ item.key # Nil
    /\ CanPost
    /\ posts' = Post([type |-> "action", action |-> action, key |-> item.key])
    /\ UNCHANGED <<view, store, used, runVars, mixed, hasty>>

(* Left or Right in the list of skills. *)
TurnPage ==
    /\ view.at # Nil /\ Open(view) /\ view.command = "skills" /\ Paged
    /\ view' = [view EXCEPT !.modal = CommandItems(view, "skills")]
    /\ UNCHANGED <<store, used, posts, runVars, mixed, hasty>>

TogglePalette ==
    /\ ~Open(view) /\ Commands # {}
    /\ view' = [view EXCEPT !.palette = ~@]
    /\ UNCHANGED <<store, used, posts, runVars, mixed, hasty>>

PaletteEnter(command) ==
    /\ ~Open(view) /\ view.palette /\ CanPost
    /\ posts' = Post([type |-> "palette", command |-> command])
    /\ UNCHANGED <<view, store, used, runVars, mixed, hasty>>

PaletteEsc ==
    /\ ~Open(view) /\ view.palette /\ CanPost
    /\ posts' = Post([type |-> "palette close"])
    /\ UNCHANGED <<view, store, used, runVars, mixed, hasty>>

(* A click outside; an approval stays. *)
Click ==
    /\ view.at # Nil
    /\ \/ Open(view) /\ view.approval = Nil
          /\ view' = Close(view)
       \/ ~Open(view) /\ view.palette
          /\ view' = [view EXCEPT !.palette = FALSE]
    /\ UNCHANGED <<store, used, posts, runVars, mixed, hasty>>

(* handlePaletteCmd: /clear resets all but the text collected. *)
Command(v, command) ==
    IF command # "/clear" THEN OpenModal(v, command)
    ELSE IF v.running THEN v
    ELSE [v EXCEPT !.messages = <<>>, !.history = <<>>, !.plan = Nil]

(* The modal for a provider starts a search for local ones. *)
Detects(command) == command = "connect-provider" /\ view.at # Nil

(* A Ctrl+X chord of a session, or a command typed while no agent runs. *)
PressCommand(command) ==
    /\ ~Open(view) /\ ~view.palette
    /\ command \in {"switch-session", "new-session", "view-status"}
         \/ ~view.running
    /\ view' = Command(view, command)
    /\ IF Detects(command)
         THEN CanPost /\ posts' = Post([type |-> "local"])
         ELSE UNCHANGED posts
    /\ hasty' = (hasty \/ (command = "/clear" /\ SavePosted))
    /\ UNCHANGED <<store, used, runVars, mixed>>

(* Mutation: Enter starts a run while another one works.                   *)
TypeTaskAnyTime(r) ==
    /\ view.at # Nil /\ ~Open(view) /\ ~view.palette
    /\ NextRun(r)
    /\ view' = [view EXCEPT !.messages = Append(@, UserMessage(r)),
                            !.plan = Nil, !.running = TRUE]
    /\ RunAgent(r, view.history, view.at)
    /\ hasty' = (hasty \/ SavePosted)
    /\ UNCHANGED <<store, used, posts, chan, coming, resp, mixed, applied>>

(* Enter in a session's input; the run gets the history so far. *)
TypeTask(r) ==
    /\ view.at # Nil /\ ~Open(view) /\ ~view.palette /\ ~view.running
    /\ NextRun(r)
    /\ view' = [view EXCEPT !.messages = Append(@, UserMessage(r)),
                            !.plan = Nil, !.running = TRUE]
    /\ RunAgent(r, view.history, view.at)
    /\ hasty' = (hasty \/ SavePosted)
    /\ UNCHANGED <<store, used, posts, chan, coming, resp, mixed, applied>>

(* Enter on the welcome screen: its input stays as it is. *)
TypeFirstTask(title) ==
    /\ view.at = Nil /\ ~Open(view) /\ ~view.palette /\ CanPost
    /\ posts' = Post([type |-> "start", title |-> title])
    /\ UNCHANGED <<view, store, used, runVars, mixed, hasty>>

User ==
    \/ \E value \in Titles : \E item \in view.modal : PressEnter(item, value)
    \/ PressEsc
    \/ \E action \in {"rename-session", "delete-session"} :
          \E item \in view.modal : PressAction(action, item)
    \/ TurnPage
    \/ TogglePalette
    \/ \E command \in Commands : PaletteEnter(command)
    \/ PaletteEsc
    \/ Click
    \/ \E command \in Typed : PressCommand(command)
    \/ \E r \in Run : TypeTask(r)
    \/ \E title \in Titles : TypeFirstTask(title)

-----------------------------------------------------------------------------
(* Messages of the view's own commands, in Session.Update and              *)
(* Welcome.Update.                                                         *)

Handles(m, type) == m \in BagToSet(posts) /\ m.type = type

viewOnly == <<store, used, agent, chan, readers, coming, home, mixed, hasty,
              applied>>

(* An answer to the pending question; the channel holds one. *)
Respond(label) ==
    /\ resp[view.approval] = "waiting"
    /\ resp' = [resp EXCEPT ![view.approval] = label]

(* Mutation: the question stays pending.                                   *)
HandleAnswerStays(m) ==
    /\ Handles(m, "select") /\ view.at # Nil /\ view.approval # Nil
    /\ Respond(m.label)
    /\ view' = Close(view)
    /\ posts' = Handled(m)
    /\ UNCHANGED viewOnly

HandleAnswer(m) ==
    /\ Handles(m, "select") /\ view.at # Nil /\ view.approval # Nil
    /\ Respond(m.label)
    /\ view' = [Close(view) EXCEPT !.approval = Nil]
    /\ posts' = Handled(m)
    /\ UNCHANGED viewOnly

(* Mutation: closing the modal approves.                                   *)
HandleCloseApproves(m) ==
    /\ Handles(m, "close")
    /\ IF view.approval # Nil THEN Respond("Approve") ELSE UNCHANGED resp
    /\ view' = [Close(view) EXCEPT !.approval = Nil]
    /\ posts' = Handled(m)
    /\ UNCHANGED viewOnly

HandleClose(m) ==
    /\ Handles(m, "close")
    /\ IF view.approval # Nil THEN Respond("Reject") ELSE UNCHANGED resp
    /\ view' = [Close(view) EXCEPT !.approval = Nil]
    /\ posts' = Handled(m)
    /\ UNCHANGED viewOnly

(* A selection that closes the modal and is all. *)
Dismissed(v) == [Close(v) EXCEPT !.command = ""]

Chosen(m, command) ==
    /\ Handles(m, "select") /\ view.approval = Nil /\ view.command = command
    /\ UNCHANGED <<viewOnly, resp>>

SelectSession(m) ==
    /\ Chosen(m, "switch-session")
    /\ \/ /\ m.label = "+ New session"
          /\ view' = ShowModal(view, "new-session")
          /\ posts' = Handled(m)
       \/ /\ m.label # "+ New session" /\ m.key \notin {Nil, view.at}
          /\ view' = IF view.at = Nil THEN Close(view)
                                      ELSE Dismissed(view)
          /\ posts' = Answer(m, [type |-> "open", id |-> m.key])
       \/ /\ m.label # "+ New session" /\ m.key \in {Nil, view.at}
          /\ view' = Dismissed(view)
          /\ posts' = Handled(m)

SelectNewSession(m) ==
    /\ Chosen(m, "new-session")
    /\ IF \/ m.label = "Cancel"
          \/ view.at # Nil /\ m.value = view.title /\ view.messages = <<>>
         THEN /\ view' = Dismissed(view)
              /\ posts' = Handled(m)
         ELSE /\ view' = Close(view)
              /\ posts' = Answer(m, [type |-> "create", title |-> m.value])

SelectRename(m) ==
    /\ Chosen(m, "rename-session")
    /\ IF m.label = "Cancel"
         THEN /\ view' = Dismissed(view)
              /\ posts' = Handled(m)
         ELSE /\ view' = [Dismissed(view) EXCEPT !.target = Nil]
              /\ posts' = Answer(m, [type |-> "rename", id |-> view.target,
                                     title |-> m.value])

SelectDelete(m) ==
    /\ Chosen(m, "delete-session")
    /\ IF m.label # "Delete"
         THEN /\ view' = Dismissed(view)
              /\ posts' = Handled(m)
         ELSE /\ view' = [Dismissed(view) EXCEPT !.target = Nil]
              /\ posts' = Answer(m, [type |-> "delete", id |-> view.target])

(* A skill opens in a modal of its own, the item for the next page opens   *)
(* the list again.                                                         *)
SelectSkill(m) ==
    /\ Chosen(m, "skills")
    /\ IF view.at = Nil THEN view' = Dismissed(view)
       ELSE \/ view' = ShowModal(view, "skill-detail")
            \/ Paged /\ view' = ShowModal(view, "skills")
    /\ posts' = Handled(m)

(* Selections without an effect on the session, one the modal of a closed  *)
(* question still posts among them.                                        *)
SelectOther(m) ==
    /\ \E command \in {"", "skill-detail", "connect-provider", "view-status"} :
          Chosen(m, command)
    /\ view' = Dismissed(view)
    /\ posts' = Handled(m)

(* Ctrl+R or Ctrl+D in the list of sessions; the welcome screen ignores it. *)
HandleAction(m) ==
    /\ Handles(m, "action")
    /\ view' = IF view.at # Nil /\ view.command = "switch-session"
                 THEN [ShowModal(view, m.action) EXCEPT !.target = m.key]
                 ELSE view
    /\ posts' = Handled(m)
    /\ UNCHANGED <<viewOnly, resp>>

HandlePalette(m) ==
    /\ Handles(m, "palette")
    /\ view' = Command([view EXCEPT !.palette = FALSE], m.command)
    /\ posts' = IF Detects(m.command) THEN Answer(m, [type |-> "local"])
                                      ELSE Handled(m)
    /\ hasty' = (hasty \/ (m.command = "/clear" /\ SavePosted))
    /\ UNCHANGED <<store, used, runVars, mixed>>

HandlePaletteClose(m) ==
    /\ Handles(m, "palette close")
    /\ view' = [view EXCEPT !.palette = FALSE]
    /\ posts' = Handled(m)
    /\ UNCHANGED <<viewOnly, resp>>

(* The local providers are found: the items of the modal are replaced. *)
HandleLocal(m) ==
    /\ Handles(m, "local")
    /\ view' = IF view.at # Nil /\ Open(view)
                    /\ view.command = "connect-provider"
                 THEN [view EXCEPT !.modal = CommandItems(view, "connect-provider")]
                 ELSE view
    /\ posts' = Handled(m)
    /\ UNCHANGED <<viewOnly, resp>>

-----------------------------------------------------------------------------
(* Messages App.Update handles itself.                                     *)

(* saveCurrentSession *)
Saved == IF view.at = Nil THEN store
         ELSE [store EXCEPT ![view.at] = Snapshot(view)]

Replaces == mixed' = (mixed \/ \E r \in Run : InProgress(r))

appOnly == <<agent, chan, readers, coming, resp, home, hasty, applied>>

HandleSave(m) ==
    /\ Handles(m, "save")
    /\ store' = IF m.snapshot.id = Nil THEN store
                ELSE [store EXCEPT ![m.snapshot.id] = m.snapshot]
    /\ view' = IF view.at = Nil THEN view ELSE ApplySnapshot(view, m.snapshot)
    /\ posts' = Handled(m)
    /\ UNCHANGED <<used, appOnly, mixed>>

(* A session that is gone leaves the view as it is, but saved. *)
HandleOpen(m) ==
    /\ Handles(m, "open")
    /\ store' = Saved
    /\ IF Saved[m.id] = Nil THEN UNCHANGED <<view, mixed>>
       ELSE view' = Restored(Saved[m.id]) /\ Replaces
    /\ posts' = Handled(m)
    /\ UNCHANGED <<used, appOnly>>

(* Mutation: the record is created without its title.                      *)
BlankUntitled(id, title) ==
    [id |-> id, title |-> Nil, messages |-> <<>>, history |-> <<>>]

Blank(id, title) ==
    [id |-> id, title |-> title, messages |-> <<>>, history |-> <<>>]

(* The store hands out an id and writes an empty record. *)
NewRecord(id, title) ==
    /\ id \notin used
    /\ used' = used \cup {id}
    /\ store' = [Saved EXCEPT ![id] = Blank(id, title)]

HandleCreate(m, id) ==
    /\ Handles(m, "create")
    /\ NewRecord(id, m.title)
    /\ view' = Restored(Blank(id, m.title))
    /\ posts' = Handled(m)
    /\ Replaces
    /\ UNCHANGED appOnly

(* The first task: a session with its run started by Init. *)
HandleStart(m, id, r) ==
    /\ Handles(m, "start")
    /\ NextRun(r)
    /\ NewRecord(id, m.title)
    /\ view' = [Restored(Blank(id, m.title))
                  EXCEPT !.messages = <<UserMessage(r)>>, !.running = TRUE]
    /\ RunAgent(r, <<>>, id)
    /\ posts' = Handled(m)
    /\ Replaces
    /\ UNCHANGED <<chan, coming, resp, hasty, applied>>

HandleRename(m) ==
    /\ Handles(m, "rename")
    /\ store' = IF store[m.id] = Nil THEN store
                ELSE [store EXCEPT ![m.id].title = m.title]
    /\ view' = IF store[m.id] # Nil /\ view.at = m.id
                 THEN [view EXCEPT !.title = m.title] ELSE view
    /\ posts' = Handled(m)
    /\ UNCHANGED <<used, appOnly, mixed>>

HandleDelete(m) ==
    /\ Handles(m, "delete")
    /\ store' = [store EXCEPT ![m.id] = Nil]
    /\ IF view.at = m.id THEN view' = Welcome(Summaries(store')) /\ Replaces
       ELSE UNCHANGED <<view, mixed>>
    /\ posts' = Handled(m)
    /\ UNCHANGED <<used, appOnly>>

(* A selection or the closing of a modal reaches the view. *)
HandleChoice ==
    \E m \in BagToSet(posts) :
        \/ HandleAnswer(m)
        \/ HandleClose(m)
        \/ SelectSession(m)
        \/ SelectNewSession(m)
        \/ SelectRename(m)
        \/ SelectDelete(m)
        \/ SelectSkill(m)
        \/ SelectOther(m)

HandlePost ==
    \E m \in BagToSet(posts) :
        \/ HandleAction(m)
        \/ HandlePalette(m)
        \/ HandlePaletteClose(m)
        \/ HandleLocal(m)
        \/ HandleSave(m)
        \/ HandleOpen(m)
        \/ \E id \in Sid : HandleCreate(m, id)
        \/ \E id \in Sid, r \in Run : HandleStart(m, id, r)
        \/ HandleRename(m)
        \/ HandleDelete(m)

Next ==
    \/ User
    \/ HandleChoice
    \/ HandlePost
    \/ \E r \in Run : AgentNext(r) \/ Receive(r) \/ HandleMessage(r)

Spec == Init /\ [][Next]_vars

(* Assumed: the goroutines and the event loop are scheduled, a user who is *)
(* asked does answer in the end, and so does the provider: its client has  *)
(* no timeout, and one that hangs keeps a run going for ever.              *)
UserAnswers ==
    /\ view.approval # Nil
    /\ \/ \E item \in view.modal : \E value \in Titles : PressEnter(item, value)
       \/ PressEsc

FairSpec ==
    /\ Spec
    /\ \A r \in Run : WF_vars(AgentNext(r)) /\ WF_vars(Receive(r))
                      /\ WF_vars(HandleMessage(r))
    /\ WF_vars(HandleChoice)
    /\ WF_vars(UserAnswers /\ ~Pressed)

-----------------------------------------------------------------------------
(* Properties. *)

Texts == SUBSET Run
MessageType == [role : {"user", "assistant"}, of : Texts]
SnapshotType == [id : Sid, title : Titles, messages : Seq(MessageType),
                 history : Seq(Run)]

(* A record is not Nil. *)
ASSUME RecordAssumption == Nil \notin SnapshotType

AgentMessageType ==
    [run : Run, n : Nat, kind : {"chunk", "plan", "ask", "done"},
     ok : BOOLEAN, history : Seq(Run), stage : Stages \cup {"plan"}, question : Question \cup {Nil}]

ViewOK ==
    /\ view.at \in Sid \cup {Nil} /\ view.listed \subseteq [label : Titles, key : Sid]
    /\ view.title \in Titles \cup {Nil}
    /\ view.messages \in Seq(MessageType) /\ view.history \in Seq(Run)
    /\ view.running \in BOOLEAN /\ view.plan \in Run \cup {Nil}
    /\ view.response \in Texts /\ view.approval \in Question \cup {Nil}
    /\ view.modal \subseteq [label : Label, key : Sid \cup {Nil}]
    /\ view.palette \in BOOLEAN
    /\ view.target \in Sid \cup {Nil}

(* The type invariant: the session shown and the records, the goroutines,  *)
(* their channels and the answers are what the code can hold.              *)
TypeOK ==
    /\ ViewOK
    /\ \A id \in Sid : store[id] # Nil => store[id] \in SnapshotType
    /\ used \subseteq Sid
    /\ IsABag(posts)
    /\ agent \in [Run -> [pc : {"idle", "work", "last", "asking", "ended"},
                         planned : BOOLEAN, asked : Nat, sent : Nat,
                         history : Seq(Run)]]
    /\ chan \in [Run -> Seq(AgentMessageType)]
    /\ readers \in [Run -> Nat] /\ applied \in [Run -> Nat]
    /\ coming \subseteq AgentMessageType
    /\ resp \in [Question -> Label \cup {"none", "waiting"}]
    /\ home \in [Run -> Sid \cup {Nil}]
    /\ mixed \in BOOLEAN /\ hasty \in BOOLEAN

(* A question the view holds is one its agent is still waiting on, its     *)
(* response channel is empty, so that answering never blocks the event     *)
(* loop, and a modal is open, so that the user can answer                  *)
(* (session.go:657-680, 1463-1482; main.go:676-690).                       *)
QuestionIsOpen ==
    view.approval # Nil =>
        /\ Open(view)
        /\ resp[view.approval] = "waiting"
        /\ agent[view.approval[1]].pc = "asking"
        /\ agent[view.approval[1]].asked = view.approval[2]

(* The messages of a run are handled in the order they were sent, none     *)
(* twice and none left out, though every one is posted by a goroutine of   *)
(* its own: one waitNext at a time reads the channel (session.go:354-390). *)
StreamInOrder ==
    [][\A r \in Run : applied'[r] # applied[r] => applied'[r] = applied[r] + 1]_vars

(* A yes is given to the question whose modal the user pressed Enter in,   *)
(* unless a view was replaced under a run, the user pressed another key    *)
(* before the first had its effect, or a session or a skill bears the name *)
(* of the answer, which is told by its label alone (session.go:657-668).   *)
YesIsForTheQuestion ==
    [][\A q \in Question :
          (resp[q] = "waiting" /\ resp'[q] \in Approving \ Named /\ ~mixed /\ ~hasty)
             => \E m \in DOMAIN posts :
                  m.type = "select" /\ m.from = q /\ posts' = Handled(m)]_vars

(* Unless a view was replaced under a run, one agent works at a time:      *)
(* running stays set until the last message of the run has arrived.        *)
OneRunAtATime ==
    ~mixed => \A p, r \in Run : InProgress(p) /\ InProgress(r) => p = r

(* When nothing is on its way and no agent works, the session shown is the *)
(* session on disk, unless it has been cleared since: a snapshot that      *)
(* arrives late goes to the file and to the view alike (app.go:110-117).   *)
QuietIsSaved ==
    (posts = EmptyBag /\ view.at # Nil /\ \A r \in Run : ~InProgress(r))
        => \/ store[view.at] = Snapshot(view)
           \/ view.messages = <<>> /\ view.history = <<>>

(* Every turn of the history handed to the next run is one the user sees,  *)
(* unless the user typed on while a snapshot was on its way.               *)
TurnsAreShown ==
    ~mixed /\ ~hasty =>
        \A i \in DOMAIN view.history :
            \E j \in DOMAIN view.messages :
                view.messages[j] = UserMessage(view.history[i])

Own(id, history) == \A i \in DOMAIN history : home[history[i]] = id

(* Unless a view was replaced under a run, the history of a session, shown *)
(* or on disk, is made of runs started in it.                              *)
HistoryIsOwn ==
    ~mixed => /\ Own(view.at, view.history)
              /\ \A id \in Stored : Own(id, store[id].history)

(* A command given in the session shown ends, unless the view is replaced  *)
(* under it, when the provider answers every call and the user every       *)
(* question.                                                               *)
CommandEnds == view.running ~> (mixed \/ ~view.running)

(* "Save active session after every completed agent run and before         *)
(* switching away": a completed run is saved in the session it belongs to, *)
(* and no session has another's turns.                                     *)
RunsStayHome == \A id \in Stored : Own(id, store[id].history)
=============================================================================
