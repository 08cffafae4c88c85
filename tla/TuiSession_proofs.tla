-------------------------- MODULE TuiSession_proofs --------------------------
(***************************************************************************)
(* The answers, the runs and the histories of the terminal UI, for any      *)
(* sessions, commands and number of runs, and channels of any capacity.     *)
(***************************************************************************)
EXTENDS TuiSession, SequenceTheorems, TLAPS

CommandName ==
    PaletteCommand \cup {"", "skill-detail", "rename-session", "delete-session"}

ItemType == [label : Label, key : Sid \cup {Nil}]
SummaryType == [label : Titles, key : Sid]

ViewType ==
    [at : Sid \cup {Nil}, listed : SUBSET SummaryType, title : Titles \cup {Nil},
     messages : Seq(MessageType), history : Seq(Run), running : BOOLEAN,
     plan : Run \cup {Nil}, response : Texts, approval : Question \cup {Nil},
     modal : SUBSET ItemType, command : CommandName, target : Sid \cup {Nil},
     palette : BOOLEAN]

(* A session has a title, the welcome screen no history.                   *)
IsView(v) ==
    /\ v \in ViewType
    /\ v.at # Nil => v.title \in Titles
    /\ v.at = Nil => v.history = <<>>

SavePost == [type : {"save"}, snapshot : SnapshotType]
SelectPost ==
    [type : {"select"}, label : Label, key : Sid \cup {Nil}, value : Titles,
     from : Question \cup {Nil}]
KeyPost == [type : {"close", "palette close", "local"}]
ActionPost ==
    [type : {"action"}, action : {"rename-session", "delete-session"}, key : Sid]
PalettePost == [type : {"palette"}, command : CommandName]
TitlePost == [type : {"start", "create"}, title : Titles]
OpenPost == [type : {"open"}, id : Sid]
RenamePost == [type : {"rename"}, id : Sid \cup {Nil}, title : Titles]
DeletePost == [type : {"delete"}, id : Sid \cup {Nil}]

PostType ==
    UNION {SavePost, SelectPost, KeyPost, ActionPost, PalettePost, TitlePost,
           OpenPost, RenamePost, DeletePost}

IsPosts(b) == IsABag(b) /\ BagToSet(b) \subseteq PostType

AgentType ==
    [pc : {"idle", "work", "last", "asking", "ended"}, planned : BOOLEAN,
     asked : 0 .. MaxSends, sent : 0 .. MaxSends, history : Seq(Run)]

StoreInv ==
    /\ store \in [Sid -> SnapshotType \cup {Nil}]
    /\ \A id \in Sid : store[id] # Nil => store[id].id = id
    /\ used \subseteq Sid
    /\ home \in [Run -> Sid \cup {Nil}]
    /\ mixed \in BOOLEAN /\ hasty \in BOOLEAN

RunsInv ==
    /\ agent \in [Run -> AgentType]
    /\ \A r \in Run : agent[r].asked <= agent[r].sent
    /\ chan \in [Run -> Seq(AgentMessageType)]
    /\ readers \in [Run -> Nat] /\ applied \in [Run -> Nat]
    /\ coming \subseteq AgentMessageType
    /\ resp \in [Question -> Label \cup {"none", "waiting"}]

TypeInv == IsView(view) /\ StoreInv /\ IsPosts(posts) /\ RunsInv

(* The records make a list of sessions.                                     *)
Listable == Summaries(store) \subseteq SummaryType

-----------------------------------------------------------------------------
LEMMA PostFields ==
    ASSUME NEW m \in PostType
    PROVE  /\ m.type = "save" => m.snapshot \in SnapshotType
           /\ m.type = "select" => /\ m.label \in Label /\ m.key \in Sid \cup {Nil}
                                   /\ m.value \in Titles
           /\ m.type = "action" => /\ m.action \in {"rename-session", "delete-session"}
                                   /\ m.key \in Sid
           /\ m.type = "palette" => m.command \in CommandName
           /\ m.type \in {"start", "create"} => m.title \in Titles
           /\ m.type = "open" => m.id \in Sid
           /\ m.type = "rename" => m.id \in Sid \cup {Nil} /\ m.title \in Titles
           /\ m.type = "delete" => m.id \in Sid \cup {Nil}
<1>1. CASE m \in SavePost
  BY <1>1 DEF SavePost
<1>2. CASE m \in SelectPost
  BY <1>2 DEF SelectPost
<1>3. CASE m \in KeyPost
  BY <1>3 DEF KeyPost
<1>4. CASE m \in ActionPost
  BY <1>4 DEF ActionPost
<1>5. CASE m \in PalettePost
  BY <1>5 DEF PalettePost
<1>6. CASE m \in TitlePost
  BY <1>6 DEF TitlePost
<1>7. CASE m \in OpenPost
  BY <1>7 DEF OpenPost
<1>8. CASE m \in RenamePost
  BY <1>8 DEF RenamePost
<1>9. CASE m \in DeletePost
  BY <1>9 DEF DeletePost
<1> QED
  BY <1>1, <1>2, <1>3, <1>4, <1>5, <1>6, <1>7, <1>8, <1>9 DEF PostType

LEMMA PostAdded ==
    ASSUME NEW b, IsPosts(b), NEW m \in PostType
    PROVE  IsPosts(BagAdd(b, m)) /\ BagToSet(BagAdd(b, m)) = BagToSet(b) \cup {m}
<1>1. CASE m \in DOMAIN b
  BY <1>1 DEF IsPosts, IsABag, BagToSet, BagAdd
<1>2. CASE m \notin DOMAIN b
  BY <1>2 DEF IsPosts, IsABag, BagToSet, BagAdd
<1> QED
  BY <1>1, <1>2

LEMMA PostTaken ==
    ASSUME NEW b, IsPosts(b), NEW m \in BagToSet(b)
    PROVE  IsPosts(BagRemove(b, m)) /\ BagToSet(BagRemove(b, m)) \subseteq BagToSet(b)
<1>1. CASE b[m] = 1
  BY <1>1 DEF IsPosts, IsABag, BagToSet, BagRemove
<1>2. CASE b[m] # 1
  BY <1>2 DEF IsPosts, IsABag, BagToSet, BagRemove
<1> QED
  BY <1>1, <1>2

LEMMA PostAnswered ==
    ASSUME NEW b, IsPosts(b), NEW m \in BagToSet(b), NEW n \in PostType
    PROVE  /\ IsPosts(BagAdd(BagRemove(b, m), n))
           /\ BagToSet(BagAdd(BagRemove(b, m), n)) \subseteq BagToSet(b) \cup {n}
BY PostAdded, PostTaken

(* Copies of the other messages stay.                                       *)
LEMMA OthersCounted ==
    ASSUME NEW b, IsPosts(b), NEW m \in PostType, NEW n, n # m
    PROVE  /\ n \in BagToSet(BagAdd(b, m)) => n \in BagToSet(b) /\ BagAdd(b, m)[n] = b[n]
           /\ n \in BagToSet(BagRemove(b, m)) => n \in BagToSet(b) /\ BagRemove(b, m)[n] = b[n]
<1>1. n \in BagToSet(BagAdd(b, m)) => n \in BagToSet(b) /\ BagAdd(b, m)[n] = b[n]
  <2>1. CASE m \in DOMAIN b
    BY <2>1 DEF IsPosts, IsABag, BagToSet, BagAdd
  <2>2. CASE m \notin DOMAIN b
    BY <2>2 DEF IsPosts, IsABag, BagToSet, BagAdd
  <2> QED
    BY <2>1, <2>2
<1>2. n \in BagToSet(BagRemove(b, m)) => n \in BagToSet(b) /\ BagRemove(b, m)[n] = b[n]
  <2>1. CASE m \in DOMAIN b /\ b[m] = 1
    BY <2>1 DEF IsPosts, IsABag, BagToSet, BagRemove
  <2>2. CASE m \in DOMAIN b /\ b[m] # 1
    BY <2>2 DEF IsPosts, IsABag, BagToSet, BagRemove
  <2>3. CASE m \notin DOMAIN b
    BY <2>3 DEF IsPosts, IsABag, BagToSet, BagRemove
  <2> QED
    BY <2>1, <2>2, <2>3
<1> QED
  BY <1>1, <1>2

LEMMA OthersStay ==
    ASSUME NEW b, IsPosts(b), NEW m, NEW n \in BagToSet(b)
    PROVE  n \in BagToSet(BagAdd(b, m)) /\ (n # m => n \in BagToSet(BagRemove(b, m)))
BY DEF IsPosts, IsABag, BagToSet, BagRemove, BagAdd

LEMMA OneCounted ==
    ASSUME NEW b, IsPosts(b), NEW m
    PROVE  /\ m \in BagToSet(BagRemove(b, m)) => b[m] # 1
           /\ m \notin BagToSet(b) => BagAdd(b, m)[m] = 1
BY DEF IsPosts, IsABag, BagToSet, BagRemove, BagAdd

(* The fields a modal, a command or the palette leave alone.                *)
Aside(v, w) ==
    /\ w.at = v.at /\ w.title = v.title /\ w.messages = v.messages
    /\ w.history = v.history /\ w.running = v.running /\ w.plan = v.plan
    /\ w.response = v.response /\ w.approval = v.approval

LEMMA SummariesAreTitled ==
    ASSUME NEW records \in [Sid -> SnapshotType \cup {Nil}]
    PROVE  Summaries(records) \subseteq SummaryType
<1>1. ASSUME NEW id \in Sid, records[id] # Nil PROVE records[id].title \in Titles
  BY <1>1 DEF SnapshotType
<1> QED
  BY <1>1 DEF Summaries, SummaryType

LEMMA StoreIsListable == TypeInv => Listable
BY SummariesAreTitled DEF TypeInv, StoreInv, Listable

LEMMA ItemsAreItems ==
    ASSUME Listable, NEW v, IsView(v), NEW c \in CommandName
    PROVE  CommandItems(v, c) \subseteq ItemType /\ CommandItems(v, c) # {}
<1>1. \A l \in Label : Item(l) \in ItemType
  BY DEF Item, ItemType
<1>2. {"+ New session", "Create session", "Rename", "Delete", "Cancel"} \cup Others \subseteq Label
  BY DEF Label, Named
<1>3. SummaryType \subseteq ItemType
  BY DEF SummaryType, ItemType, Label, Named
<1>4. (IF v.at = Nil THEN v.listed ELSE Summaries(store)) \subseteq ItemType
  BY <1>3 DEF Listable, IsView, ViewType
<1> QED
  BY <1>1, <1>2, <1>4, TuiAssumption DEF CommandItems

LEMMA ModalOps ==
    ASSUME Listable, NEW v, IsView(v), NEW c \in CommandName
    PROVE  /\ IsView(ShowModal(v, c)) /\ Aside(v, ShowModal(v, c)) /\ Open(ShowModal(v, c))
           /\ IsView(OpenModal(v, c)) /\ Aside(v, OpenModal(v, c)) /\ Open(OpenModal(v, c))
<1>1. IsView(ShowModal(v, c)) /\ Aside(v, ShowModal(v, c)) /\ Open(ShowModal(v, c))
  BY ItemsAreItems DEF ShowModal, IsView, ViewType, Aside, Open
<1>2. IsView(OpenModal(v, c)) /\ Aside(v, OpenModal(v, c)) /\ Open(OpenModal(v, c))
  BY ZenonT(60), <1>1 DEF OpenModal, IsView, ViewType, Aside, Open
<1> QED
  BY <1>1, <1>2

LEMMA CloseOps ==
    ASSUME NEW v, IsView(v)
    PROVE  /\ IsView(Close(v)) /\ Aside(v, Close(v))
           /\ IsView(Dismissed(v)) /\ Aside(v, Dismissed(v))
<1>1. IsView(Close(v)) /\ Aside(v, Close(v))
  BY DEF Close, IsView, ViewType, Aside
<1>2. IsView(Dismissed(v)) /\ Aside(v, Dismissed(v))
  BY ZenonT(60), <1>1 DEF Dismissed, IsView, ViewType, Aside, CommandName
<1> QED
  BY <1>1, <1>2

LEMMA FieldOps ==
    ASSUME NEW v, IsView(v), NEW b \in BOOLEAN, NEW id \in Sid \cup {Nil}
    PROVE  /\ IsView([v EXCEPT !.palette = b]) /\ Aside(v, [v EXCEPT !.palette = b])
           /\ [v EXCEPT !.palette = b].modal = v.modal
           /\ IsView([v EXCEPT !.target = id]) /\ Aside(v, [v EXCEPT !.target = id])
           /\ [v EXCEPT !.target = id].modal = v.modal
           /\ IsView([v EXCEPT !.approval = Nil])
           /\ [v EXCEPT !.approval = Nil].approval = Nil
           /\ [v EXCEPT !.approval = Nil].at = v.at
           /\ [v EXCEPT !.approval = Nil].running = v.running
           /\ [v EXCEPT !.approval = Nil].history = v.history
           /\ [v EXCEPT !.approval = Nil].messages = v.messages
           /\ [v EXCEPT !.approval = Nil].title = v.title
BY ZenonT(60) DEF IsView, ViewType, Aside

(* A view that goes on with its session and its run; cleared, if it has     *)
(* none.  The question it shows is gone, or can still be answered.          *)
Continues(v, w) ==
    /\ w.at = v.at /\ w.title = v.title /\ w.running = v.running
    /\ \/ w.messages = v.messages /\ w.history = v.history
       \/ ~v.running /\ w.messages = <<>> /\ w.history = <<>>
    /\ \/ w.approval = Nil
       \/ w.approval = v.approval /\ (Open(v) => Open(w))

LEMMA CommandOp ==
    ASSUME Listable, NEW v, IsView(v), NEW c \in CommandName
    PROVE  IsView(Command(v, c)) /\ Continues(v, Command(v, c))
<1>1. CASE c # "/clear"
  BY <1>1, ModalOps DEF Command, Continues, Aside
<1>2. CASE c = "/clear"
  <2>1. <<>> \in Seq(MessageType) /\ <<>> \in Seq(Run)
    OBVIOUS
  <2> QED
    BY <1>2, <2>1 DEF Command, Continues, IsView, ViewType, Open
<1> QED
  BY <1>1, <1>2

LEMMA AppendOp ==
    ASSUME NEW ms \in Seq(MessageType), NEW r \in Run
    PROVE  /\ AppendToAssistant(ms, r) \in Seq(MessageType)
           /\ Append(ms, UserMessage(r)) \in Seq(MessageType)
<1>1. AssistantMessage({r}) \in MessageType /\ UserMessage(r) \in MessageType
  BY DEF AssistantMessage, UserMessage, MessageType, Texts
<1>2. CASE ms # <<>>
  <2>1. ms[Len(ms)] \in MessageType
    BY <1>2
  <2>2. [ms[Len(ms)] EXCEPT !.of = @ \cup {r}] \in MessageType
    BY <2>1 DEF MessageType, Texts
  <2> DEFINE e == [ms[Len(ms)] EXCEPT !.of = @ \cup {r}]
  <2> HIDE DEF e
  <2>3. [ms EXCEPT ![Len(ms)] = e] \in Seq(MessageType)
    BY <1>2, <2>2, ExceptSeq DEF e
  <2> QED
    BY <1>1, <2>3 DEF AppendToAssistant, e
<1>3. CASE ms = <<>>
  BY <1>1, <1>3 DEF AppendToAssistant
<1> QED
  BY <1>1, <1>2, <1>3

(* Whether the command of r is among the messages.                          *)
Says(messages, r) == \E j \in DOMAIN messages : messages[j] = UserMessage(r)

(* No answer takes the place of a command.                                  *)
LEMMA SaidOps ==
    ASSUME NEW ms \in Seq(MessageType), NEW r \in Run
    PROVE  /\ Says(Append(ms, UserMessage(r)), r)
           /\ \A p, e : Says(ms, p) => Says(Append(ms, e), p)
           /\ \A p : Says(ms, p) => Says(AppendToAssistant(ms, r), p)
<1>1. Says(Append(ms, UserMessage(r)), r)
  <2>1. /\ Len(ms) + 1 \in DOMAIN Append(ms, UserMessage(r))
        /\ Append(ms, UserMessage(r))[Len(ms) + 1] = UserMessage(r)
    OBVIOUS
  <2> QED
    BY <2>1 DEF Says
<1>2. ASSUME NEW p, NEW e, Says(ms, p) PROVE Says(Append(ms, e), p)
  <2>1. PICK j \in DOMAIN ms : ms[j] = UserMessage(p)
    BY <1>2 DEF Says
  <2>2. j \in DOMAIN Append(ms, e) /\ Append(ms, e)[j] = ms[j]
    OBVIOUS
  <2> QED
    BY <2>1, <2>2 DEF Says
<1>3. ASSUME NEW p, Says(ms, p) PROVE Says(AppendToAssistant(ms, r), p)
  <2>1. CASE ms # <<>> /\ ms[Len(ms)].role = "assistant"
    <3>1. PICK j \in DOMAIN ms : ms[j] = UserMessage(p)
      BY <1>3 DEF Says
    <3>2. j # Len(ms)
      BY <2>1, <3>1 DEF UserMessage
    <3> DEFINE ns == [ms EXCEPT ![Len(ms)].of = @ \cup {r}]
    <3>3. j \in DOMAIN ns /\ ns[j] = ms[j]
      BY <3>2
    <3> QED
      BY <2>1, <3>1, <3>3 DEF Says, AppendToAssistant
  <2>2. CASE ~(ms # <<>> /\ ms[Len(ms)].role = "assistant")
    BY <1>2, <1>3, <2>2 DEF AppendToAssistant
  <2> QED
    BY <2>1, <2>2
<1> QED
  BY <1>1, <1>2, <1>3

LEMMA FinishedOp ==
    ASSUME NEW v, IsView(v), v.at # Nil, NEW m \in AgentMessageType
    PROVE  /\ IsView(Finished(v, m))
           /\ Finished(v, m).at = v.at
           /\ Finished(v, m).running = FALSE
           /\ Finished(v, m).history = IF m.ok THEN m.history ELSE v.history
           /\ Finished(v, m).approval = v.approval
           /\ Finished(v, m).modal = v.modal
           /\ \A r : Says(v.messages, r) => Says(Finished(v, m).messages, r)
<1> DEFINE w == [v EXCEPT !.running = FALSE, !.history = m.history]
<1>1. IsView(w) /\ w.at = v.at /\ w.running = FALSE /\ w.history = m.history
      /\ w.approval = v.approval /\ w.modal = v.modal /\ w.messages = v.messages
  BY DEF IsView, ViewType, AgentMessageType
<1> HIDE DEF w
<1>2. /\ IsView(FinishActiveRun(w)) /\ FinishActiveRun(w).at = w.at
      /\ FinishActiveRun(w).running = w.running /\ FinishActiveRun(w).history = w.history
      /\ FinishActiveRun(w).approval = w.approval /\ FinishActiveRun(w).modal = w.modal
      /\ \A r : Says(w.messages, r) => Says(FinishActiveRun(w).messages, r)
  <2>1. CASE w.plan = Nil
    BY <1>1, <2>1 DEF FinishActiveRun
  <2>2. CASE w.plan # Nil
    <3> DEFINE n == AssistantMessage(w.response \cup {w.plan})
    <3>1. n \in MessageType
      BY <1>1, <2>2 DEF IsView, ViewType, AssistantMessage, MessageType, Texts
    <3> HIDE DEF n
    <3>2. Append(w.messages, n) \in Seq(MessageType)
      BY <1>1, <3>1 DEF IsView, ViewType
    <3>3. FinishActiveRun(w) =
            [w EXCEPT !.messages = Append(w.messages, n), !.plan = Nil, !.response = {}]
      BY <2>2 DEF FinishActiveRun, n
    <3>4. \A r : Says(w.messages, r) => Says(Append(w.messages, n), r)
      BY <1>1, SaidOps DEF IsView, ViewType, AgentMessageType
    <3> QED
      BY <1>1, <3>2, <3>3, <3>4 DEF IsView, ViewType, Texts
  <2> QED
    BY <2>1, <2>2
<1>3. CASE m.ok
  BY <1>1, <1>2, <1>3 DEF Finished, w
<1>4. CASE ~m.ok
  <2>1. /\ AppendToAssistant(v.messages, m.run) \in Seq(MessageType)
        /\ \A r : Says(v.messages, r) => Says(AppendToAssistant(v.messages, m.run), r)
    BY AppendOp, SaidOps DEF IsView, ViewType, AgentMessageType
  <2> QED
    BY <1>4, <2>1 DEF Finished, IsView, ViewType
<1> QED
  BY <1>3, <1>4

LEMMA SnapshotOp ==
    ASSUME NEW v, IsView(v), v.at # Nil
    PROVE  /\ Snapshot(v) \in SnapshotType
           /\ Snapshot(v).id = v.at /\ Snapshot(v).history = v.history
           /\ Snapshot(v).title = v.title /\ Snapshot(v).messages = v.messages
BY DEF Snapshot, SnapshotType, IsView, ViewType

LEMMA WelcomeOp ==
    ASSUME NEW listed \in SUBSET SummaryType
    PROVE  /\ IsView(Welcome(listed)) /\ Welcome(listed).at = Nil
           /\ Welcome(listed).running = FALSE /\ Welcome(listed).approval = Nil
           /\ Welcome(listed).history = <<>> /\ Welcome(listed).modal = {}
           /\ Welcome(listed).messages = <<>>
<1>1. <<>> \in Seq(MessageType) /\ <<>> \in Seq(Run)
  OBVIOUS
<1> QED
  BY <1>1 DEF Welcome, IsView, ViewType, Texts, CommandName

LEMMA RestoredOp ==
    ASSUME NEW s \in SnapshotType
    PROVE  /\ IsView(Restored(s)) /\ Restored(s).at = s.id
           /\ Restored(s).running = FALSE /\ Restored(s).approval = Nil
           /\ Restored(s).history = s.history /\ Restored(s).modal = {}
           /\ Restored(s).messages = s.messages /\ Snapshot(Restored(s)) = s
<1>1. s.id \in Sid /\ s.title \in Titles /\ s.messages \in Seq(MessageType) /\ s.history \in Seq(Run)
  BY DEF SnapshotType
<1>2. s.id # Nil
  BY <1>1, TuiAssumption
<1> DEFINE w == Welcome({})
<1>3. IsView(w) /\ w.running = FALSE /\ w.approval = Nil /\ w.modal = {}
  BY WelcomeOp
<1> HIDE DEF w
<1>4. Restored(s) = [w EXCEPT !.at = s.id, !.title = s.title,
                              !.messages = s.messages, !.history = s.history]
  BY DEF Restored, w
<1> DEFINE v == [w EXCEPT !.at = s.id, !.title = s.title,
                       !.messages = s.messages, !.history = s.history]
<1>5. /\ IsView(v) /\ v.at = s.id /\ v.running = FALSE /\ v.approval = Nil
      /\ v.title = s.title /\ v.messages = s.messages /\ v.history = s.history
      /\ v.modal = {}
  BY <1>1, <1>2, <1>3 DEF IsView, ViewType
<1> HIDE DEF v
<1>6. Snapshot(v) = s
  BY <1>5 DEF Snapshot, SnapshotType
<1> QED
  BY <1>4, <1>5, <1>6 DEF v

LEMMA BlankOp ==
    ASSUME NEW id \in Sid, NEW title \in Titles
    PROVE  /\ Blank(id, title) \in SnapshotType
           /\ Blank(id, title).id = id /\ Blank(id, title).history = <<>>
           /\ Blank(id, title).messages = <<>>
<1>1. <<>> \in Seq(MessageType) /\ <<>> \in Seq(Run)
  OBVIOUS
<1> QED
  BY <1>1 DEF Blank, SnapshotType

LEMMA ApplyOp ==
    ASSUME NEW v, IsView(v), v.at # Nil, NEW s \in SnapshotType
    PROVE  /\ IsView(ApplySnapshot(v, s))
           /\ ApplySnapshot(v, s).at = v.at /\ ApplySnapshot(v, s).running = v.running
           /\ ApplySnapshot(v, s).approval = v.approval
           /\ ApplySnapshot(v, s).modal = v.modal
           /\ s.id # v.at => ApplySnapshot(v, s) = v
           /\ s.id = v.at => /\ ApplySnapshot(v, s).history = s.history
                             /\ ApplySnapshot(v, s).messages = s.messages
                             /\ Snapshot(ApplySnapshot(v, s)) = s
<1>1. CASE s.id # v.at
  BY <1>1 DEF ApplySnapshot
<1>2. CASE s.id = v.at
  <2> DEFINE w == ApplySnapshot(v, s)
  <2>1. w = [v EXCEPT !.title = s.title, !.messages = s.messages, !.history = s.history]
    BY <1>2 DEF ApplySnapshot
  <2> HIDE DEF w
  <2>2. /\ IsView(w) /\ w.at = v.at /\ w.running = v.running
        /\ w.approval = v.approval /\ w.modal = v.modal
        /\ w.title = s.title /\ w.messages = s.messages /\ w.history = s.history
    BY <2>1 DEF IsView, ViewType, SnapshotType
  <2>3. Snapshot(w) = s
    BY <1>2, <2>2 DEF Snapshot, SnapshotType
  <2> QED
    BY <1>2, <2>2, <2>3 DEF w
<1> QED
  BY <1>1, <1>2

LEMMA SavedOp ==
    ASSUME TypeInv
    PROVE  /\ Saved \in [Sid -> SnapshotType \cup {Nil}]
           /\ \A id \in Sid : Saved[id] # Nil => Saved[id].id = id
           /\ \A id \in Sid : Saved[id] # Nil =>
                 \/ store[id] # Nil /\ Saved[id] = store[id]
                 \/ /\ id = view.at /\ Saved[id].history = view.history
                    /\ Saved[id].messages = view.messages
           /\ view.at # Nil => Saved[view.at] = Snapshot(view)
<1>1. CASE view.at = Nil
  BY <1>1 DEF Saved, TypeInv, StoreInv
<1>2. CASE view.at # Nil
  <2>1. view.at \in Sid
    BY <1>2 DEF TypeInv, IsView, ViewType
  <2>2. Saved = [store EXCEPT ![view.at] = Snapshot(view)]
    BY <1>2 DEF Saved
  <2> QED
    BY <1>2, <2>1, <2>2, SnapshotOp DEF TypeInv, StoreInv
<1> QED
  BY <1>1, <1>2

-----------------------------------------------------------------------------
(* Most keys and messages leave the records and the runs alone, and give    *)
(* at most an answer to the question shown.                                 *)
Answered ==
    /\ view.approval # Nil /\ resp[view.approval] = "waiting"
    /\ \E label \in Label : resp' = [resp EXCEPT ![view.approval] = label]
    /\ view'.approval = Nil

(* Enter or Esc in a modal, on its way.                                      *)
IsPress(m) == m.type \in {"select", "close"}

PressesKept ==
    \A m \in BagToSet(posts') :
        IsPress(m) => m \in BagToSet(posts) /\ posts'[m] = posts[m]

SavesKept == \A m \in BagToSet(posts') : m.type = "save" => m \in BagToSet(posts)

GoesOn ==
    /\ IsView(view') /\ Continues(view, view')
    /\ IsPosts(posts') /\ SavesKept
    /\ hasty' \in {hasty, TRUE}
    /\ UNCHANGED resp \/ Answered
    /\ UNCHANGED <<store, used, agent, chan, readers, coming, home, mixed, applied>>

LEMMA Unchanged == TypeInv => Continues(view, view)
BY DEF Continues

LEMMA AsideContinues ==
    ASSUME NEW v, NEW w, Aside(v, w), Open(v) => Open(w)
    PROVE  Continues(v, w)
BY DEF Aside, Continues

LEMMA KeysGoOn ==
    ASSUME TypeInv, User, ~\E r \in Run : TypeTask(r)
    PROVE  GoesOn
<1> USE DEF runVars
<1>0. /\ IsView(view) /\ IsPosts(posts) /\ hasty \in BOOLEAN /\ mixed \in BOOLEAN
      /\ Continues(view, view) /\ Listable
  BY Unchanged, StoreIsListable DEF TypeInv, StoreInv
<1>1. ASSUME NEW m \in PostType, m.type # "save", posts' = Post(m), UNCHANGED <<view, resp>>,
             hasty' \in {hasty, TRUE},
             UNCHANGED <<store, used, agent, chan, readers, coming, home, mixed, applied>>
      PROVE  GoesOn
  <2>1. IsPosts(posts') /\ SavesKept
    BY <1>0, <1>1, PostAdded DEF SavesKept, Post
  <2> QED
    BY <1>0, <1>1, <2>1 DEF GoesOn
<1>2. ASSUME IsView(view'), Continues(view, view'), UNCHANGED <<posts, resp>>,
             hasty' \in {hasty, TRUE},
             UNCHANGED <<store, used, agent, chan, readers, coming, home, mixed, applied>>
      PROVE  GoesOn
  BY <1>0, <1>2 DEF GoesOn, SavesKept
<1>3. view.modal \subseteq ItemType /\ view.approval \in Question \cup {Nil}
  BY <1>0 DEF IsView, ViewType
<1>4. ASSUME NEW value \in Titles, NEW item \in view.modal, PressEnter(item, value)
      PROVE  GoesOn
  <2> DEFINE m == [type |-> "select", label |-> item.label, key |-> item.key,
                   value |-> value,
                   from |-> IF Item("Approve") \in view.modal THEN view.approval ELSE Nil]
  <2>1. m \in PostType /\ m.type # "save"
    BY <1>3 DEF PostType, SelectPost, ItemType
  <2>2. posts' = Post(m) /\ hasty' \in {hasty, TRUE} /\ UNCHANGED <<view, store, used, runVars, mixed>>
    BY <1>0, <1>4 DEF PressEnter
  <2> HIDE DEF m
  <2> QED
    BY <1>1, <2>1, <2>2
<1>5. CASE PressEsc
  <2>1. [type |-> "close"] \in PostType
    BY DEF PostType, KeyPost
  <2> QED
    BY <1>0, <1>1, <1>5, <2>1 DEF PressEsc
<1>6. ASSUME NEW action \in {"rename-session", "delete-session"}, NEW item \in view.modal,
             PressAction(action, item)
      PROVE  GoesOn
  <2>1. [type |-> "action", action |-> action, key |-> item.key] \in PostType
    BY <1>3, <1>6 DEF PostType, ActionPost, ItemType, PressAction
  <2> QED
    BY <1>0, <1>1, <1>6, <2>1 DEF PressAction
<1>7. CASE TurnPage
  <2>1. CommandItems(view, "skills") \subseteq ItemType /\ CommandItems(view, "skills") # {}
    BY <1>0, ItemsAreItems DEF CommandName, PaletteCommand
  <2>2. IsView(view') /\ Continues(view, view')
    BY <1>0, <1>7, <2>1 DEF TurnPage, IsView, ViewType, Continues, Open
  <2> QED
    BY <1>0, <1>2, <1>7, <2>2 DEF TurnPage
<1>8. CASE TogglePalette
  <2>1. IsView(view') /\ Continues(view, view')
    BY <1>0, <1>8 DEF TogglePalette, IsView, ViewType, Continues, Open
  <2> QED
    BY <1>0, <1>2, <1>8, <2>1 DEF TogglePalette
<1>9. ASSUME NEW command \in Commands, PaletteEnter(command) PROVE GoesOn
  <2>1. [type |-> "palette", command |-> command] \in PostType
    BY TuiAssumption DEF PostType, PalettePost, CommandName
  <2> QED
    BY <1>0, <1>1, <1>9, <2>1 DEF PaletteEnter
<1>10. CASE PaletteEsc
  <2>1. [type |-> "palette close"] \in PostType
    BY DEF PostType, KeyPost
  <2> QED
    BY <1>0, <1>1, <1>10, <2>1 DEF PaletteEsc
<1>11. CASE Click
  <2>1. IsView(view') /\ Continues(view, view')
    <3>1. CASE view.approval = Nil /\ view' = Close(view)
      BY <1>0, <3>1, CloseOps DEF Aside, Continues
    <3>2. CASE view' = [view EXCEPT !.palette = FALSE]
      BY <1>0, <3>2, FieldOps DEF Aside, Continues, Open
    <3> QED
      BY <1>11, <3>1, <3>2 DEF Click
  <2> QED
    BY <1>0, <1>2, <1>11, <2>1 DEF Click
<1>12. ASSUME NEW command \in Typed, PressCommand(command) PROVE GoesOn
  <2>1. command \in CommandName
    BY TuiAssumption DEF CommandName
  <2>2. IsView(view') /\ Continues(view, view')
    BY <1>0, <1>12, <2>1, CommandOp DEF PressCommand
  <2>3. IsPosts(posts') /\ SavesKept
    <3>1. [type |-> "local"] \in PostType
      BY DEF PostType, KeyPost
    <3> QED
      BY <1>0, <1>12, <3>1, PostAdded DEF PressCommand, Post, SavesKept
  <2> QED
    BY <1>0, <1>12, <2>2, <2>3 DEF PressCommand, GoesOn
<1>13. ASSUME NEW title \in Titles, TypeFirstTask(title) PROVE GoesOn
  <2>1. [type |-> "start", title |-> title] \in PostType
    BY DEF PostType, TitlePost
  <2> QED
    BY <1>0, <1>1, <1>13, <2>1 DEF TypeFirstTask
<1> QED
  BY <1>4, <1>5, <1>6, <1>7, <1>8, <1>9, <1>10, <1>11, <1>12, <1>13 DEF User

LEMMA TakenPost ==
    ASSUME TypeInv, NEW m \in BagToSet(posts)
    PROVE  /\ m \in PostType
           /\ posts' = Handled(m) => IsPosts(posts') /\ SavesKept
           /\ \A n \in PostType :
                 n.type # "save" /\ posts' = Answer(m, n) => IsPosts(posts') /\ SavesKept
<1>1. IsPosts(posts) /\ m \in PostType
  BY DEF TypeInv, IsPosts
<1>2. posts' = Handled(m) => IsPosts(posts') /\ SavesKept
  BY <1>1, PostTaken DEF Handled, SavesKept
<1>3. ASSUME NEW n \in PostType, n.type # "save", posts' = Answer(m, n)
      PROVE  IsPosts(posts') /\ SavesKept
  <2>1. posts' = BagAdd(BagRemove(posts, m), n)
    BY <1>3 DEF Answer, Handled
  <2>2. IsPosts(posts') /\ BagToSet(posts') \subseteq BagToSet(posts) \cup {n}
    BY <1>1, <2>1, PostAnswered
  <2> QED
    BY <1>3, <2>2 DEF SavesKept
<1> QED
  BY <1>1, <1>2, <1>3

LEMMA KeptPresses ==
    ASSUME TypeInv, NEW m \in PostType, ~IsPress(m)
    PROVE  posts' = Handled(m) \/ posts' = Post(m) => PressesKept
<1>1. IsPosts(posts)
  BY DEF TypeInv
<1>2. \A n : IsPress(n) => n # m
  OBVIOUS
<1>3. CASE posts' = Handled(m)
  BY <1>1, <1>2, <1>3, OthersCounted DEF PressesKept, Handled
<1>4. CASE posts' = Post(m)
  BY <1>1, <1>2, <1>4, OthersCounted DEF PressesKept, Post
<1> QED
  BY <1>3, <1>4

LEMMA ChoicesGoOn ==
    ASSUME TypeInv, HandleChoice
    PROVE  GoesOn
<1> USE DEF viewOnly
<1>1. PICK m \in BagToSet(posts) :
         \/ HandleAnswer(m) \/ HandleClose(m) \/ SelectSession(m) \/ SelectNewSession(m)
         \/ SelectRename(m) \/ SelectDelete(m) \/ SelectSkill(m) \/ SelectOther(m)
  BY DEF HandleChoice
<1>2. /\ IsView(view) /\ hasty \in BOOLEAN /\ m \in PostType
      /\ view.approval \in Question \cup {Nil} /\ view.target \in Sid \cup {Nil}
      /\ Listable
  BY TakenPost, StoreIsListable DEF TypeInv, StoreInv, IsView, ViewType
<1>3. IsView(Close(view)) /\ Aside(view, Close(view))
  BY <1>2, CloseOps
<1>4. /\ IsView([Close(view) EXCEPT !.approval = Nil])
      /\ Continues(view, [Close(view) EXCEPT !.approval = Nil])
      /\ [Close(view) EXCEPT !.approval = Nil].approval = Nil
  BY <1>3, FieldOps DEF Aside, Continues
<1>5. /\ IsView(Dismissed(view)) /\ Aside(view, Dismissed(view))
      /\ IsView([Dismissed(view) EXCEPT !.target = Nil])
      /\ Aside(view, [Dismissed(view) EXCEPT !.target = Nil])
  <2>1. IsView(Dismissed(view)) /\ Aside(view, Dismissed(view))
    BY <1>2, CloseOps
  <2> DEFINE w == Dismissed(view)
  <2> HIDE DEF w
  <2>2. IsView([w EXCEPT !.target = Nil]) /\ Aside(w, [w EXCEPT !.target = Nil])
    BY <2>1, FieldOps DEF w
  <2> QED
    BY <2>1, <2>2 DEF w, Aside
<1>6. \A c \in {"new-session", "skills", "skill-detail"} :
         IsView(ShowModal(view, c)) /\ Aside(view, ShowModal(view, c))
  BY <1>2, ModalOps DEF CommandName, PaletteCommand
<1>7. CASE HandleAnswer(m)
  <2>1. m.label \in Label
    BY <1>2, <1>7, PostFields DEF HandleAnswer, Handles
  <2>2. Answered
    BY <1>4, <1>7, <2>1 DEF HandleAnswer, Respond, Answered
  <2> QED
    BY <1>2, <1>4, <1>7, <2>2, TakenPost DEF HandleAnswer, GoesOn
<1>8. CASE HandleClose(m)
  <2>1. UNCHANGED resp \/ Answered
    BY <1>4, <1>8 DEF HandleClose, Respond, Answered, Label
  <2> QED
    BY <1>2, <1>4, <1>8, <2>1, TakenPost DEF HandleClose, GoesOn
<1>9. ASSUME NEW command, Chosen(m, command), IsView(view'), Aside(view, view'),
             IsPosts(posts') /\ SavesKept
      PROVE  GoesOn
  BY <1>2, <1>9 DEF GoesOn, Chosen, Continues, Aside
<1>10. CASE SelectSession(m)
  <2>1. m.label # "+ New session" /\ m.key \notin {Nil, view.at} =>
           [type |-> "open", id |-> m.key] \in PostType
    BY <1>2, <1>10, PostFields DEF SelectSession, Chosen, Handles, PostType, OpenPost
  <2>2. IsPosts(posts') /\ SavesKept
    BY <1>10, <2>1, TakenPost DEF SelectSession
  <2>3. IsView(view') /\ Aside(view, view')
    BY <1>3, <1>5, <1>6, <1>10 DEF SelectSession
  <2> QED
    BY <1>9, <1>10, <2>2, <2>3 DEF SelectSession
<1>11. CASE SelectNewSession(m)
  <2>1. [type |-> "create", title |-> m.value] \in PostType
    BY <1>2, <1>11, PostFields DEF SelectNewSession, Chosen, Handles, PostType, TitlePost
  <2>2. IsPosts(posts') /\ SavesKept
    BY <1>11, <2>1, TakenPost DEF SelectNewSession
  <2>3. IsView(view') /\ Aside(view, view')
    BY <1>3, <1>5, <1>11 DEF SelectNewSession
  <2> QED
    BY <1>9, <1>11, <2>2, <2>3 DEF SelectNewSession
<1>12. CASE SelectRename(m)
  <2>1. [type |-> "rename", id |-> view.target, title |-> m.value] \in PostType
    BY <1>2, <1>12, PostFields DEF SelectRename, Chosen, Handles, PostType, RenamePost
  <2>2. IsPosts(posts') /\ SavesKept
    BY <1>12, <2>1, TakenPost DEF SelectRename
  <2>3. IsView(view') /\ Aside(view, view')
    BY <1>5, <1>12 DEF SelectRename
  <2> QED
    BY <1>9, <1>12, <2>2, <2>3 DEF SelectRename
<1>13. CASE SelectDelete(m)
  <2>1. [type |-> "delete", id |-> view.target] \in PostType
    BY <1>2 DEF PostType, DeletePost
  <2>2. IsPosts(posts') /\ SavesKept
    BY <1>13, <2>1, TakenPost DEF SelectDelete
  <2>3. IsView(view') /\ Aside(view, view')
    BY <1>5, <1>13 DEF SelectDelete
  <2> QED
    BY <1>9, <1>13, <2>2, <2>3 DEF SelectDelete
<1>14. CASE SelectSkill(m)
  <2>1. IsView(view') /\ Aside(view, view')
    BY <1>5, <1>6, <1>14 DEF SelectSkill
  <2> QED
    BY <1>9, <1>14, <2>1, TakenPost DEF SelectSkill
<1>15. CASE SelectOther(m)
  BY <1>5, <1>9, <1>15, TakenPost DEF SelectOther
<1> QED
  BY <1>1, <1>7, <1>8, <1>10, <1>11, <1>12, <1>13, <1>14, <1>15

LEMMA MessagesGoOn ==
    ASSUME TypeInv, NEW m \in BagToSet(posts),
           HandleAction(m) \/ HandlePalette(m) \/ HandlePaletteClose(m) \/ HandleLocal(m)
    PROVE  GoesOn
<1> USE DEF viewOnly, runVars
<1>1. /\ IsView(view) /\ hasty \in BOOLEAN /\ m \in PostType
      /\ Continues(view, view) /\ Listable
  BY TakenPost, Unchanged, StoreIsListable DEF TypeInv, StoreInv
<1>2. CASE HandleAction(m)
  <2>1. CASE view.at # Nil /\ view.command = "switch-session"
    <3>1. m.action \in CommandName /\ m.key \in Sid
      BY <1>1, <1>2, PostFields DEF HandleAction, Handles, CommandName
    <3> DEFINE w == ShowModal(view, m.action)
    <3>2. IsView(w) /\ Aside(view, w) /\ Open(w)
      BY <1>1, <3>1, ModalOps
    <3>3. view' = [w EXCEPT !.target = m.key]
      BY <1>2, <2>1 DEF HandleAction
    <3> HIDE DEF w
    <3>4. IsView(view') /\ Aside(w, view') /\ Open(view')
      BY <3>1, <3>2, <3>3, FieldOps DEF Open
    <3> QED
      BY <1>1, <1>2, <3>2, <3>4, TakenPost DEF HandleAction, GoesOn, Aside, Continues
  <2>2. CASE ~(view.at # Nil /\ view.command = "switch-session")
    BY <1>1, <1>2, <2>2, TakenPost DEF HandleAction, GoesOn
  <2> QED
    BY <2>1, <2>2
<1>3. CASE HandlePalette(m)
  <2>1. m.command \in CommandName
    BY <1>1, <1>3, PostFields DEF HandlePalette, Handles
  <2> DEFINE w == [view EXCEPT !.palette = FALSE]
  <2>2. IsView(w) /\ Aside(view, w) /\ w.modal = view.modal
    BY <1>1, FieldOps
  <2>3. view' = Command(w, m.command)
    BY <1>3 DEF HandlePalette
  <2> HIDE DEF w
  <2>4. IsView(view') /\ Continues(w, view')
    BY <1>1, <2>1, <2>2, <2>3, CommandOp
  <2>5. Continues(view, view')
    BY <2>2, <2>4 DEF Aside, Continues, Open
  <2>6. [type |-> "local"] \in PostType
    BY DEF PostType, KeyPost
  <2>7. IsPosts(posts') /\ SavesKept
    BY <1>3, <2>6, TakenPost DEF HandlePalette
  <2> QED
    BY <1>1, <1>3, <2>4, <2>5, <2>7 DEF HandlePalette, GoesOn
<1>4. CASE HandlePaletteClose(m)
  <2>1. IsView(view') /\ Continues(view, view')
    BY <1>1, <1>4, FieldOps DEF HandlePaletteClose, Aside, Continues, Open
  <2> QED
    BY <1>1, <1>4, <2>1, TakenPost DEF HandlePaletteClose, GoesOn
<1>5. CASE HandleLocal(m)
  <2>1. /\ CommandItems(view, "connect-provider") \subseteq ItemType
        /\ CommandItems(view, "connect-provider") # {}
    BY <1>1, ItemsAreItems DEF CommandName, PaletteCommand
  <2>2. IsView(view') /\ Continues(view, view')
    BY <1>1, <1>5, <2>1 DEF HandleLocal, IsView, ViewType, Continues, Open
  <2> QED
    BY <1>1, <1>5, <2>2, TakenPost DEF HandleLocal, GoesOn
<1> QED
  BY <1>2, <1>3, <1>4, <1>5

-----------------------------------------------------------------------------
(* The labels that only an answer has.  One that says yes is in the modal    *)
(* of the question shown.                                                    *)
Yes == Approving \ Named
SaysYes(modal) == \E item \in modal : item.label \in Yes

ModalAsks == SaysYes(view.modal) => Item("Approve") \in view.modal /\ view.approval # Nil

Approves(m) == m.type = "select" /\ m.label \in Yes

(* What such a step does to the presses: none, one more, or one handled.     *)
PressAdded(m) ==
    /\ IsPress(m) /\ posts' = Post(m) /\ UNCHANGED <<view, resp>>
    /\ hasty' = (hasty \/ Pressed)
    /\ Approves(m) => m.from = view.approval /\ view.approval # Nil

PressTaken(m) ==
    /\ IsPress(m) /\ posts' = Handled(m)
    /\ UNCHANGED resp
       \/ \E label \in Label : /\ resp' = [resp EXCEPT ![view.approval] = label]
                               /\ label \in Yes => Approves(m)

PressAnswered(m) ==
    /\ IsPress(m) /\ UNCHANGED resp
    /\ \E n \in PostType : ~IsPress(n) /\ posts' = Answer(m, n)

Presses ==
    /\ SaysYes(view'.modal) => view'.modal = view.modal /\ view'.approval = view.approval
    /\ hasty => hasty'
    /\ \/ PressesKept /\ view'.approval = view.approval /\ UNCHANGED resp
       \/ \E m \in PostType : PressAdded(m)
       \/ \E m \in BagToSet(posts) : PressTaken(m) \/ PressAnswered(m)

LEMMA ModalsAreCalm ==
    ASSUME Listable, NEW v, IsView(v), NEW c \in CommandName
    PROVE  /\ ~SaysYes(CommandItems(v, c)) /\ ~SaysYes({})
           /\ ~SaysYes(ShowModal(v, c).modal)
           /\ ~SaysYes(Close(v).modal) /\ ~SaysYes(Dismissed(v).modal)
<1>1. \A item \in CommandItems(v, c) : item.label \notin Yes
  <2>1. \A l : Item(l).label = l
    BY DEF Item
  <2>2. \A item \in IF v.at = Nil THEN v.listed ELSE Summaries(store) : item.label \in Titles
    BY DEF Listable, SummaryType, IsView, ViewType
  <2>3. \A item \in CommandItems(v, c) :
           item.label \in {"+ New session", "Create session", "Rename", "Delete", "Cancel"}
                             \cup Named
    BY <2>1, <2>2 DEF CommandItems, Named
  <2> QED
    BY <2>3 DEF Yes, Approving
<1>2. /\ ShowModal(v, c).modal = CommandItems(v, c)
      /\ Close(v).modal = {} /\ Dismissed(v).modal = {}
  BY DEF IsView, ViewType, ShowModal, Close, Dismissed
<1> QED
  BY <1>1, <1>2 DEF SaysYes

LEMMA CommandCalm ==
    ASSUME Listable, NEW v, IsView(v), NEW c \in CommandName
    PROVE  /\ Command(v, c).approval = v.approval
           /\ SaysYes(Command(v, c).modal) => Command(v, c).modal = v.modal
<1>1. CASE c # "/clear"
  <2> DEFINE w == ShowModal(v, c)
  <2>1. IsView(w) /\ w.approval = v.approval /\ ~SaysYes(w.modal)
    BY ModalOps, ModalsAreCalm DEF Aside
  <2>2. Command(v, c) = [w EXCEPT !.palette = FALSE]
    BY <1>1 DEF Command, OpenModal
  <2> HIDE DEF w
  <2>3. Command(v, c).approval = w.approval /\ Command(v, c).modal = w.modal
    BY <2>1, <2>2 DEF IsView, ViewType
  <2> QED
    BY <2>1, <2>3
<1>2. CASE c = "/clear"
  BY <1>2 DEF Command, IsView, ViewType
<1> QED
  BY <1>1, <1>2

LEMMA KeysPress ==
    ASSUME TypeInv, ModalAsks, User, ~\E r \in Run : TypeTask(r)
    PROVE  Presses
<1> USE DEF runVars
<1>0. IsView(view) /\ view \in ViewType /\ view.modal \subseteq ItemType /\ Listable
  BY StoreIsListable DEF TypeInv, IsView, ViewType
<1>1. ASSUME NEW m \in PostType, ~IsPress(m), posts' = Post(m), UNCHANGED <<view, resp, hasty>>
      PROVE  Presses
  BY <1>1, KeptPresses DEF Presses
<1>2. ASSUME UNCHANGED <<posts, resp>>, hasty => hasty', view'.approval = view.approval,
             SaysYes(view'.modal) => view'.modal = view.modal
      PROVE  Presses
  BY <1>2 DEF Presses, PressesKept
<1>4. ASSUME NEW value \in Titles, NEW item \in view.modal, PressEnter(item, value)
      PROVE  Presses
  <2> DEFINE f == IF Item("Approve") \in view.modal THEN view.approval ELSE Nil
             m == [type |-> "select", label |-> item.label, key |-> item.key,
                   value |-> value, from |-> f]
  <2>1. m \in PostType /\ IsPress(m)
    <3>1. view.approval \in Question \cup {Nil}
      BY <1>0 DEF ViewType
    <3> QED
      BY <1>0, <3>1 DEF PostType, SelectPost, ItemType, IsPress
  <2>2. Approves(m) => m.from = view.approval /\ view.approval # Nil
    BY DEF Approves, ModalAsks, SaysYes
  <2>3. posts' = Post(m) /\ hasty' = (hasty \/ Pressed) /\ UNCHANGED <<view, resp>>
    BY <1>4 DEF PressEnter
  <2> HIDE DEF m
  <2>4. PressAdded(m)
    BY <2>1, <2>2, <2>3 DEF PressAdded
  <2> QED
    BY <2>1, <2>3, <2>4 DEF Presses
<1>5. CASE PressEsc
  <2> DEFINE m == [type |-> "close"]
  <2>1. m \in PostType /\ IsPress(m) /\ ~Approves(m)
    BY DEF PostType, KeyPost, IsPress, Approves
  <2>2. posts' = Post(m) /\ hasty' = (hasty \/ Pressed) /\ UNCHANGED <<view, resp>>
    BY <1>5 DEF PressEsc
  <2> HIDE DEF m
  <2>3. PressAdded(m)
    BY <2>1, <2>2 DEF PressAdded
  <2> QED
    BY <2>1, <2>2, <2>3 DEF Presses
<1>6. ASSUME NEW action \in {"rename-session", "delete-session"}, NEW item \in view.modal,
             PressAction(action, item)
      PROVE  Presses
  <2> DEFINE m == [type |-> "action", action |-> action, key |-> item.key]
  <2>1. m \in PostType /\ ~IsPress(m)
    BY <1>0, <1>6 DEF PostType, ActionPost, ItemType, PressAction, IsPress
  <2> QED
    BY <1>1, <1>6, <2>1 DEF PressAction
<1>7. CASE TurnPage
  <2>1. view'.modal = CommandItems(view, "skills") /\ view'.approval = view.approval
    BY <1>0, <1>7 DEF TurnPage, ViewType
  <2>2. ~SaysYes(view'.modal)
    BY <1>0, <2>1, ModalsAreCalm DEF CommandName, PaletteCommand
  <2> QED
    BY <1>2, <1>7, <2>1, <2>2 DEF TurnPage
<1>8. CASE TogglePalette
  BY <1>0, <1>2, <1>8 DEF TogglePalette, ViewType
<1>9. ASSUME NEW command \in Commands, PaletteEnter(command) PROVE Presses
  <2>1. [type |-> "palette", command |-> command] \in PostType
    BY TuiAssumption DEF PostType, PalettePost, CommandName
  <2> QED
    BY <1>1, <1>9, <2>1 DEF PaletteEnter, IsPress
<1>10. CASE PaletteEsc
  <2>1. [type |-> "palette close"] \in PostType
    BY DEF PostType, KeyPost
  <2> QED
    BY <1>1, <1>10, <2>1 DEF PaletteEsc, IsPress
<1>11. CASE Click
  <2>1. view'.approval = view.approval /\ (view'.modal = {} \/ view'.modal = view.modal)
    BY <1>0, <1>11 DEF Click, Close, ViewType
  <2>2. SaysYes(view'.modal) => view'.modal = view.modal
    BY <2>1 DEF SaysYes
  <2> QED
    BY <1>2, <1>11, <2>1, <2>2 DEF Click
<1>12. ASSUME NEW command \in Typed, PressCommand(command) PROVE Presses
  <2>1. command \in CommandName
    BY TuiAssumption DEF CommandName
  <2>2. view'.approval = view.approval /\ (SaysYes(view'.modal) => view'.modal = view.modal)
    BY <1>0, <1>12, <2>1, CommandCalm DEF PressCommand
  <2>3. PressesKept
    <3>1. [type |-> "local"] \in PostType /\ ~IsPress([type |-> "local"])
      BY DEF PostType, KeyPost, IsPress
    <3> QED
      BY <1>12, <3>1, KeptPresses DEF PressCommand, PressesKept
  <2> QED
    BY <1>12, <2>2, <2>3 DEF PressCommand, Presses
<1>13. ASSUME NEW title \in Titles, TypeFirstTask(title) PROVE Presses
  <2>1. [type |-> "start", title |-> title] \in PostType
    BY DEF PostType, TitlePost
  <2> QED
    BY <1>1, <1>13, <2>1 DEF TypeFirstTask, IsPress
<1> QED
  BY <1>4, <1>5, <1>6, <1>7, <1>8, <1>9, <1>10, <1>11, <1>12, <1>13 DEF User

LEMMA ChoicesPress ==
    ASSUME TypeInv, HandleChoice
    PROVE  Presses
<1> USE DEF viewOnly
<1>1. PICK m \in BagToSet(posts) :
         \/ HandleAnswer(m) \/ HandleClose(m) \/ SelectSession(m) \/ SelectNewSession(m)
         \/ SelectRename(m) \/ SelectDelete(m) \/ SelectSkill(m) \/ SelectOther(m)
  BY DEF HandleChoice
<1>2. IsView(view) /\ m \in PostType /\ view.target \in Sid \cup {Nil} /\ Listable
  BY TakenPost, StoreIsListable DEF TypeInv, IsView, ViewType
<1>3. IsPress(m) /\ UNCHANGED hasty
  BY <1>1 DEF IsPress, HandleAnswer, HandleClose, SelectSession, SelectNewSession, SelectRename,
              SelectDelete, SelectSkill, SelectOther, Chosen, Handles
<1>4. /\ Close(view).modal = {} /\ Dismissed(view).modal = {} /\ ~SaysYes({})
      /\ [Close(view) EXCEPT !.approval = Nil].modal = {}
      /\ [Dismissed(view) EXCEPT !.target = Nil].modal = {}
  BY <1>2 DEF IsView, ViewType, Close, Dismissed, SaysYes
<1>5. \A c \in {"new-session", "skills", "skill-detail"} : ~SaysYes(ShowModal(view, c).modal)
  BY <1>2, ModalsAreCalm DEF CommandName, PaletteCommand
<1>6. ASSUME ~SaysYes(view'.modal), PressTaken(m) \/ PressAnswered(m) PROVE Presses
  BY <1>3, <1>6 DEF Presses
<1>7. CASE HandleAnswer(m)
  <2>1. m.label \in Label /\ m.type = "select"
    BY <1>2, <1>7, PostFields DEF HandleAnswer, Handles
  <2>2. PressTaken(m)
    BY <1>3, <1>7, <2>1 DEF HandleAnswer, Respond, PressTaken, Approves
  <2> QED
    BY <1>4, <1>6, <1>7, <2>2 DEF HandleAnswer
<1>8. CASE HandleClose(m)
  <2>1. PressTaken(m)
    BY <1>3, <1>8 DEF HandleClose, Respond, PressTaken, Label, Yes, Approving
  <2> QED
    BY <1>4, <1>6, <1>8, <2>1 DEF HandleClose
<1>9. ASSUME NEW command, Chosen(m, command), ~SaysYes(view'.modal),
             posts' = Handled(m) \/ \E n \in PostType : ~IsPress(n) /\ posts' = Answer(m, n)
      PROVE  Presses
  BY <1>3, <1>6, <1>9 DEF Chosen, PressTaken, PressAnswered
<1>10. CASE SelectSession(m)
  <2>1. m.label # "+ New session" /\ m.key \notin {Nil, view.at} =>
           [type |-> "open", id |-> m.key] \in PostType
    BY <1>2, <1>10, PostFields DEF SelectSession, Chosen, Handles, PostType, OpenPost
  <2>2. ~SaysYes(view'.modal)
    BY <1>4, <1>5, <1>10 DEF SelectSession
  <2> QED
    BY <1>9, <1>10, <2>1, <2>2 DEF SelectSession, IsPress
<1>11. CASE SelectNewSession(m)
  <2>1. [type |-> "create", title |-> m.value] \in PostType
    BY <1>2, <1>11, PostFields DEF SelectNewSession, Chosen, Handles, PostType, TitlePost
  <2>2. ~SaysYes(view'.modal)
    BY <1>4, <1>11 DEF SelectNewSession
  <2> QED
    BY <1>9, <1>11, <2>1, <2>2 DEF SelectNewSession, IsPress
<1>12. CASE SelectRename(m)
  <2>1. [type |-> "rename", id |-> view.target, title |-> m.value] \in PostType
    BY <1>2, <1>12, PostFields DEF SelectRename, Chosen, Handles, PostType, RenamePost
  <2>2. ~SaysYes(view'.modal)
    BY <1>4, <1>12 DEF SelectRename
  <2> QED
    BY <1>9, <1>12, <2>1, <2>2 DEF SelectRename, IsPress
<1>13. CASE SelectDelete(m)
  <2>1. [type |-> "delete", id |-> view.target] \in PostType
    BY <1>2 DEF PostType, DeletePost
  <2>2. ~SaysYes(view'.modal)
    BY <1>4, <1>13 DEF SelectDelete
  <2> QED
    BY <1>9, <1>13, <2>1, <2>2 DEF SelectDelete, IsPress
<1>14. CASE SelectSkill(m)
  <2>1. ~SaysYes(view'.modal)
    BY <1>4, <1>5, <1>14 DEF SelectSkill
  <2> QED
    BY <1>9, <1>14, <2>1 DEF SelectSkill
<1>15. CASE SelectOther(m)
  BY <1>4, <1>9, <1>15 DEF SelectOther
<1> QED
  BY <1>1, <1>7, <1>8, <1>10, <1>11, <1>12, <1>13, <1>14, <1>15

LEMMA MessagesPress ==
    ASSUME TypeInv, NEW m \in BagToSet(posts),
           HandleAction(m) \/ HandlePalette(m) \/ HandlePaletteClose(m) \/ HandleLocal(m)
    PROVE  Presses
<1> USE DEF viewOnly, runVars
<1>1. IsView(view) /\ view \in ViewType /\ m \in PostType /\ ~IsPress(m) /\ Listable
  BY TakenPost, StoreIsListable DEF TypeInv, IsView, IsPress, Handles, HandleAction, HandlePalette,
                   HandlePaletteClose, HandleLocal
<1>2. ASSUME PressesKept, UNCHANGED resp, hasty => hasty', view'.approval = view.approval,
             SaysYes(view'.modal) => view'.modal = view.modal
      PROVE  Presses
  BY <1>2 DEF Presses
<1>3. CASE HandleAction(m)
  <2>1. CASE view.at # Nil /\ view.command = "switch-session"
    <3>1. m.action \in CommandName
      BY <1>1, <1>3, PostFields DEF HandleAction, Handles, CommandName
    <3> DEFINE w == ShowModal(view, m.action)
    <3>2. IsView(w) /\ w.approval = view.approval /\ ~SaysYes(w.modal)
      BY <1>1, <3>1, ModalOps, ModalsAreCalm DEF Aside
    <3>3. view' = [w EXCEPT !.target = m.key]
      BY <1>3, <2>1 DEF HandleAction
    <3> HIDE DEF w
    <3>4. view'.approval = view.approval /\ view'.modal = w.modal
      BY <3>2, <3>3 DEF IsView, ViewType
    <3> QED
      BY <1>1, <1>2, <1>3, <3>2, <3>4, KeptPresses DEF HandleAction
  <2>2. CASE ~(view.at # Nil /\ view.command = "switch-session")
    BY <1>1, <1>2, <1>3, <2>2, KeptPresses DEF HandleAction
  <2> QED
    BY <2>1, <2>2
<1>4. CASE HandlePalette(m)
  <2>1. m.command \in CommandName
    BY <1>1, <1>4, PostFields DEF HandlePalette, Handles
  <2> DEFINE w == [view EXCEPT !.palette = FALSE]
  <2>2. IsView(w) /\ w.approval = view.approval /\ w.modal = view.modal
    BY <1>1, FieldOps DEF Aside
  <2>3. view' = Command(w, m.command)
    BY <1>4 DEF HandlePalette
  <2> HIDE DEF w
  <2>4. view'.approval = view.approval /\ (SaysYes(view'.modal) => view'.modal = view.modal)
    BY <1>1, <2>1, <2>2, <2>3, CommandCalm
  <2>5. PressesKept
    <3> DEFINE n == [type |-> "local"]
    <3>1. n \in PostType /\ ~IsPress(n)
      BY DEF PostType, KeyPost, IsPress
    <3> HIDE DEF n
    <3>2. CASE posts' = Handled(m)
      BY <1>1, <3>2, KeptPresses
    <3>3. CASE posts' = Answer(m, n)
      <4>1. IsPosts(posts) /\ IsPosts(Handled(m))
        BY PostTaken DEF TypeInv, Handled
      <4>2. \A x : IsPress(x) => x # n /\ x # m
        BY <1>1, <3>1
      <4> QED
        BY <1>1, <3>1, <3>3, <4>1, <4>2, OthersCounted DEF Answer, Handled, PressesKept
    <3> QED
      BY <1>4, <3>2, <3>3 DEF HandlePalette, n
  <2> QED
    BY <1>2, <1>4, <2>4, <2>5 DEF HandlePalette
<1>5. CASE HandlePaletteClose(m)
  BY <1>1, <1>2, <1>5, KeptPresses DEF HandlePaletteClose, ViewType
<1>6. CASE HandleLocal(m)
  <2>1. ~SaysYes(CommandItems(view, "connect-provider"))
    BY <1>1, ModalsAreCalm DEF CommandName, PaletteCommand
  <2>2. /\ view'.approval = view.approval
        /\ view'.modal = view.modal \/ view'.modal = CommandItems(view, "connect-provider")
    BY <1>1, <1>6 DEF HandleLocal, ViewType
  <2> QED
    BY <1>1, <1>2, <1>6, <2>1, <2>2, KeptPresses DEF HandleLocal
<1> QED
  BY <1>3, <1>4, <1>5, <1>6

-----------------------------------------------------------------------------
(* A step of the agent of r that sends m and leaves the agent as a.          *)
Sends(r, m, a) ==
    /\ m \in AgentMessageType /\ m.run = r /\ m.n = agent[r].sent + 1
    /\ a \in AgentType /\ a.asked <= a.sent
    /\ a.pc # "ended" => a.sent = agent[r].sent + 1
    /\ agent[r].pc \in {"work", "last"}
    /\ agent' = [agent EXCEPT ![r] = a]
    /\ chan' = [chan EXCEPT ![r] = Append(@, m)]
    /\ UNCHANGED <<uiVars, readers, coming>>
    /\ \/ /\ m.kind \in {"chunk", "plan"} /\ a.pc \in {"work", "last"}
          /\ a.history = agent[r].history
          /\ UNCHANGED resp
       \/ /\ m.kind = "ask" /\ a.pc = "asking"
          /\ a.history = agent[r].history
          /\ m.question \in Question /\ m.question = <<r, a.asked>>
          /\ resp' = [resp EXCEPT ![m.question] = "waiting"]
       \/ /\ m.kind = "done" /\ a.pc = "ended"
          /\ m.ok => m.history = Append(agent[r].history, r)
          /\ UNCHANGED resp

LEMMA AgentSends ==
    ASSUME TypeInv, NEW r \in Run, AgentNext(r), ~AgentResume(r)
    PROVE  \E m, a : Sends(r, m, a)
<1> DEFINE b == agent[r]
<1>1. /\ b \in AgentType /\ agent \in [Run -> AgentType] /\ chan \in [Run -> Seq(AgentMessageType)]
      /\ b.pc \in {"idle", "work", "last", "asking", "ended"}
      /\ b.planned \in BOOLEAN
      /\ b.asked \in 0 .. MaxSends /\ b.sent \in 0 .. MaxSends /\ b.history \in Seq(Run)
      /\ b.asked <= b.sent /\ MaxSends \in Nat
  BY TuiAssumption DEF TypeInv, RunsInv, AgentType
<1>2. <<>> \in Seq(Run) /\ Append(b.history, r) \in Seq(Run) /\ b.sent + 1 \in Nat
  BY <1>1
<1>3. \A k \in {"chunk", "plan", "ask", "done"} :
         /\ Message(r, k) \in AgentMessageType
         /\ Message(r, k).run = r /\ Message(r, k).kind = k /\ Message(r, k).n = b.sent + 1
  BY <1>2 DEF Message, AgentMessageType
<1>4. CASE AgentSendText(r)
  <2> DEFINE next == IF b.planned THEN "work" ELSE "last"
  <2>0. next \in {"work", "last"}
    OBVIOUS
  <2> HIDE DEF next
  <2> DEFINE a == [b EXCEPT !.sent = @ + 1, !.pc = next]
  <2>1. /\ a \in AgentType /\ a.asked <= a.sent /\ a.pc \in {"work", "last"}
        /\ a.history = b.history /\ a.sent = b.sent + 1
    <3>1. b.sent + 1 \in 0 .. MaxSends /\ b.asked <= b.sent + 1
      BY <1>1, <1>4 DEF AgentSendText
    <3>2. a = [b EXCEPT !.sent = b.sent + 1, !.pc = next]
      OBVIOUS
    <3>3. next \in {"idle", "work", "last", "asking", "ended"}
      BY <2>0
    <3> HIDE DEF b, a
    <3>4. a \in AgentType
      BY <1>1, <3>1, <3>2, <3>3 DEF AgentType
    <3>5. a.asked = b.asked /\ a.sent = b.sent + 1 /\ a.pc = next /\ a.history = b.history
      BY <1>1, <3>2 DEF AgentType
    <3> QED
      BY <2>0, <3>1, <3>4, <3>5
  <2>2. agent' = [agent EXCEPT ![r] = a]
    BY <1>1, <1>4 DEF AgentSendText, AgentType, next
  <2>3. Message(r, "chunk") \in AgentMessageType /\ Message(r, "chunk").run = r
        /\ Message(r, "chunk").kind = "chunk" /\ Message(r, "chunk").n = b.sent + 1
    BY <1>3
  <2> HIDE DEF a
  <2> QED
    BY <1>1, <1>4, <2>1, <2>2, <2>3 DEF AgentSendText, Send, Sends
<1>5. CASE AgentSendPlan(r)
  <2> DEFINE a == [b EXCEPT !.sent = @ + 1, !.planned = TRUE]
  <2>1. /\ a \in AgentType /\ a.asked <= a.sent /\ a.pc \in {"work", "last"}
        /\ a.history = b.history /\ a.sent = b.sent + 1
    BY <1>1, <1>5 DEF AgentSendPlan, AgentType
  <2>2. agent' = [agent EXCEPT ![r] = a]
    BY <1>1, <1>5 DEF AgentSendPlan, AgentType
  <2>3. Message(r, "plan") \in AgentMessageType /\ Message(r, "plan").run = r
        /\ Message(r, "plan").kind = "plan" /\ Message(r, "plan").n = b.sent + 1
    BY <1>3
  <2> HIDE DEF a
  <2> QED
    BY <1>1, <1>5, <2>1, <2>2, <2>3 DEF AgentSendPlan, Send, Sends
<1>6. ASSUME NEW stage \in Stages, AgentAsk(r, stage) PROVE \E m, a : Sends(r, m, a)
  <2> DEFINE a == [b EXCEPT !.sent = @ + 1, !.asked = @ + 1, !.pc = "asking"]
             q == <<r, b.asked + 1>>
             m == [Message(r, "ask") EXCEPT !.stage = stage, !.question = q]
  <2>1. /\ a \in AgentType /\ a.asked <= a.sent /\ a.pc = "asking"
        /\ a.history = b.history /\ a.asked = b.asked + 1 /\ a.sent = b.sent + 1
    BY <1>1, <1>6 DEF AgentAsk, AgentType
  <2>2. agent' = [agent EXCEPT ![r] = a]
    BY <1>1, <1>6 DEF AgentAsk, AgentType
  <2>3. q \in Question /\ q = <<r, a.asked>>
    BY <1>1, <1>6, <2>1 DEF AgentAsk, Question
  <2>4. m \in AgentMessageType /\ m.run = r /\ m.kind = "ask" /\ m.question = q
        /\ m.n = b.sent + 1
    BY <1>2, <2>3 DEF Message, AgentMessageType
  <2>5. /\ agent[r].pc = "work"
        /\ chan' = [chan EXCEPT ![m.run] = Append(@, m)]
        /\ resp' = [resp EXCEPT ![q] = "waiting"]
        /\ UNCHANGED <<uiVars, readers, coming>>
    BY <1>6 DEF AgentAsk, Send
  <2> HIDE DEF a, q, m
  <2> QED
    BY <2>1, <2>2, <2>3, <2>4, <2>5 DEF Sends
<1>7. ASSUME NEW ok \in BOOLEAN, AgentEnd(r, ok) PROVE \E m, a : Sends(r, m, a)
  <2> DEFINE a == [Idle EXCEPT !.pc = "ended"]
             m == [Message(r, "done") EXCEPT
                     !.ok = ok, !.history = IF ok THEN Append(b.history, r) ELSE <<>>]
  <2>1. a \in AgentType /\ a.asked <= a.sent /\ a.pc = "ended"
    <3>1. 0 \in 0 .. MaxSends
      BY <1>1
    <3>2. Idle \in AgentType /\ Idle.asked <= Idle.sent
      BY <1>2, <3>1 DEF Idle, AgentType
    <3> DEFINE i == Idle
    <3> HIDE DEF i
    <3>3. a = [i EXCEPT !.pc = "ended"]
      BY DEF i
    <3> QED
      BY <3>2, <3>3 DEF i, AgentType
  <2>2. /\ m \in AgentMessageType /\ m.run = r /\ m.kind = "done" /\ m.n = b.sent + 1
        /\ m.ok => m.history = Append(b.history, r)
    BY <1>2 DEF Message, AgentMessageType
  <2>3. /\ agent[r].pc \in {"work", "last"}
        /\ agent' = [agent EXCEPT ![r] = a]
        /\ chan' = [chan EXCEPT ![m.run] = Append(@, m)]
        /\ UNCHANGED <<uiVars, readers, coming, resp>>
    BY <1>7 DEF AgentEnd, Send
  <2> HIDE DEF a, m
  <2> QED
    BY <2>1, <2>2, <2>3 DEF Sends
<1> QED
  BY <1>4, <1>5, <1>6, <1>7 DEF AgentNext

(* A message of a run in Update of a session: it goes on with that run.      *)
Takes(m) ==
    /\ m \in coming /\ m \in AgentMessageType /\ view.at # Nil
    /\ IsView(view')
    /\ view'.at = view.at /\ view'.history = view.history /\ view'.running = view.running
    /\ \A r : Says(view.messages, r) => Says(view'.messages, r)
    /\ IF m.kind = "ask"
       THEN /\ view'.approval = m.question /\ Open(view')
            /\ Item("Approve") \in view'.modal
       ELSE view'.approval = view.approval /\ view'.modal = view.modal
    /\ m.kind # "done"
    /\ readers' = [readers EXCEPT ![m.run] = @ + 1]
    /\ coming' = coming \ {m}
    /\ applied' = [applied EXCEPT ![m.run] = m.n]
    /\ UNCHANGED <<store, used, posts, agent, chan, resp, home, mixed, hasty>>

LEMMA HandlersTake ==
    ASSUME TypeInv, NEW m \in coming, HandleText(m) \/ HandlePlan(m) \/ HandleQuestion(m)
    PROVE  Takes(m)
<1>1. /\ m \in AgentMessageType /\ IsView(view) /\ m.run \in Run
      /\ m.question \in Question \cup {Nil} /\ view.messages \in Seq(MessageType)
      /\ view.response \in Texts /\ view \in ViewType
  BY DEF TypeInv, RunsInv, AgentMessageType, IsView, ViewType
<1>2. /\ AppendToAssistant(view.messages, m.run) \in Seq(MessageType)
      /\ \A r : Says(view.messages, r) => Says(AppendToAssistant(view.messages, m.run), r)
  BY <1>1, AppendOp, SaidOps
<1>3. view.response \cup {m.run} \in Texts
  BY <1>1 DEF Texts
<1>4. CASE HandleText(m)
  <2>1. view' = IF view.plan # Nil
                THEN [view EXCEPT !.response = view.response \cup {m.run}]
                ELSE [view EXCEPT !.messages = AppendToAssistant(view.messages, m.run)]
    BY <1>4 DEF HandleText
  <2>2. /\ IsView(view') /\ view'.at = view.at /\ view'.history = view.history
        /\ view'.running = view.running /\ view'.approval = view.approval
        /\ view'.modal = view.modal
        /\ view'.messages \in {view.messages, AppendToAssistant(view.messages, m.run)}
    BY <1>1, <1>2, <1>3, <2>1 DEF IsView, ViewType
  <2> QED
    BY <1>1, <1>2, <1>4, <2>2 DEF HandleText, Arrived, WaitNext, Takes
<1>5. CASE HandlePlan(m)
  <2>1. /\ IsView(view') /\ view'.at = view.at /\ view'.history = view.history
        /\ view'.running = view.running /\ view'.approval = view.approval
        /\ view'.modal = view.modal /\ view'.messages = view.messages
    BY <1>1, <1>5 DEF HandlePlan, IsView, ViewType
  <2> QED
    BY <1>1, <1>5, <2>1 DEF HandlePlan, Arrived, WaitNext, Takes
<1>6. CASE HandleQuestion(m)
  <2>1. /\ ApprovalItems(m.stage) \subseteq ItemType /\ ApprovalItems(m.stage) # {}
        /\ Item("Approve") \in ApprovalItems(m.stage)
    <3>1. \A l \in Label : Item(l) \in ItemType
      BY DEF Item, ItemType
    <3>2. {"Approve", "Reject", "Revise", "Approve all"} \subseteq Label
      BY DEF Label, Approving
    <3> QED
      BY <3>1, <3>2 DEF ApprovalItems
  <2>2. view' = [view EXCEPT !.approval = m.question, !.modal = ApprovalItems(m.stage),
                             !.messages = AppendToAssistant(view.messages, m.run)]
    BY <1>6 DEF HandleQuestion
  <2>3. /\ IsView(view') /\ view'.at = view.at /\ view'.history = view.history
        /\ view'.running = view.running /\ view'.approval = m.question
        /\ view'.modal = ApprovalItems(m.stage)
        /\ view'.messages = AppendToAssistant(view.messages, m.run)
    BY <1>1, <1>2, <2>1, <2>2 DEF IsView, ViewType
  <2> QED
    BY <1>1, <1>2, <1>6, <2>1, <2>3 DEF HandleQuestion, Arrived, WaitNext, Takes, Open
<1> QED
  BY <1>4, <1>5, <1>6

-----------------------------------------------------------------------------
LEMMA InitTyped == Init => TypeInv
<1> SUFFICES ASSUME Init PROVE TypeInv
  OBVIOUS
<1>1. IsView(view)
  BY WelcomeOp DEF Init
<1>2. StoreInv
  BY DEF Init, StoreInv
<1>3. IsPosts(posts)
  BY DEF Init, IsPosts, IsABag, BagToSet, EmptyBag, SetToBag
<1>4. RunsInv
  <2>1. Idle \in AgentType /\ Idle.asked <= Idle.sent
    <3>1. 0 \in 0 .. MaxSends /\ <<>> \in Seq(Run)
      BY TuiAssumption
    <3> QED
      BY <3>1 DEF Idle, AgentType
  <2>2. <<>> \in Seq(AgentMessageType)
    OBVIOUS
  <2> QED
    BY <2>1, <2>2 DEF Init, RunsInv
<1> QED
  BY <1>1, <1>2, <1>3, <1>4 DEF TypeInv

LEMMA GoesOnTyped == TypeInv /\ GoesOn => TypeInv'
<1> SUFFICES ASSUME TypeInv, GoesOn PROVE TypeInv'
  OBVIOUS
<1>1. StoreInv'
  BY DEF TypeInv, StoreInv, GoesOn
<1>2. view.approval \in Question \cup {Nil}
  BY DEF TypeInv, IsView, ViewType
<1>3. RunsInv'
  BY <1>2 DEF TypeInv, RunsInv, GoesOn, Answered
<1> QED
  BY <1>1, <1>3 DEF TypeInv, GoesOn

LEMMA SendsTyped ==
    ASSUME TypeInv, NEW r \in Run, NEW m, NEW a, Sends(r, m, a)
    PROVE  TypeInv'
<1>1. RunsInv'
  <2>1. agent' \in [Run -> AgentType] /\ \A p \in Run : agent'[p].asked <= agent'[p].sent
    BY DEF Sends, TypeInv, RunsInv
  <2>2. chan' \in [Run -> Seq(AgentMessageType)]
    BY DEF Sends, TypeInv, RunsInv
  <2>3. resp' \in [Question -> Label \cup {"none", "waiting"}]
    BY DEF Sends, TypeInv, RunsInv
  <2> QED
    BY <2>1, <2>2, <2>3 DEF Sends, TypeInv, RunsInv, uiVars
<1> QED
  BY <1>1 DEF Sends, uiVars, TypeInv, StoreInv

LEMMA ResumeTyped ==
    ASSUME TypeInv, NEW r \in Run, AgentResume(r)
    PROVE  TypeInv'
<1> DEFINE a == [agent[r] EXCEPT !.pc = "work"]
<1>1. a \in AgentType /\ a.asked <= a.sent
  BY DEF TypeInv, RunsInv, AgentType
<1>2. agent' = [agent EXCEPT ![r] = a]
  BY DEF AgentResume
<1> HIDE DEF a
<1>3. RunsInv'
  BY <1>1, <1>2 DEF AgentResume, TypeInv, RunsInv, uiVars
<1> QED
  BY <1>3 DEF AgentResume, uiVars, TypeInv, StoreInv

LEMMA ReceiveTyped ==
    ASSUME TypeInv, NEW r \in Run, Receive(r)
    PROVE  TypeInv'
<1>1. Head(chan[r]) \in AgentMessageType /\ Tail(chan[r]) \in Seq(AgentMessageType)
  BY DEF Receive, TypeInv, RunsInv
<1>2. RunsInv'
  BY <1>1 DEF Receive, TypeInv, RunsInv, uiVars
<1> QED
  BY <1>2 DEF Receive, uiVars, TypeInv, StoreInv

LEMMA TakesTyped ==
    ASSUME TypeInv, NEW m, Takes(m)
    PROVE  TypeInv'
<1>1. m.run \in Run /\ m.n \in Nat
  BY DEF Takes, AgentMessageType
<1>2. RunsInv'
  BY <1>1 DEF Takes, TypeInv, RunsInv
<1> QED
  BY <1>2 DEF Takes, TypeInv, StoreInv

(* The last message of a run ends it in the view, and a snapshot is sent.    *)
Ends(m) ==
    /\ m \in coming /\ m \in AgentMessageType /\ m.kind = "done" /\ view.at # Nil
    /\ IsView(view') /\ view'.at = view.at /\ view'.running = FALSE
    /\ view'.history = IF m.ok THEN m.history ELSE view.history
    /\ \A r : Says(view.messages, r) => Says(view'.messages, r)
    /\ view'.approval = view.approval /\ view'.modal = view.modal
    /\ Snapshot(view') \in SnapshotType
    /\ IsPosts(posts')
    /\ BagToSet(posts') = BagToSet(posts) \cup {[type |-> "save", snapshot |-> Snapshot(view')]}
    /\ PressesKept
    /\ coming' = coming \ {m}
    /\ applied' = [applied EXCEPT ![m.run] = m.n]
    /\ UNCHANGED <<store, used, agent, chan, readers, resp, home, mixed, hasty>>

LEMMA DoneEnds ==
    ASSUME TypeInv, NEW m \in coming, HandleDone(m)
    PROVE  Ends(m)
<1>1. m \in AgentMessageType /\ IsView(view) /\ IsPosts(posts) /\ view.at # Nil
      /\ view' = Finished(view, m) /\ m.kind = "done"
  BY DEF TypeInv, RunsInv, HandleDone
<1>2. /\ IsView(view') /\ view'.at = view.at /\ view'.running = FALSE
      /\ view'.history = IF m.ok THEN m.history ELSE view.history
      /\ view'.approval = view.approval /\ view'.modal = view.modal
      /\ \A r : Says(view.messages, r) => Says(view'.messages, r)
  BY <1>1, FinishedOp
<1>3. Snapshot(view') \in SnapshotType
  BY <1>1, <1>2, SnapshotOp
<1>4. [type |-> "save", snapshot |-> Snapshot(view')] \in PostType
  BY <1>3 DEF PostType, SavePost
<1>5. posts' = BagAdd(posts, [type |-> "save", snapshot |-> Snapshot(view')])
  BY DEF HandleDone, Post
<1>6. /\ IsPosts(posts')
      /\ BagToSet(posts') = BagToSet(posts) \cup {[type |-> "save", snapshot |-> Snapshot(view')]}
  BY <1>1, <1>4, <1>5, PostAdded
<1>7. PressesKept
  BY <1>4, <1>5, KeptPresses DEF Post, IsPress
<1> QED
  BY <1>1, <1>2, <1>3, <1>6, <1>7 DEF HandleDone, Arrived, Ends

LEMMA EndsTyped ==
    ASSUME TypeInv, NEW m, Ends(m)
    PROVE  TypeInv'
<1>1. m.run \in Run /\ m.n \in Nat
  BY DEF Ends, AgentMessageType
<1>2. RunsInv'
  BY <1>1 DEF Ends, TypeInv, RunsInv
<1> QED
  BY <1>2 DEF Ends, TypeInv, StoreInv

LEMMA DropTyped ==
    ASSUME TypeInv, NEW m \in coming, DropMessage(m)
    PROVE  TypeInv'
BY DEF DropMessage, uiVars, TypeInv, StoreInv, RunsInv

(* Where what is said in the view or in a record may come from, and the      *)
(* history with it.                                                          *)
Known(id, messages, history) ==
    \/ messages = <<>> /\ history = <<>>
    \/ id = view.at /\ messages = view.messages /\ history = view.history
    \/ /\ id \in Sid /\ store[id] # Nil
       /\ messages = store[id].messages /\ history = store[id].history
    \/ \E m \in BagToSet(posts) :
          /\ m.type = "save" /\ id = m.snapshot.id
          /\ messages = m.snapshot.messages /\ history = m.snapshot.history

KnownRecords ==
    \A id \in Sid : store'[id] # Nil => Known(id, store'[id].messages, store'[id].history)

(* The session shown is the one on disk, or it has been cleared.             *)
Clean ==
    store[view.at] = Snapshot(view) \/ (view.messages = <<>> /\ view.history = <<>>)

(* The session shown, those on disk and those in snapshots on their way had  *)
(* their ids from the store.                                                 *)
IdsInv ==
    /\ view.at \in used \cup {Nil}
    /\ \A id \in Sid : store[id] # Nil => id \in used
    /\ \A m \in BagToSet(posts) : m.type = "save" => m.snapshot.id \in used

(* No snapshot of the session shown is on its way.                           *)
NoneSaved == \A m \in BagToSet(posts) : m.type = "save" => m.snapshot.id # view.at

(* Snapshots of the session shown stay on their way.                         *)
SavesStay ==
    \A m \in BagToSet(posts) :
        m.type = "save" /\ m.snapshot.id = view.at => m \in BagToSet(posts')

(* A step after which the session is clean, or no less so than before it.    *)
Keeps ==
    view'.at # Nil => Clean' \/ (~Clean /\ view'.at = view.at /\ SavesStay)

(* The application saves or changes a record, and shows another view or      *)
(* goes on with this one.                                                    *)
Moves ==
    /\ IsView(view') /\ IsPosts(posts') /\ SavesKept /\ PressesKept /\ StoreInv'
    /\ Known(view'.at, view'.messages, view'.history) /\ KnownRecords /\ Keeps
    /\ IdsInv => IdsInv'
    /\ \/ /\ view'.at = view.at /\ view'.running = view.running
          /\ view'.messages = view.messages \/ ~NoneSaved
          /\ view'.approval = view.approval /\ view'.modal = view.modal
          /\ mixed' = mixed
       \/ view'.approval = Nil /\ view'.modal = {} /\ Replaces
    /\ hasty' = hasty
    /\ UNCHANGED appOnly

(* A run starts in the session shown, which may be a new one.                *)
Begins(r) ==
    /\ agent[r].pc = "idle"
    /\ \E a \in AgentType :
          /\ a.pc = "work" /\ a.asked <= a.sent /\ a.sent = agent[r].sent
          /\ a.history = view'.history
          /\ agent' = [agent EXCEPT ![r] = a]
    /\ readers' = [readers EXCEPT ![r] = 1]
    /\ home' = [home EXCEPT ![r] = view'.at]
    /\ IsView(view') /\ view'.at # Nil /\ view'.running
    /\ \/ view'.approval = Nil /\ view'.modal = {} /\ Replaces
       \/ /\ view'.approval = view.approval /\ view'.modal = view.modal
          /\ view'.at = view.at
          /\ ~view.running /\ mixed' = mixed
    /\ \E messages \in Seq(MessageType) :
          /\ Known(view'.at, messages, view'.history)
          /\ view'.messages = Append(messages, UserMessage(r))
    /\ KnownRecords
    /\ IdsInv => IdsInv' /\ (hasty' \/ NoneSaved')
    /\ IsPosts(posts') /\ SavesKept /\ PressesKept /\ StoreInv'
    /\ hasty => hasty'
    /\ UNCHANGED <<chan, coming, resp, applied>>

LEMMA OtherSaves ==
    ASSUME TypeInv, NEW m \in BagToSet(posts), m.type # "save", posts' = Handled(m)
    PROVE  SavesStay
<1>1. ASSUME NEW n \in BagToSet(posts), n.type = "save" PROVE n \in BagToSet(posts')
  BY <1>1, OthersStay DEF TypeInv, Handled
<1> QED
  BY <1>1 DEF SavesStay

LEMMA AnswerSaves ==
    ASSUME TypeInv, NEW m \in BagToSet(posts), m.type # "save", NEW n, posts' = Answer(m, n)
    PROVE  SavesStay
<1>1. m \in PostType /\ IsPosts(posts)
  BY DEF TypeInv, IsPosts
<1>2. IsPosts(Handled(m))
  BY <1>1, PostTaken DEF Handled
<1>3. ASSUME NEW x \in BagToSet(posts), x.type = "save" PROVE x \in BagToSet(posts')
  <2>1. x \in BagToSet(Handled(m))
    BY <1>1, <1>3, OthersStay DEF Handled
  <2> QED
    BY <1>2, <2>1, OthersStay DEF Answer
<1> QED
  BY <1>3 DEF SavesStay

LEMMA SnapshotIsThere ==
    ASSUME TypeInv, NEW id \in Sid, NEW s \in SnapshotType, store[id] = s
    PROVE  store[id] # Nil
BY RecordAssumption

LEMMA TaskBegins ==
    ASSUME TypeInv, NEW r \in Run, TypeTask(r)
    PROVE  Begins(r)
<1>1. IsView(view) /\ view \in ViewType /\ view.at \in Sid /\ view.history \in Seq(Run)
      /\ view.messages \in Seq(MessageType) /\ agent[r] \in AgentType
      /\ agent[r].asked <= agent[r].sent
  BY DEF TypeInv, IsView, ViewType, RunsInv, TypeTask
<1>2. Append(view.messages, UserMessage(r)) \in Seq(MessageType)
  BY <1>1, AppendOp
<1>3. /\ IsView(view') /\ view'.at = view.at /\ view'.running /\ view'.history = view.history
      /\ view'.approval = view.approval /\ view'.modal = view.modal
      /\ view'.messages = Append(view.messages, UserMessage(r))
  BY <1>1, <1>2 DEF TypeTask, IsView, ViewType
<1> DEFINE a == [agent[r] EXCEPT !.pc = "work", !.history = view.history]
<1>4. a \in AgentType /\ a.pc = "work" /\ a.asked <= a.sent /\ a.history = view.history
      /\ a.sent = agent[r].sent
  BY <1>1 DEF AgentType
<1>5. agent' = [agent EXCEPT ![r] = a]
  BY <1>1 DEF TypeTask, RunAgent, TypeInv, RunsInv, AgentType
<1> HIDE DEF a
<1>6. StoreInv' /\ IsPosts(posts') /\ SavesKept /\ PressesKept /\ (hasty => hasty')
  BY <1>1 DEF TypeTask, RunAgent, TypeInv, StoreInv, SavesKept, PressesKept
<1>7. Known(view'.at, view.messages, view'.history) /\ KnownRecords
  BY <1>3 DEF TypeTask, Known, KnownRecords
<1>8. IdsInv => IdsInv' /\ (hasty' \/ NoneSaved')
  <2>1. UNCHANGED <<store, used, posts>> /\ view'.at = view.at /\ hasty' = (hasty \/ SavePosted)
    BY <1>3 DEF TypeTask
  <2> QED
    BY <2>1 DEF IdsInv, NoneSaved, SavePosted, Saves
<1> QED
  BY <1>1, <1>2, <1>3, <1>4, <1>5, <1>6, <1>7, <1>8 DEF TypeTask, NextRun, RunAgent, Begins

LEMMA SaveMoves ==
    ASSUME TypeInv, NEW m \in BagToSet(posts), HandleSave(m)
    PROVE  Moves
<1>1. m.snapshot \in SnapshotType /\ m.type = "save"
  BY TakenPost, PostFields DEF HandleSave, Handles
<1>2. IsPosts(posts') /\ SavesKept /\ PressesKept
  BY TakenPost, KeptPresses DEF HandleSave, Handles, IsPress
<1> DEFINE s == m.snapshot
<1>3. s.id \in Sid /\ s.id # Nil
  BY <1>1, TuiAssumption DEF SnapshotType
<1>4. store' = [store EXCEPT ![s.id] = s]
  BY <1>3 DEF HandleSave
<1>5. StoreInv'
  BY <1>1, <1>3, <1>4 DEF HandleSave, appOnly, TypeInv, StoreInv
<1>6. KnownRecords
  BY <1>1, <1>3, <1>4 DEF TypeInv, StoreInv, KnownRecords, Known
<1>7. /\ IsView(view') /\ view'.at = view.at /\ view'.running = view.running
      /\ view'.approval = view.approval /\ view'.modal = view.modal
      /\ Known(view'.at, view'.messages, view'.history) /\ Keeps
      /\ view'.messages = view.messages \/ ~NoneSaved
  <2>1. CASE view.at = Nil
    BY <2>1 DEF HandleSave, TypeInv, Known, Keeps
  <2>2. CASE view.at # Nil
    <3>1. view' = ApplySnapshot(view, s)
      BY <2>2 DEF HandleSave
    <3>2. /\ IsView(view') /\ view'.at = view.at /\ view'.running = view.running
          /\ view'.approval = view.approval /\ view'.modal = view.modal
          /\ s.id # view.at => view' = view
          /\ s.id = view.at => /\ view'.messages = s.messages /\ view'.history = s.history
                               /\ Snapshot(view') = s
      BY <1>1, <2>2, <3>1, ApplyOp DEF TypeInv
    <3>3. Known(view'.at, view'.messages, view'.history)
      BY <1>1, <3>2 DEF Known
    <3>4. view.at \in Sid
      BY <2>2 DEF TypeInv, IsView, ViewType
    <3>5. CASE s.id = view.at
      <4>1. store'[view'.at] = Snapshot(view')
        BY <1>4, <3>2, <3>4, <3>5 DEF TypeInv, StoreInv
      <4> QED
        BY <1>1, <3>2, <3>3, <3>5, <4>1 DEF Keeps, Clean, NoneSaved
    <3>6. CASE s.id # view.at
      <4>1. store'[view.at] = store[view.at] /\ view' = view
        BY <1>4, <3>2, <3>6
      <4>2. SavesStay
        <5>1. ASSUME NEW n \in BagToSet(posts), n # m PROVE n \in BagToSet(posts')
          BY <5>1, OthersStay DEF HandleSave, TypeInv, Handled
        <5> QED
          BY <3>6, <5>1 DEF SavesStay
      <4> QED
        BY <3>2, <3>3, <4>1, <4>2 DEF Keeps, Clean, Snapshot
    <3> QED
      BY <3>5, <3>6
  <2> QED
    BY <2>1, <2>2
<1>8. IdsInv => IdsInv'
  BY <1>1, <1>2, <1>3, <1>4, <1>7 DEF HandleSave, SavesKept, IdsInv, TypeInv, StoreInv
<1> QED
  BY <1>2, <1>5, <1>6, <1>7, <1>8 DEF HandleSave, appOnly, Moves

LEMMA SavedKnown ==
    ASSUME TypeInv
    PROVE  \A id \in Sid :
              Saved[id] # Nil => Known(id, Saved[id].messages, Saved[id].history)
BY SavedOp DEF Known

LEMMA SavedIds ==
    ASSUME TypeInv, IdsInv
    PROVE  \A id \in Sid : Saved[id] # Nil => id \in used
<1>1. \A id \in Sid : Saved[id] # store[id] => id = view.at /\ view.at # Nil
  BY DEF Saved, TypeInv, StoreInv
<1> QED
  BY <1>1 DEF IdsInv

LEMMA OpenMoves ==
    ASSUME TypeInv, NEW m \in BagToSet(posts), HandleOpen(m)
    PROVE  Moves
<1>1. m.id \in Sid
  BY TakenPost, PostFields DEF HandleOpen, Handles
<1>2. IsPosts(posts') /\ SavesKept /\ PressesKept
  BY TakenPost, KeptPresses DEF HandleOpen, Handles, IsPress
<1>3. /\ Saved \in [Sid -> SnapshotType \cup {Nil}]
      /\ \A id \in Sid : Saved[id] # Nil => Saved[id].id = id
      /\ \A id \in Sid :
            Saved[id] # Nil => Known(id, Saved[id].messages, Saved[id].history)
      /\ view.at # Nil => Saved[view.at] = Snapshot(view)
  BY SavedOp, SavedKnown
<1>4. store' = Saved
  BY DEF HandleOpen
<1>5. StoreInv'
  BY <1>3, <1>4 DEF HandleOpen, appOnly, Replaces, TypeInv, StoreInv
<1>6. KnownRecords
  BY <1>3, <1>4 DEF KnownRecords
<1>9. ASSUME IdsInv
      PROVE  /\ \A id \in Sid : store'[id] # Nil => id \in used'
             /\ \A n \in BagToSet(posts') : n.type = "save" => n.snapshot.id \in used'
  BY <1>2, <1>4, <1>9, SavedIds DEF HandleOpen, IdsInv, SavesKept
<1>7. CASE Saved[m.id] = Nil
  <2>1. UNCHANGED <<view, mixed>>
    BY <1>7 DEF HandleOpen
  <2>2. Keeps
    BY <1>3, <1>4, <2>1 DEF Keeps, Clean, Snapshot
  <2> QED
    BY <1>2, <1>5, <1>6, <1>9, <2>1, <2>2
       DEF HandleOpen, appOnly, Moves, TypeInv, Known, IdsInv
<1>8. CASE Saved[m.id] # Nil
  <2>1. Saved[m.id] \in SnapshotType
    BY <1>1, <1>3, <1>8
  <2>2. /\ IsView(view') /\ view'.at = m.id /\ view'.approval = Nil /\ view'.modal = {}
        /\ view'.history = Saved[m.id].history /\ view'.messages = Saved[m.id].messages
        /\ Snapshot(view') = Saved[m.id]
    <3> DEFINE t == Saved[m.id]
    <3>1. view' = Restored(t) /\ t.id = m.id
      BY <1>1, <1>3, <1>8 DEF HandleOpen
    <3> HIDE DEF t
    <3>2. t \in SnapshotType
      BY <2>1 DEF t
    <3>3. view'.modal = {} /\ view'.approval = Nil /\ view'.history = t.history
      BY <3>1, <3>2, RestoredOp
    <3>4. IsView(view') /\ view'.at = t.id /\ view'.messages = t.messages /\ Snapshot(view') = t
      BY <3>1, <3>2, RestoredOp
    <3> QED
      BY <3>1, <3>3, <3>4 DEF t
  <2>3. Keeps
    BY <1>4, <2>2 DEF Keeps, Clean, Snapshot
  <2> QED
    BY <1>1, <1>2, <1>3, <1>4, <1>5, <1>6, <1>8, <1>9, <2>2, <2>3
       DEF HandleOpen, appOnly, Moves, IdsInv
<1> QED
  BY <1>7, <1>8

LEMMA RecordAdded ==
    ASSUME TypeInv, NEW id \in Sid, NEW title \in Titles, NewRecord(id, title)
    PROVE  /\ store' \in [Sid -> SnapshotType \cup {Nil}]
           /\ \A i \in Sid : store'[i] # Nil => store'[i].id = i
           /\ used' \subseteq Sid
           /\ KnownRecords
           /\ store'[id] = Blank(id, title)
           /\ IdsInv => \A i \in Sid : store'[i] # Nil => i \in used'
           /\ used' = used \cup {id} /\ id \notin used
<1>1. /\ Saved \in [Sid -> SnapshotType \cup {Nil}]
      /\ \A i \in Sid : Saved[i] # Nil => Saved[i].id = i
      /\ \A i \in Sid : Saved[i] # Nil => Known(i, Saved[i].messages, Saved[i].history)
  BY SavedOp, SavedKnown
<1> DEFINE b == Blank(id, title)
<1>2. b \in SnapshotType /\ b.id = id /\ b.messages = <<>> /\ b.history = <<>>
  BY BlankOp
<1>3. store' = [Saved EXCEPT ![id] = b]
  BY DEF NewRecord
<1> HIDE DEF b
<1>4. used' \subseteq Sid
  BY DEF NewRecord, TypeInv, StoreInv
<1>5. Known(id, <<>>, <<>>)
  BY DEF Known
<1>6. store'[id] = b
  BY <1>1, <1>3
<1>7. IdsInv => \A i \in Sid : store'[i] # Nil => i \in used'
  BY <1>1, <1>3, SavedIds DEF NewRecord
<1>8. used' = used \cup {id} /\ id \notin used
  BY DEF NewRecord
<1> QED
  BY <1>1, <1>2, <1>3, <1>4, <1>5, <1>6, <1>7, <1>8 DEF KnownRecords, b

LEMMA CreateMoves ==
    ASSUME TypeInv, NEW m \in BagToSet(posts), NEW id \in Sid, HandleCreate(m, id)
    PROVE  Moves
<1>1. m.title \in Titles
  BY TakenPost, PostFields DEF HandleCreate, Handles
<1>2. IsPosts(posts') /\ SavesKept /\ PressesKept
  BY TakenPost, KeptPresses DEF HandleCreate, Handles, IsPress
<1>3. KnownRecords /\ StoreInv'
  BY <1>1, RecordAdded DEF HandleCreate, Replaces, appOnly, TypeInv, StoreInv
<1>4. /\ IsView(view') /\ view'.approval = Nil /\ view'.modal = {}
      /\ view'.at = id /\ view'.messages = <<>> /\ view'.history = <<>>
  <2> DEFINE b == Blank(id, m.title)
  <2>1. b \in SnapshotType /\ b.id = id /\ b.messages = <<>> /\ b.history = <<>>
    BY <1>1, BlankOp
  <2>2. view' = Restored(b)
    BY DEF HandleCreate
  <2> HIDE DEF b
  <2> QED
    BY <2>1, <2>2, RestoredOp
<1>5. Keeps
  BY <1>4 DEF Keeps, Clean
<1>6. IdsInv => IdsInv'
  BY <1>1, <1>2, <1>4, RecordAdded DEF HandleCreate, SavesKept, IdsInv
<1> QED
  BY <1>2, <1>3, <1>4, <1>5, <1>6 DEF HandleCreate, appOnly, Moves, Known

LEMMA StartBegins ==
    ASSUME TypeInv, NEW m \in BagToSet(posts), NEW id \in Sid, NEW r \in Run,
           HandleStart(m, id, r)
    PROVE  Begins(r)
<1>1. m.title \in Titles
  BY TakenPost, PostFields DEF HandleStart, Handles
<1>2. IsPosts(posts') /\ SavesKept /\ PressesKept
  BY TakenPost, KeptPresses DEF HandleStart, Handles, IsPress
<1>3. agent[r] \in AgentType /\ agent[r].asked <= agent[r].sent /\ agent[r].pc = "idle"
  BY DEF TypeInv, RunsInv, HandleStart, NextRun
<1> DEFINE w == Restored(Blank(id, m.title))
<1>4. /\ IsView(w) /\ w.approval = Nil /\ w.modal = {} /\ w.history = <<>>
      /\ w.at = id /\ id # Nil
  <2> DEFINE b == Blank(id, m.title)
  <2>1. b \in SnapshotType /\ b.id = id /\ b.history = <<>>
    BY <1>1, BlankOp
  <2> HIDE DEF b
  <2>2. /\ IsView(Restored(b)) /\ Restored(b).approval = Nil /\ Restored(b).modal = {}
        /\ Restored(b).history = b.history /\ Restored(b).at = b.id
    BY <2>1, RestoredOp
  <2> QED
    BY <2>1, <2>2, TuiAssumption DEF b
<1>5. view' = [w EXCEPT !.messages = <<UserMessage(r)>>, !.running = TRUE]
  BY DEF HandleStart
<1> HIDE DEF w
<1>6. <<UserMessage(r)>> \in Seq(MessageType)
  BY DEF UserMessage, MessageType, Texts
<1>7. /\ IsView(view') /\ view'.approval = Nil /\ view'.modal = {} /\ view'.history = <<>>
      /\ view'.at = id /\ view'.running /\ view'.messages = <<UserMessage(r)>>
  BY <1>4, <1>5, <1>6 DEF IsView, ViewType
<1> DEFINE a == [agent[r] EXCEPT !.pc = "work", !.history = <<>>]
<1>8. a \in AgentType /\ a.pc = "work" /\ a.asked <= a.sent /\ a.history = <<>>
      /\ a.sent = agent[r].sent
  <2>1. <<>> \in Seq(Run)
    OBVIOUS
  <2> QED
    BY <1>3, <2>1 DEF AgentType
<1>9. agent' = [agent EXCEPT ![r] = a]
  BY DEF HandleStart, RunAgent, TypeInv, RunsInv, AgentType
<1> HIDE DEF a
<1>10. home' = [home EXCEPT ![r] = id] /\ readers' = [readers EXCEPT ![r] = 1]
  BY DEF HandleStart, RunAgent
<1>11. KnownRecords /\ StoreInv'
  BY <1>1, <1>10, RecordAdded DEF HandleStart, Replaces, TypeInv, StoreInv
<1>12. <<>> \in Seq(MessageType) /\ view'.messages = Append(<<>>, UserMessage(r))
  BY <1>7
<1>13. IdsInv => IdsInv' /\ (hasty' \/ NoneSaved')
  <2>1. used' = used \cup {id} /\ id \notin used
        /\ (IdsInv => \A i \in Sid : store'[i] # Nil => i \in used')
    BY <1>1, RecordAdded DEF HandleStart
  <2> QED
    BY <1>2, <1>7, <2>1 DEF SavesKept, IdsInv, NoneSaved
<1> QED
  BY <1>2, <1>3, <1>4, <1>7, <1>8, <1>9, <1>10, <1>11, <1>12, <1>13
     DEF HandleStart, Begins, Known

LEMMA RenameMoves ==
    ASSUME TypeInv, NEW m \in BagToSet(posts), HandleRename(m)
    PROVE  Moves
<1>1. m.id \in Sid \cup {Nil} /\ m.title \in Titles
  BY TakenPost, PostFields DEF HandleRename, Handles
<1>2. IsPosts(posts') /\ SavesKept /\ PressesKept
  BY TakenPost, KeptPresses DEF HandleRename, Handles, IsPress
<1>3. \A id \in Sid : store'[id] # Nil =>
        /\ store[id] # Nil /\ store'[id].id = store[id].id
        /\ store'[id].messages = store[id].messages /\ store'[id].history = store[id].history
  BY <1>1 DEF HandleRename, TypeInv, StoreInv, SnapshotType
<1>4. store' \in [Sid -> SnapshotType \cup {Nil}]
  <2>1. CASE store[m.id] # Nil /\ m.id \in Sid
    <3>1. [store[m.id] EXCEPT !.title = m.title] \in SnapshotType
      <4>1. store[m.id] \in SnapshotType
        BY <2>1 DEF TypeInv, StoreInv
      <4> QED
        BY <1>1, <4>1 DEF SnapshotType
    <3>2. store' = [store EXCEPT ![m.id] = [store[m.id] EXCEPT !.title = m.title]]
      BY <2>1 DEF HandleRename
    <3> QED
      BY <3>1, <3>2 DEF TypeInv, StoreInv
  <2>2. CASE m.id \notin Sid
    BY <2>2 DEF HandleRename, TypeInv, StoreInv
  <2>3. CASE store[m.id] = Nil
    BY <2>3 DEF HandleRename, TypeInv, StoreInv
  <2> QED
    BY <2>1, <2>2, <2>3
<1>5. StoreInv'
  BY <1>3, <1>4 DEF HandleRename, appOnly, TypeInv, StoreInv
<1>6. KnownRecords
  BY <1>3 DEF KnownRecords, Known
<1>7. /\ IsView(view') /\ view'.at = view.at /\ view'.running = view.running
      /\ view'.approval = view.approval /\ view'.modal = view.modal
      /\ view'.messages = view.messages /\ view'.history = view.history
  BY <1>1 DEF HandleRename, TypeInv, IsView, ViewType
<1>8. Keeps
  <2> SUFFICES ASSUME view.at # Nil, store[view.at] = Snapshot(view)
               PROVE  store'[view.at] = Snapshot(view')
    BY <1>7, OtherSaves DEF HandleRename, Handles, Keeps, Clean
  <2>1. view.at \in Sid /\ view \in ViewType /\ Snapshot(view) \in SnapshotType
    BY SnapshotOp DEF TypeInv, IsView, ViewType
  <2>2. CASE m.id = view.at
    <3> DEFINE s == [store[m.id] EXCEPT !.title = m.title]
    <3>1. store[m.id] # Nil
      BY <2>1, <2>2, SnapshotIsThere
    <3>2. view' = [view EXCEPT !.title = m.title] /\ store' = [store EXCEPT ![m.id] = s]
      BY <2>2, <3>1 DEF HandleRename
    <3>3. s = [Snapshot(view) EXCEPT !.title = m.title]
      BY <2>2
    <3>4. store'[view.at] = s
      BY <2>1, <2>2, <3>2 DEF TypeInv, StoreInv
    <3> HIDE DEF s
    <3>5. Snapshot(view') = [Snapshot(view) EXCEPT !.title = m.title]
      BY <2>1, <3>2 DEF Snapshot, ViewType
    <3> QED
      BY <3>3, <3>4, <3>5
  <2>3. CASE m.id # view.at
    BY <2>1, <2>3 DEF HandleRename, TypeInv, StoreInv
  <2> QED
    BY <2>2, <2>3
<1>9. IdsInv => IdsInv'
  BY <1>2, <1>3, <1>7 DEF HandleRename, SavesKept, IdsInv
<1> QED
  BY <1>2, <1>5, <1>6, <1>7, <1>8, <1>9 DEF HandleRename, appOnly, Moves, Known

LEMMA DeleteMoves ==
    ASSUME TypeInv, NEW m \in BagToSet(posts), HandleDelete(m)
    PROVE  Moves
<1>1. m.id \in Sid \cup {Nil}
  BY TakenPost, PostFields DEF HandleDelete, Handles
<1>2. IsPosts(posts') /\ SavesKept /\ PressesKept
  BY TakenPost, KeptPresses DEF HandleDelete, Handles, IsPress
<1>3. \A id \in Sid : store'[id] # Nil => store'[id] = store[id]
  BY <1>1 DEF HandleDelete, TypeInv, StoreInv
<1>4. store' \in [Sid -> SnapshotType \cup {Nil}]
  BY <1>1 DEF HandleDelete, TypeInv, StoreInv
<1>5. StoreInv'
  BY <1>3, <1>4 DEF HandleDelete, appOnly, Replaces, TypeInv, StoreInv
<1>6. KnownRecords
  BY <1>3 DEF KnownRecords, Known
<1>9. ASSUME IdsInv, view'.at \in {Nil, view.at} PROVE IdsInv'
  BY <1>2, <1>3, <1>9 DEF HandleDelete, SavesKept, IdsInv
<1>7. CASE view.at = m.id
  <2>1. Summaries(store') \in SUBSET SummaryType
    BY <1>4, SummariesAreTitled
  <2>2. /\ IsView(view') /\ view'.approval = Nil /\ view'.modal = {}
        /\ view'.at = Nil /\ view'.messages = <<>> /\ view'.history = <<>>
    <3> DEFINE listed == Summaries(store')
    <3>1. view' = Welcome(listed) /\ listed \in SUBSET SummaryType
      BY <1>7, <2>1 DEF HandleDelete
    <3> HIDE DEF listed
    <3> QED
      BY <3>1, WelcomeOp
  <2> QED
    BY <1>2, <1>5, <1>6, <1>7, <1>9, <2>2 DEF HandleDelete, appOnly, Moves, Known, Keeps
<1>8. CASE view.at # m.id
  <2>1. UNCHANGED <<view, mixed>> /\ store'[view.at] = store[view.at]
    BY <1>8 DEF HandleDelete
  <2>2. Keeps
    BY <2>1, OtherSaves DEF HandleDelete, Handles, Keeps, Clean, Snapshot
  <2> QED
    BY <1>2, <1>5, <1>6, <1>9, <2>1, <2>2 DEF HandleDelete, appOnly, Moves, Known, TypeInv
<1> QED
  BY <1>7, <1>8

LEMMA MovesTyped == TypeInv /\ Moves => TypeInv'
BY DEF TypeInv, Moves, appOnly, RunsInv

LEMMA BeginsTyped ==
    ASSUME TypeInv, NEW r \in Run, Begins(r)
    PROVE  TypeInv'
<1>1. PICK a \in AgentType : a.asked <= a.sent /\ agent' = [agent EXCEPT ![r] = a]
  BY DEF Begins
<1>2. RunsInv'
  BY <1>1 DEF Begins, TypeInv, RunsInv
<1> QED
  BY <1>2 DEF Begins, TypeInv

-----------------------------------------------------------------------------
(* Keys and choices leave the snapshots on their way.                        *)
LEMMA SavesPassed ==
    ASSUME TypeInv, User \/ HandleChoice
    PROVE  SavesStay
<1>1. \/ UNCHANGED posts
      \/ \E n : posts' = Post(n)
      \/ \E m \in BagToSet(posts) :
            m.type # "save" /\ (posts' = Handled(m) \/ \E n : posts' = Answer(m, n))
  <2>1. CASE User
    BY <2>1 DEF User, PressEnter, PressEsc, PressAction, TurnPage, TogglePalette, PaletteEnter,
       PaletteEsc, Click, PressCommand, TypeTask, TypeFirstTask
  <2>2. CASE HandleChoice
    BY <2>2 DEF HandleChoice, Handles, HandleAnswer, HandleClose, Chosen, SelectSession,
       SelectNewSession, SelectRename, SelectDelete, SelectSkill, SelectOther
  <2> QED
    BY <2>1, <2>2
<1>2. ASSUME NEW n, posts' = Post(n) PROVE SavesStay
  BY <1>2, OthersStay DEF TypeInv, Post, SavesStay
<1>3. UNCHANGED posts => SavesStay
  BY DEF SavesStay
<1> QED
  BY <1>1, <1>2, <1>3, OtherSaves, AnswerSaves

LEMMA GoesOnKeeps ==
    ASSUME GoesOn, SavesStay
    PROVE  Keeps
<1>1. CASE view'.messages = <<>> /\ view'.history = <<>>
  BY <1>1 DEF Keeps, Clean
<1>2. CASE view'.messages = view.messages /\ view'.history = view.history
  <2>1. /\ view'.at = view.at /\ Snapshot(view') = Snapshot(view)
        /\ store'[view'.at] = store[view.at]
    BY <1>2 DEF GoesOn, Continues, Snapshot
  <2> QED
    BY <1>2, <2>1 DEF Keeps, Clean
<1> QED
  BY <1>1, <1>2 DEF GoesOn, Continues

(* What a step is to the runs.                                               *)
StepOfRun(r) ==
    \/ \E m, a : Sends(r, m, a)
    \/ AgentResume(r)
    \/ Receive(r)
    \/ Begins(r)

StepOfMessage(m) == Takes(m) \/ Ends(m) \/ DropMessage(m)

Step ==
    \/ GoesOn /\ Keeps /\ (ModalAsks => Presses)
    \/ Moves
    \/ \E r \in Run : StepOfRun(r)
    \/ \E m \in coming : StepOfMessage(m)

LEMMA NextSteps == TypeInv /\ [Next]_vars => Step \/ UNCHANGED vars
<1> SUFFICES ASSUME TypeInv, Next PROVE Step
  OBVIOUS
<1>1. CASE User
  <2>1. CASE \E r \in Run : TypeTask(r)
    BY <2>1, TaskBegins DEF Step, StepOfRun
  <2>2. CASE ~\E r \in Run : TypeTask(r)
    BY <1>1, <2>2, KeysGoOn, KeysPress, SavesPassed, GoesOnKeeps DEF Step
  <2> QED
    BY <2>1, <2>2
<1>2. CASE HandleChoice
  BY <1>2, ChoicesGoOn, ChoicesPress, SavesPassed, GoesOnKeeps DEF Step
<1>3. CASE HandlePost
  <2>1. PICK m \in BagToSet(posts) :
          \/ HandleAction(m) \/ HandlePalette(m) \/ HandlePaletteClose(m) \/ HandleLocal(m)
          \/ HandleSave(m) \/ HandleOpen(m) \/ HandleRename(m) \/ HandleDelete(m)
          \/ \E id \in Sid : HandleCreate(m, id)
          \/ \E id \in Sid, r \in Run : HandleStart(m, id, r)
    BY <1>3 DEF HandlePost
  <2>2. CASE HandleAction(m) \/ HandlePalette(m) \/ HandlePaletteClose(m) \/ HandleLocal(m)
    <3>1. m.type # "save" /\ (posts' = Handled(m) \/ \E n : posts' = Answer(m, n))
      BY <2>2 DEF HandleAction, HandlePalette, HandlePaletteClose, HandleLocal, Handles
    <3>2. SavesStay
      BY <3>1, OtherSaves, AnswerSaves
    <3> QED
      BY <2>2, <3>2, MessagesGoOn, MessagesPress, GoesOnKeeps DEF Step
  <2>3. CASE HandleSave(m) \/ HandleOpen(m) \/ HandleRename(m) \/ HandleDelete(m)
    BY <2>3, SaveMoves, OpenMoves, RenameMoves, DeleteMoves DEF Step
  <2>4. ASSUME NEW id \in Sid, HandleCreate(m, id) PROVE Step
    BY <2>4, CreateMoves DEF Step
  <2>5. ASSUME NEW id \in Sid, NEW r \in Run, HandleStart(m, id, r) PROVE Step
    BY <2>5, StartBegins DEF Step, StepOfRun
  <2> QED
    BY <2>1, <2>2, <2>3, <2>4, <2>5
<1>4. ASSUME NEW r \in Run, AgentNext(r) PROVE Step
  <2>1. CASE AgentResume(r)
    BY <2>1 DEF Step, StepOfRun
  <2>2. CASE ~AgentResume(r)
    BY <1>4, <2>2, AgentSends DEF Step, StepOfRun
  <2> QED
    BY <2>1, <2>2
<1>5. ASSUME NEW r \in Run, Receive(r) PROVE Step
  BY <1>5 DEF Step, StepOfRun
<1>6. ASSUME NEW r \in Run, HandleMessage(r) PROVE Step
  <2>1. PICK m \in coming :
          HandleText(m) \/ HandlePlan(m) \/ HandleQuestion(m) \/ HandleDone(m) \/ DropMessage(m)
    BY <1>6 DEF HandleMessage
  <2>2. CASE HandleText(m) \/ HandlePlan(m) \/ HandleQuestion(m)
    BY <2>2, HandlersTake DEF Step, StepOfMessage
  <2>3. CASE HandleDone(m)
    BY <2>3, DoneEnds DEF Step, StepOfMessage
  <2>4. CASE DropMessage(m)
    BY <2>4 DEF Step, StepOfMessage
  <2> QED
    BY <2>1, <2>2, <2>3, <2>4
<1> QED
  BY <1>1, <1>2, <1>3, <1>4, <1>5, <1>6 DEF Next

LEMMA StepTyped == TypeInv /\ [Next]_vars => TypeInv'
<1> SUFFICES ASSUME TypeInv, [Next]_vars PROVE TypeInv'
  OBVIOUS
<1>1. CASE UNCHANGED vars
  BY <1>1 DEF vars, TypeInv, StoreInv, RunsInv
<1>2. CASE Step
  BY <1>2, GoesOnTyped, MovesTyped, SendsTyped, ResumeTyped, ReceiveTyped, BeginsTyped,
     TakesTyped, EndsTyped, DropTyped DEF Step, StepOfRun, StepOfMessage
<1> QED
  BY <1>1, <1>2, NextSteps

(* The session shown and the records, the goroutines, their channels and     *)
(* the answers are what the code can hold.                                   *)
THEOREM SessionTypes == Spec => []TypeOK
<1>1. TypeInv => TypeOK
  <2> SUFFICES ASSUME TypeInv PROVE TypeOK
    OBVIOUS
  <2>1. ViewOK
    BY DEF TypeInv, IsView, ViewType, ItemType, SummaryType, ViewOK
  <2>2. agent \in [Run -> [pc : {"idle", "work", "last", "asking", "ended"}, planned : BOOLEAN,
                          asked : Nat, sent : Nat, history : Seq(Run)]]
    <3>1. 0 .. MaxSends \subseteq Nat
      OBVIOUS
    <3> QED
      BY <3>1 DEF TypeInv, RunsInv, AgentType
  <2> QED
    BY <2>1, <2>2 DEF TypeInv, StoreInv, IsPosts, RunsInv, TypeOK
<1> QED
  BY <1>1, InitTyped, StepTyped, PTL DEF Spec

-----------------------------------------------------------------------------
(* The channels.  A question that has not arrived is one nobody has          *)
(* answered and the view does not show.                                      *)
Pending(m) ==
    /\ agent[m.run].pc = "asking"
    /\ m.question \in Question /\ m.question = <<m.run, agent[m.run].asked>>
    /\ resp[m.question] = "waiting" /\ m.question # view.approval

(* A question and the end are the last messages of a run on their way, and   *)
(* there is either one command waiting for a message of the run or one       *)
(* message of it that has arrived.                                           *)
Channel(r) ==
    \A i \in 1 .. Len(chan[r]) :
        /\ chan[r][i].run = r
        /\ chan[r][i].kind = "ask" => i = Len(chan[r]) /\ Pending(chan[r][i])
        /\ chan[r][i].kind = "done" => i = Len(chan[r]) /\ agent[r].pc = "ended"

Arrival(r) ==
    \A m \in coming : m.run = r =>
        /\ readers[r] = 0
        /\ \A n \in coming : n.run = r => n = m
        /\ m.kind = "ask" => chan[r] = <<>> /\ Pending(m)
        /\ m.kind = "done" => chan[r] = <<>> /\ agent[r].pc = "ended"

Unborn(r) ==
    agent[r].pc = "idle" =>
        readers[r] = 0 /\ chan[r] = <<>> /\ \A m \in coming : m.run # r

Stream(r) == readers[r] \in {0, 1} /\ Channel(r) /\ Arrival(r) /\ Unborn(r)

StreamInv == (\A r \in Run : Stream(r)) /\ QuestionIsOpen

LEMMA StreamKept ==
    ASSUME TypeInv, NEW r \in Run, Stream(r),
           agent'[r] = agent[r], chan'[r] = chan[r], readers'[r] = readers[r],
           \A m \in coming' : m.run = r => m \in coming,
           \A q \in Question : q[1] = r /\ resp[q] = "waiting" /\ q # view.approval
                                  => resp'[q] = "waiting" /\ q # view'.approval
    PROVE  Stream(r)'
<1>1. ASSUME NEW m, m.run = r, Pending(m) PROVE Pending(m)'
  BY <1>1 DEF Pending
<1>2. Channel(r)'
  BY <1>1 DEF Stream, Channel
<1>3. Arrival(r)'
  BY <1>1 DEF Stream, Arrival
<1> QED
  BY <1>2, <1>3 DEF Stream, Unborn

LEMMA QuestionParts ==
    ASSUME TypeInv, view.approval # Nil
    PROVE  /\ view.approval \in Question /\ view.approval[1] \in Run
           /\ view.approval = <<view.approval[1], view.approval[2]>>
BY DEF TypeInv, IsView, ViewType, Question

LEMMA GoesOnStream == TypeInv /\ StreamInv /\ GoesOn => StreamInv'
<1> SUFFICES ASSUME TypeInv, StreamInv, GoesOn PROVE StreamInv'
  OBVIOUS
<1>1. view'.approval \in {Nil, view.approval}
  BY DEF GoesOn, Continues
<1>2. \A q \in Question : resp[q] = "waiting" /\ q # view.approval
                            => resp'[q] = "waiting" /\ q # view'.approval
  BY <1>1, TuiAssumption DEF GoesOn, Answered, TypeInv, RunsInv
<1>3. ASSUME NEW r \in Run PROVE Stream(r)'
  BY <1>2, StreamKept DEF GoesOn, StreamInv
<1>4. QuestionIsOpen'
  BY DEF GoesOn, Continues, Answered, StreamInv, QuestionIsOpen
<1> QED
  BY <1>3, <1>4 DEF StreamInv

LEMMA MovesStream == TypeInv /\ StreamInv /\ Moves => StreamInv'
<1> SUFFICES ASSUME TypeInv, StreamInv, Moves PROVE StreamInv'
  OBVIOUS
<1>1. view'.approval \in {Nil, view.approval}
  BY DEF Moves
<1>2. \A q \in Question : resp[q] = "waiting" /\ q # view.approval
                            => resp'[q] = "waiting" /\ q # view'.approval
  BY <1>1, TuiAssumption DEF Moves, appOnly
<1>3. ASSUME NEW r \in Run PROVE Stream(r)'
  BY <1>2, StreamKept DEF Moves, appOnly, StreamInv
<1>4. QuestionIsOpen'
  BY DEF Moves, appOnly, StreamInv, QuestionIsOpen, Open
<1> QED
  BY <1>3, <1>4 DEF StreamInv

LEMMA BeginsStream ==
    ASSUME TypeInv, StreamInv, NEW r \in Run, Begins(r)
    PROVE  StreamInv'
<1>1. view'.approval \in {Nil, view.approval} /\ UNCHANGED resp
  BY DEF Begins
<1>2. \A q \in Question : resp[q] = "waiting" /\ q # view.approval
                            => resp'[q] = "waiting" /\ q # view'.approval
  BY <1>1, TuiAssumption
<1>3. /\ \A p \in Run : p # r => agent'[p] = agent[p] /\ readers'[p] = readers[p]
      /\ agent'[r].pc = "work" /\ readers'[r] = 1 /\ agent[r].pc = "idle"
      /\ UNCHANGED <<chan, coming>>
  BY DEF Begins, TypeInv, RunsInv
<1>4. ASSUME NEW p \in Run, p # r PROVE Stream(p)'
  BY <1>2, <1>3, <1>4, StreamKept DEF StreamInv
<1>5. Stream(r)'
  BY <1>3 DEF StreamInv, Stream, Unborn, Channel, Arrival
<1>6. QuestionIsOpen'
  BY <1>3, QuestionParts DEF Begins, StreamInv, QuestionIsOpen, Open
<1> QED
  BY <1>4, <1>5, <1>6 DEF StreamInv

LEMMA SendsStream ==
    ASSUME TypeInv, StreamInv, NEW r \in Run, NEW m, NEW a, Sends(r, m, a)
    PROVE  StreamInv'
<1>1. /\ \A p \in Run : p # r => agent'[p] = agent[p] /\ chan'[p] = chan[p]
      /\ agent'[r] = a /\ chan'[r] = Append(chan[r], m)
      /\ agent[r].pc \in {"work", "last"} /\ a.pc # "idle"
      /\ chan[r] \in Seq(AgentMessageType) /\ m \in AgentMessageType /\ m.run = r
      /\ UNCHANGED <<view, readers, coming>>
  BY DEF Sends, uiVars, TypeInv, RunsInv
<1>2. view.approval # Nil => view.approval[1] # r
  BY <1>1 DEF StreamInv, QuestionIsOpen
<1>3. ASSUME NEW p \in Run, p # r PROVE Stream(p)'
  <2>1. \A q \in Question : q[1] = p /\ resp[q] = "waiting" => resp'[q] = "waiting"
    BY DEF Sends, TypeInv, RunsInv
  <2> QED
    BY <1>1, <1>3, <2>1, StreamKept DEF StreamInv
<1>4. m.kind = "ask" => Pending(m)'
  <2> SUFFICES ASSUME m.kind = "ask" PROVE Pending(m)'
    OBVIOUS
  <2>1. m.question = <<r, a.asked>> /\ m.question \in Question /\ a.pc = "asking"
        /\ resp' = [resp EXCEPT ![m.question] = "waiting"]
    BY DEF Sends
  <2>2. m.question # view.approval
    BY <1>2, <2>1, TuiAssumption
  <2> QED
    BY <1>1, <2>1, <2>2 DEF Pending, TypeInv, RunsInv
<1>5. m.kind = "done" => a.pc = "ended"
  BY DEF Sends
<1>6. Stream(r)'
  <2>1. Stream(r)
    BY DEF StreamInv
  <2>2. \A i \in 1 .. Len(chan[r]) :
           chan[r][i].run = r /\ chan[r][i].kind # "ask" /\ chan[r][i].kind # "done"
    BY <1>1, <2>1 DEF Stream, Channel, Pending
  <2>3. \A n \in coming : n.run = r => n.kind # "ask" /\ n.kind # "done"
    BY <1>1, <2>1 DEF Stream, Arrival, Pending
  <2> DEFINE c == chan'[r]
             P(n) == /\ agent'[n.run].pc = "asking"
                     /\ n.question \in Question /\ n.question = <<n.run, agent'[n.run].asked>>
                     /\ resp'[n.question] = "waiting" /\ n.question # view'.approval
  <2>4. /\ Len(c) = Len(chan[r]) + 1 /\ Len(chan[r]) \in Nat /\ c[Len(c)] = m
        /\ \A i \in 1 .. Len(c) : i # Len(c) => i \in 1 .. Len(chan[r]) /\ c[i] = chan[r][i]
    BY <1>1
  <2>5. m.kind = "ask" => P(m)
    BY <1>4 DEF Pending
  <2> HIDE DEF c, P
  <2>6. Channel(r)'
    <3>1. ASSUME NEW i \in 1 .. Len(c)
          PROVE  /\ c[i].run = r
                 /\ c[i].kind = "ask" => i = Len(c) /\ P(c[i])
                 /\ c[i].kind = "done" => i = Len(c) /\ a.pc = "ended"
      <4>1. CASE i = Len(c)
        BY <1>1, <1>5, <2>4, <2>5, <4>1
      <4>2. CASE i # Len(c)
        BY <2>2, <2>4, <3>1, <4>2
      <4> QED
        BY <4>1, <4>2
    <3> QED
      BY <1>1, <3>1 DEF Channel, c, P, Pending
  <2>7. Arrival(r)'
    BY <1>1, <2>1, <2>3 DEF Stream, Arrival
  <2> QED
    BY <1>1, <2>1, <2>6, <2>7 DEF Stream, Unborn
<1>7. QuestionIsOpen'
  <2> SUFFICES ASSUME view.approval # Nil PROVE QuestionIsOpen'
    BY <1>1 DEF QuestionIsOpen
  <2>1. /\ view.approval \in Question /\ view.approval[1] \in Run /\ view.approval[1] # r
    BY <1>2, QuestionParts
  <2>2. resp'[view.approval] = "waiting"
    BY <2>1 DEF Sends, TypeInv, RunsInv, StreamInv, QuestionIsOpen
  <2> QED
    BY <1>1, <2>1, <2>2 DEF StreamInv, QuestionIsOpen, Open
<1> QED
  BY <1>3, <1>6, <1>7 DEF StreamInv

LEMMA ResumeStream ==
    ASSUME TypeInv, StreamInv, NEW r \in Run, AgentResume(r)
    PROVE  StreamInv'
<1> DEFINE q == <<r, agent[r].asked>>
<1>1. /\ agent[r].pc = "asking" /\ resp[q] \in Label
      /\ resp' = [resp EXCEPT ![q] = "none"]
      /\ agent' = [agent EXCEPT ![r].pc = "work"]
      /\ UNCHANGED <<view, chan, readers, coming>>
  BY DEF AgentResume, uiVars
<1>2. resp[q] # "waiting"
  BY <1>1, TuiAssumption DEF Label, Approving
<1>3. /\ \A p \in Run : p # r => agent'[p] = agent[p]
      /\ agent'[r].pc = "work"
  BY <1>1 DEF TypeInv, RunsInv, AgentType
<1>4. ASSUME NEW p \in Run, p # r PROVE Stream(p)'
  <2>1. \A x \in Question : x[1] = p /\ resp[x] = "waiting" => resp'[x] = "waiting"
    BY <1>1, <1>4 DEF TypeInv, RunsInv
  <2> QED
    BY <1>1, <1>3, <1>4, <2>1, StreamKept DEF StreamInv
<1>5. Stream(r)'
  <2>1. Stream(r)
    BY DEF StreamInv
  <2>2. Channel(r)'
    BY <1>1, <1>2, <1>3, <2>1 DEF Stream, Channel, Pending
  <2>3. Arrival(r)'
    BY <1>1, <1>2, <1>3, <2>1 DEF Stream, Arrival, Pending
  <2> QED
    BY <1>1, <1>3, <2>1, <2>2, <2>3 DEF Stream, Unborn
<1>6. QuestionIsOpen'
  <2> SUFFICES ASSUME view.approval # Nil PROVE QuestionIsOpen'
    BY <1>1 DEF QuestionIsOpen
  <2>1. /\ view.approval \in Question /\ view.approval[1] \in Run /\ view.approval[1] # r
    BY <1>2, QuestionParts DEF StreamInv, QuestionIsOpen
  <2>2. resp'[view.approval] = "waiting"
    BY <1>1, <2>1 DEF TypeInv, RunsInv, StreamInv, QuestionIsOpen
  <2> QED
    BY <1>1, <1>3, <2>1, <2>2 DEF StreamInv, QuestionIsOpen, Open
<1> QED
  BY <1>4, <1>5, <1>6 DEF StreamInv

LEMMA ReceiveStream ==
    ASSUME TypeInv, StreamInv, NEW r \in Run, Receive(r)
    PROVE  StreamInv'
<1> DEFINE m == Head(chan[r])
<1>1. /\ UNCHANGED <<view, agent, resp>>
      /\ coming' = coming \cup {m}
      /\ \A p \in Run : p # r => chan'[p] = chan[p] /\ readers'[p] = readers[p]
      /\ chan'[r] = Tail(chan[r]) /\ readers'[r] = readers[r] - 1
      /\ readers[r] > 0 /\ chan[r] # <<>> /\ chan[r] \in Seq(AgentMessageType)
      /\ m = chan[r][1]
  BY DEF Receive, uiVars, TypeInv, RunsInv
<1>2. Stream(r)
  BY DEF StreamInv
<1>3. m.run = r
  BY <1>1, <1>2 DEF Stream, Channel
<1>4. readers'[r] = 0 /\ \A n \in coming : n.run # r
  BY <1>1, <1>2 DEF Stream, Arrival
<1>5. agent[r].pc # "idle"
  BY <1>1, <1>2 DEF Stream, Unborn
<1> HIDE DEF m
<1>6. ASSUME NEW p \in Run, p # r PROVE Stream(p)'
  BY <1>1, <1>3, <1>6, StreamKept DEF StreamInv
<1>7. Channel(r)'
  <2> DEFINE c == Tail(chan[r])
  <2>1. /\ Len(c) = Len(chan[r]) - 1 /\ Len(chan[r]) \in Nat
        /\ \A i \in 1 .. Len(c) : i + 1 \in 1 .. Len(chan[r]) /\ c[i] = chan[r][i + 1]
    BY <1>1
  <2> HIDE DEF c
  <2>2. \A i \in 1 .. Len(c) :
           /\ c[i].run = r
           /\ c[i].kind = "ask" => i = Len(c) /\ Pending(c[i])
           /\ c[i].kind = "done" => i = Len(c) /\ agent[r].pc = "ended"
    BY <1>2, <2>1 DEF Stream, Channel
  <2> QED
    BY <1>1, <2>2 DEF Channel, Pending, c
<1>8. /\ m.kind = "ask" => chan'[r] = <<>> /\ Pending(m)
      /\ m.kind = "done" => chan'[r] = <<>> /\ agent[r].pc = "ended"
  <2>1. 1 \in 1 .. Len(chan[r])
    BY <1>1
  <2>2. Len(chan[r]) = 1 => Tail(chan[r]) = <<>>
    <3> SUFFICES ASSUME Len(chan[r]) = 1 PROVE Tail(chan[r]) = <<>>
      OBVIOUS
    <3> DEFINE t == Tail(chan[r])
    <3>1. t \in Seq(AgentMessageType) /\ Len(t) = 0
      BY <1>1
    <3> HIDE DEF t
    <3>2. t = <<>>
      BY <3>1, EmptySeq
    <3> QED
      BY <3>2 DEF t
  <2> QED
    BY <1>1, <1>2, <2>1, <2>2 DEF Stream, Channel
<1>9. Arrival(r)'
  BY ZenonT(60), <1>1, <1>4, <1>8 DEF Arrival, Pending
<1>10. Stream(r)'
  BY <1>1, <1>4, <1>5, <1>7, <1>9 DEF Stream, Unborn
<1>11. QuestionIsOpen'
  BY <1>1 DEF StreamInv, QuestionIsOpen, Open
<1> QED
  BY <1>6, <1>10, <1>11 DEF StreamInv

LEMMA TakesStream ==
    ASSUME TypeInv, StreamInv, NEW m, Takes(m)
    PROVE  StreamInv'
<1> DEFINE r == m.run
<1>1. /\ r \in Run /\ m \in coming /\ Stream(r)
      /\ UNCHANGED <<agent, chan, resp>>
      /\ coming' = coming \ {m}
      /\ \A p \in Run : p # r => readers'[p] = readers[p]
      /\ readers'[r] = readers[r] + 1
  BY DEF Takes, AgentMessageType, StreamInv, TypeInv, RunsInv
<1>2. /\ readers'[r] = 1 /\ \A n \in coming' : n.run # r
      /\ agent[r].pc # "idle"
  BY <1>1 DEF Stream, Arrival, Unborn
<1>3. m.kind = "ask" => chan[r] = <<>> /\ Pending(m)
  BY <1>1 DEF Stream, Arrival
<1> HIDE DEF r
<1>4. ASSUME NEW q \in Question, q # view.approval, q[1] # r \/ m.kind # "ask"
      PROVE  q # view'.approval
  BY <1>3, <1>4 DEF Takes, Pending, r
<1>5. ASSUME NEW p \in Run, p # r PROVE Stream(p)'
  BY <1>1, <1>4, <1>5, StreamKept DEF StreamInv
<1>6. Channel(r)'
  <2>1. CASE chan[r] = <<>>
    BY <1>1, <2>1 DEF Channel
  <2>2. CASE chan[r] # <<>>
    <3>1. UNCHANGED view.approval
      BY <1>3, <2>2 DEF Takes
    <3> QED
      BY <1>1, <3>1 DEF Stream, Channel, Pending
  <2> QED
    BY <2>1, <2>2
<1>7. Stream(r)'
  BY <1>1, <1>2, <1>6 DEF Stream, Arrival, Unborn
<1>8. QuestionIsOpen'
  BY <1>1, <1>3 DEF Takes, StreamInv, QuestionIsOpen, Open, Pending
<1> QED
  BY <1>5, <1>7, <1>8 DEF StreamInv

LEMMA EndsStream ==
    ASSUME TypeInv, StreamInv, NEW m, Ends(m) \/ DropMessage(m)
    PROVE  StreamInv'
<1>1. /\ view'.approval = view.approval /\ view'.modal = view.modal
      /\ coming' = coming \ {m}
      /\ UNCHANGED <<agent, chan, readers, resp>>
  BY DEF Ends, DropMessage, uiVars
<1>2. ASSUME NEW r \in Run PROVE Stream(r)'
  BY <1>1, StreamKept DEF StreamInv
<1>3. QuestionIsOpen'
  BY <1>1 DEF StreamInv, QuestionIsOpen, Open
<1> QED
  BY <1>2, <1>3 DEF StreamInv

LEMMA StepStream == TypeInv /\ StreamInv /\ [Next]_vars => StreamInv'
<1> SUFFICES ASSUME TypeInv, StreamInv, [Next]_vars PROVE StreamInv'
  OBVIOUS
<1>1. CASE UNCHANGED vars
  BY <1>1 DEF vars, StreamInv, QuestionIsOpen, Stream, Channel, Arrival, Unborn, Pending, Open
<1>2. CASE Step
  BY <1>2, GoesOnStream, MovesStream, SendsStream, ResumeStream, ReceiveStream, BeginsStream,
     TakesStream, EndsStream DEF Step, StepOfRun, StepOfMessage
<1> QED
  BY <1>1, <1>2, NextSteps

LEMMA InitStream == Init => StreamInv
<1> SUFFICES ASSUME Init PROVE StreamInv
  OBVIOUS
<1>1. view.approval = Nil
  BY WelcomeOp DEF Init
<1>2. ASSUME NEW r \in Run PROVE Stream(r)
  <2>1. readers[r] = 0 /\ chan[r] = <<>> /\ coming = {}
    BY DEF Init
  <2>2. Len(chan[r]) = 0
    BY <2>1
  <2> QED
    BY <2>1, <2>2 DEF Stream, Channel, Arrival, Unborn
<1> QED
  BY <1>1, <1>2 DEF StreamInv, QuestionIsOpen

(* A question the view holds is one its agent waits on, its channel has      *)
(* room for the answer, and the modal is open.                               *)
THEOREM QuestionsStayOpen == Spec => []QuestionIsOpen
<1>1. Init => TypeInv /\ StreamInv
  BY InitTyped, InitStream
<1>2. TypeInv /\ StreamInv /\ [Next]_vars => TypeInv' /\ StreamInv'
  BY StepTyped, StepStream
<1>3. StreamInv => QuestionIsOpen
  BY DEF StreamInv
<1> QED
  BY <1>1, <1>2, <1>3, PTL DEF Spec

-----------------------------------------------------------------------------
(* The run in progress is the one the view shows as running.                 *)
OneRunInv ==
    ~mixed => \A r \in Run : InProgress(r) =>
                 /\ view.running /\ view.at # Nil
                 /\ \A p \in Run : InProgress(p) => p = r

(* A step that starts nothing.                                               *)
LEMMA OneRunKept ==
    ASSUME OneRunInv, mixed' = mixed, view'.running = view.running, view'.at = view.at,
           \A r \in Run : InProgress(r)' => InProgress(r)
    PROVE  OneRunInv'
BY DEF OneRunInv

LEMMA GoesOnOneRun == TypeInv /\ OneRunInv /\ (GoesOn \/ Moves) => OneRunInv'
<1> SUFFICES ASSUME TypeInv, OneRunInv, GoesOn \/ Moves PROVE OneRunInv'
  OBVIOUS
<1>1. \A r \in Run : InProgress(r)' <=> InProgress(r)
  BY DEF GoesOn, Moves, appOnly, InProgress
<1>2. CASE mixed' = mixed /\ view'.running = view.running /\ view'.at = view.at
  BY <1>1, <1>2, OneRunKept
<1>3. CASE Replaces
  BY <1>1, <1>3 DEF Replaces, OneRunInv
<1> QED
  BY <1>2, <1>3 DEF GoesOn, Continues, Moves

(* When the view may start a run, none is in progress.                       *)
LEMMA NoneBefore ==
    ASSUME OneRunInv, NEW r \in Run, Begins(r), ~mixed'
    PROVE  ~mixed /\ \A p \in Run : ~InProgress(p)
<1>1. CASE Replaces
  BY <1>1 DEF Replaces
<1>2. CASE ~view.running /\ mixed' = mixed
  BY <1>2 DEF OneRunInv
<1> QED
  BY <1>1, <1>2 DEF Begins

LEMMA BeginsOneRun ==
    ASSUME TypeInv, OneRunInv, NEW r \in Run, Begins(r)
    PROVE  OneRunInv'
<1>1. ASSUME NEW p \in Run, p # r, InProgress(p)' PROVE InProgress(p)
  BY <1>1 DEF Begins, TypeInv, RunsInv, InProgress
<1>2. view'.at # Nil /\ view'.running
  BY DEF Begins
<1> QED
  BY <1>1, <1>2, NoneBefore DEF OneRunInv

LEMMA RunOneRun ==
    ASSUME TypeInv, StreamInv, OneRunInv, NEW r \in Run,
           (\E m, a : Sends(r, m, a)) \/ AgentResume(r) \/ Receive(r)
    PROVE  OneRunInv'
<1>1. UNCHANGED <<view, mixed>>
  BY DEF Sends, AgentResume, Receive, uiVars
<1>2. InProgress(r)
  BY DEF Sends, AgentResume, Receive, InProgress
<1>3. ASSUME NEW p \in Run, p # r, InProgress(p)' PROVE InProgress(p)
  <2>1. CASE (\E m, a : Sends(r, m, a)) \/ AgentResume(r)
    BY <1>3, <2>1 DEF Sends, AgentResume, TypeInv, RunsInv, InProgress
  <2>2. CASE Receive(r)
    <3>1. Head(chan[r]).run = r
      <4>1. chan[r] \in Seq(AgentMessageType) /\ chan[r] # <<>>
        BY <2>2 DEF Receive, TypeInv, RunsInv
      <4>2. 1 \in 1 .. Len(chan[r]) /\ Head(chan[r]) = chan[r][1]
        BY <4>1
      <4> QED
        BY <4>2 DEF StreamInv, Stream, Channel
    <3> QED
      BY <1>3, <2>2, <3>1 DEF Receive, uiVars, TypeInv, RunsInv, InProgress
  <2> QED
    BY <2>1, <2>2
<1> QED
  BY <1>1, <1>2, <1>3, OneRunKept

LEMMA TakesOneRun ==
    ASSUME TypeInv, OneRunInv, NEW m, Takes(m)
    PROVE  OneRunInv'
<1>1. m.run \in Run /\ InProgress(m.run)
  BY DEF Takes, AgentMessageType, InProgress
<1>2. ASSUME NEW p \in Run, InProgress(p)' PROVE InProgress(p)
  BY <1>1, <1>2 DEF Takes, TypeInv, RunsInv, InProgress
<1> QED
  BY <1>2, OneRunKept DEF Takes

LEMMA DropOneRun ==
    ASSUME TypeInv, OneRunInv, NEW m \in coming, DropMessage(m)
    PROVE  OneRunInv'
<1>1. ASSUME NEW p \in Run, InProgress(p)' PROVE InProgress(p)
  BY <1>1 DEF DropMessage, InProgress
<1> QED
  BY <1>1, OneRunKept DEF DropMessage, uiVars

(* After its last message nothing of a run is left.                          *)
LEMMA EndsLast ==
    ASSUME TypeInv, StreamInv, NEW m, Ends(m)
    PROVE  /\ m.run \in Run /\ InProgress(m.run)
           /\ ~InProgress(m.run)'
           /\ \A p \in Run : InProgress(p)' => InProgress(p)
<1>1. m.run \in Run /\ m \in coming
  BY DEF Ends, AgentMessageType
<1>2. /\ agent[m.run].pc = "ended" /\ readers[m.run] = 0
      /\ \A n \in coming : n.run = m.run => n = m
  BY <1>1 DEF Ends, StreamInv, Stream, Arrival
<1> QED
  BY <1>1, <1>2 DEF Ends, InProgress

LEMMA EndsOneRun ==
    ASSUME TypeInv, StreamInv, OneRunInv, NEW m, Ends(m)
    PROVE  OneRunInv'
BY EndsLast DEF Ends, OneRunInv

LEMMA StepOneRun == TypeInv /\ StreamInv /\ OneRunInv /\ [Next]_vars => OneRunInv'
<1> SUFFICES ASSUME TypeInv, StreamInv, OneRunInv, [Next]_vars PROVE OneRunInv'
  OBVIOUS
<1>1. CASE UNCHANGED vars
  BY <1>1 DEF vars, OneRunInv, InProgress
<1>2. CASE Step
  BY <1>2, GoesOnOneRun, BeginsOneRun, RunOneRun, TakesOneRun, EndsOneRun, DropOneRun
     DEF Step, StepOfRun, StepOfMessage
<1> QED
  BY <1>1, <1>2, NextSteps

(* Until a view is replaced under a run, one agent works at a time.          *)
THEOREM OneRunWorks == Spec => []OneRunAtATime
<1>1. Init => TypeInv /\ StreamInv /\ OneRunInv
  <2> SUFFICES ASSUME Init PROVE OneRunInv
    BY InitTyped, InitStream
  <2> QED
    BY DEF Init, Idle, OneRunInv, InProgress
<1>2. TypeInv /\ StreamInv /\ OneRunInv /\ [Next]_vars => TypeInv' /\ StreamInv' /\ OneRunInv'
  BY StepTyped, StepStream, StepOneRun
<1>3. OneRunInv => OneRunAtATime
  BY DEF OneRunInv, OneRunAtATime
<1> QED
  BY <1>1, <1>2, <1>3, PTL DEF Spec

-----------------------------------------------------------------------------
(* The histories.                                                            *)
Homes == \A r \in Run : agent[r].pc = "idle" <=> home[r] = Nil

ViewOwn == Own(view.at, view.history)
RecordsOwn == \A id \in Sid : store[id] # Nil => Own(id, store[id].history)
SavesOwn ==
    \A m \in BagToSet(posts) : m.type = "save" => Own(m.snapshot.id, m.snapshot.history)
AgentsOwn ==
    \A r \in Run : agent[r].pc \in {"work", "last", "asking"} => Own(home[r], agent[r].history)
ResultsOwn ==
    /\ \A r \in Run : \A i \in 1 .. Len(chan[r]) :
          chan[r][i].kind = "done" /\ chan[r][i].ok => Own(home[r], chan[r][i].history)
    /\ \A m \in coming : m.kind = "done" /\ m.ok => Own(home[m.run], m.history)
RunsAtHome == \A r \in Run : InProgress(r) => home[r] = view.at

AllOwn == ViewOwn /\ RecordsOwn /\ SavesOwn /\ AgentsOwn /\ ResultsOwn /\ RunsAtHome

HistoryInv == Homes /\ (~mixed => AllOwn)

LEMMA KnownOwn ==
    ASSUME AllOwn, NEW id, NEW messages, NEW history, Known(id, messages, history)
    PROVE  Own(id, history)
<1>1. Own(id, <<>>)
  BY DEF Own
<1> QED
  BY <1>1 DEF Known, AllOwn, ViewOwn, RecordsOwn, SavesOwn

(* A step that leaves the runs where they are.                               *)
LEMMA HistoryKept ==
    ASSUME HistoryInv, UNCHANGED home, Homes', mixed' = mixed,
           ~mixed /\ AllOwn => AllOwn'
    PROVE  HistoryInv'
BY DEF HistoryInv

LEMMA GoesOnHistory == TypeInv /\ HistoryInv /\ GoesOn => HistoryInv'
<1> SUFFICES ASSUME TypeInv, HistoryInv, GoesOn PROVE HistoryInv'
  OBVIOUS
<1>1. UNCHANGED <<store, agent, chan, readers, coming, home, mixed>>
  BY DEF GoesOn
<1>2. Homes'
  BY <1>1 DEF HistoryInv, Homes
<1>3. ASSUME AllOwn PROVE AllOwn'
  <2>1. ViewOwn'
    <3>1. view'.at = view.at /\ view'.history \in {view.history, <<>>}
      BY DEF GoesOn, Continues
    <3>2. DOMAIN <<>> = {}
      OBVIOUS
    <3> QED
      BY <1>1, <1>3, <3>1, <3>2 DEF AllOwn, ViewOwn, Own
  <2>2. SavesOwn'
    BY <1>1, <1>3 DEF GoesOn, SavesKept, AllOwn, SavesOwn, Own
  <2>3. RecordsOwn' /\ AgentsOwn' /\ ResultsOwn'
    BY <1>1, <1>3 DEF AllOwn, RecordsOwn, AgentsOwn, ResultsOwn, Own
  <2>4. RunsAtHome'
    BY <1>1, <1>3 DEF GoesOn, Continues, AllOwn, RunsAtHome, InProgress
  <2> QED
    BY <2>1, <2>2, <2>3, <2>4 DEF AllOwn
<1> QED
  BY <1>1, <1>2, <1>3, HistoryKept

LEMMA MovesHistory == TypeInv /\ HistoryInv /\ Moves => HistoryInv'
<1> SUFFICES ASSUME TypeInv, HistoryInv, Moves PROVE HistoryInv'
  OBVIOUS
<1>1. UNCHANGED <<agent, chan, readers, coming, home>>
  BY DEF Moves, appOnly
<1>2. Homes'
  BY <1>1 DEF HistoryInv, Homes
<1>3. ~mixed' => ~mixed
  BY DEF Moves, Replaces
<1>4. ASSUME AllOwn, ~mixed' PROVE AllOwn'
  <2>1. ViewOwn'
    <3>1. Own(view'.at, view'.history)
      BY <1>4, KnownOwn DEF Moves
    <3> QED
      BY <1>1, <3>1 DEF ViewOwn, Own
  <2>2. RecordsOwn'
    <3>1. \A id \in Sid : store'[id] # Nil => Own(id, store'[id].history)
      BY <1>4, KnownOwn DEF Moves, KnownRecords
    <3> QED
      BY <1>1, <3>1 DEF RecordsOwn, Own
  <2>3. SavesOwn'
    BY <1>1, <1>4 DEF Moves, SavesKept, AllOwn, SavesOwn, Own
  <2>4. AgentsOwn' /\ ResultsOwn'
    BY <1>1, <1>4 DEF AllOwn, AgentsOwn, ResultsOwn, Own
  <2>5. RunsAtHome'
    BY <1>1, <1>4 DEF Moves, Replaces, AllOwn, RunsAtHome, InProgress
  <2> QED
    BY <2>1, <2>2, <2>3, <2>4, <2>5 DEF AllOwn
<1> QED
  BY <1>2, <1>3, <1>4 DEF HistoryInv

LEMMA SendsHistory ==
    ASSUME TypeInv, HistoryInv, NEW r \in Run, NEW m, NEW a, Sends(r, m, a)
    PROVE  HistoryInv'
<1>1. /\ UNCHANGED <<view, store, posts, readers, coming, home, mixed>>
      /\ \A p \in Run : p # r => agent'[p] = agent[p] /\ chan'[p] = chan[p]
      /\ agent'[r] = a /\ chan'[r] = Append(chan[r], m)
      /\ agent[r].pc \in {"work", "last"} /\ a.pc # "idle"
      /\ chan[r] \in Seq(AgentMessageType) /\ m \in AgentMessageType /\ m.run = r
  BY DEF Sends, uiVars, TypeInv, RunsInv
<1>2. Homes'
  BY <1>1 DEF HistoryInv, Homes
<1>3. ASSUME AllOwn PROVE AllOwn'
  <2>1. ViewOwn' /\ RecordsOwn' /\ SavesOwn'
    BY <1>1, <1>3 DEF AllOwn, ViewOwn, RecordsOwn, SavesOwn, Own
  <2>2. AgentsOwn'
    <3>1. a.pc \in {"work", "last", "asking"} => a.history = agent[r].history
      BY DEF Sends
    <3> QED
      BY <1>1, <1>3, <3>1 DEF AllOwn, AgentsOwn, Own
  <2>3. m.kind = "done" /\ m.ok => Own(home[r], m.history)
    <3> SUFFICES ASSUME m.kind = "done", m.ok PROVE Own(home[r], m.history)
      OBVIOUS
    <3> DEFINE h == agent[r].history
    <3>1. m.history = Append(h, r) /\ h \in Seq(Run)
      BY DEF Sends, TypeInv, RunsInv, AgentType
    <3>2. Own(home[r], h)
      BY <1>1, <1>3 DEF AllOwn, AgentsOwn
    <3> HIDE DEF h
    <3> QED
      BY <3>1, <3>2 DEF Own
  <2>4. ResultsOwn'
    <3> DEFINE c == Append(chan[r], m)
    <3>1. /\ Len(c) = Len(chan[r]) + 1 /\ Len(chan[r]) \in Nat /\ c[Len(c)] = m
          /\ \A i \in 1 .. Len(c) : i # Len(c) => i \in 1 .. Len(chan[r]) /\ c[i] = chan[r][i]
      BY <1>1
    <3> HIDE DEF c
    <3>2. ASSUME NEW i \in 1 .. Len(c), c[i].kind = "done", c[i].ok
          PROVE  Own(home[r], c[i].history)
      <4>1. CASE i = Len(c)
        BY <2>3, <3>1, <3>2, <4>1
      <4>2. CASE i # Len(c)
        BY <1>3, <3>1, <3>2, <4>2 DEF AllOwn, ResultsOwn
      <4> QED
        BY <4>1, <4>2
    <3>3. ASSUME NEW p \in Run, NEW i \in 1 .. Len(chan'[p]),
                 chan'[p][i].kind = "done", chan'[p][i].ok
          PROVE  Own(home[p], chan'[p][i].history)
      <4>1. CASE p = r
        BY <1>1, <3>2, <3>3, <4>1 DEF c
      <4>2. CASE p # r
        BY <1>1, <1>3, <3>3, <4>2 DEF AllOwn, ResultsOwn
      <4> QED
        BY <4>1, <4>2
    <3>4. \A n \in coming : n.kind = "done" /\ n.ok => Own(home[n.run], n.history)
      BY <1>3 DEF AllOwn, ResultsOwn
    <3> QED
      BY <1>1, <3>3, <3>4 DEF ResultsOwn, Own
  <2>5. RunsAtHome'
    <3>1. \A p \in Run : InProgress(p)' => InProgress(p)
      BY <1>1 DEF InProgress
    <3> QED
      BY <1>1, <1>3, <3>1 DEF AllOwn, RunsAtHome
  <2> QED
    BY <2>1, <2>2, <2>4, <2>5 DEF AllOwn
<1> QED
  BY <1>1, <1>2, <1>3, HistoryKept

LEMMA ResumeHistory ==
    ASSUME TypeInv, HistoryInv, NEW r \in Run, AgentResume(r)
    PROVE  HistoryInv'
<1>1. /\ UNCHANGED <<view, store, posts, chan, readers, coming, home, mixed>>
      /\ \A p \in Run : p # r => agent'[p] = agent[p]
      /\ agent[r].pc = "asking" /\ agent'[r].pc = "work"
      /\ agent'[r].history = agent[r].history
  BY DEF AgentResume, uiVars, TypeInv, RunsInv, AgentType
<1>2. Homes'
  BY <1>1 DEF HistoryInv, Homes
<1>3. ASSUME AllOwn PROVE AllOwn'
  <2>1. ViewOwn' /\ RecordsOwn' /\ SavesOwn' /\ ResultsOwn'
    BY <1>1, <1>3 DEF AllOwn, ViewOwn, RecordsOwn, SavesOwn, ResultsOwn, Own
  <2>2. AgentsOwn'
    BY <1>1, <1>3 DEF AllOwn, AgentsOwn, Own
  <2>3. RunsAtHome'
    BY <1>1, <1>3 DEF AllOwn, RunsAtHome, InProgress
  <2> QED
    BY <2>1, <2>2, <2>3 DEF AllOwn
<1> QED
  BY <1>1, <1>2, <1>3, HistoryKept

LEMMA ReceiveHistory ==
    ASSUME TypeInv, StreamInv, HistoryInv, NEW r \in Run, Receive(r)
    PROVE  HistoryInv'
<1> DEFINE m == Head(chan[r])
           c == Tail(chan[r])
<1>1. /\ UNCHANGED <<view, store, posts, agent, home, mixed>>
      /\ coming' = coming \cup {m}
      /\ \A p \in Run : p # r => chan'[p] = chan[p] /\ readers'[p] = readers[p]
      /\ chan'[r] = c /\ readers[r] > 0
      /\ chan[r] # <<>> /\ chan[r] \in Seq(AgentMessageType) /\ m = chan[r][1]
      /\ 1 \in 1 .. Len(chan[r])
  BY DEF Receive, uiVars, TypeInv, RunsInv
<1>2. m.run = r
  BY <1>1 DEF StreamInv, Stream, Channel
<1>3. /\ Len(c) = Len(chan[r]) - 1 /\ Len(chan[r]) \in Nat
      /\ \A i \in 1 .. Len(c) : i + 1 \in 1 .. Len(chan[r]) /\ c[i] = chan[r][i + 1]
  BY <1>1
<1> HIDE DEF m, c
<1>4. Homes'
  BY <1>1 DEF HistoryInv, Homes
<1>5. ASSUME AllOwn PROVE AllOwn'
  <2>1. ViewOwn' /\ RecordsOwn' /\ SavesOwn' /\ AgentsOwn'
    BY <1>1, <1>5 DEF AllOwn, ViewOwn, RecordsOwn, SavesOwn, AgentsOwn, Own
  <2>2. ASSUME NEW p \in Run, NEW i \in 1 .. Len(chan'[p]),
               chan'[p][i].kind = "done", chan'[p][i].ok
        PROVE  Own(home[p], chan'[p][i].history)
    <3> DEFINE OwnAt(q, k) == chan[q][k].kind = "done" /\ chan[q][k].ok
                                 => Own(home[q], chan[q][k].history)
    <3>0. \A q \in Run : \A k \in 1 .. Len(chan[q]) : OwnAt(q, k)
      BY <1>5 DEF AllOwn, ResultsOwn
    <3>1. CASE p = r
      <4>1. i \in 1 .. Len(c) /\ chan'[p][i] = c[i]
        BY <1>1, <2>2, <3>1
      <4>2. i + 1 \in 1 .. Len(chan[r]) /\ c[i] = chan[r][i + 1]
        BY <1>3, <4>1
      <4>3. OwnAt(r, i + 1)
        BY <3>0, <4>2
      <4> QED
        BY <2>2, <3>1, <4>1, <4>2, <4>3
    <3>2. CASE p # r
      <4>1. chan'[p] = chan[p]
        BY <1>1, <3>2
      <4>2. OwnAt(p, i)
        BY <2>2, <3>0, <4>1
      <4> QED
        BY <2>2, <4>1, <4>2
    <3> QED
      BY <3>1, <3>2
  <2>3. \A n \in coming' : n.kind = "done" /\ n.ok => Own(home[n.run], n.history)
    BY <1>1, <1>2, <1>5 DEF AllOwn, ResultsOwn
  <2>4. ResultsOwn'
    BY <1>1, <2>2, <2>3 DEF ResultsOwn, Own
  <2>5. RunsAtHome'
    <3>1. InProgress(r)
      BY <1>1 DEF InProgress
    <3>2. \A p \in Run : p # r /\ InProgress(p)' => InProgress(p)
      BY <1>1, <1>2 DEF InProgress
    <3> QED
      BY <1>1, <1>5, <3>1, <3>2 DEF AllOwn, RunsAtHome
  <2> QED
    BY <2>1, <2>4, <2>5 DEF AllOwn
<1> QED
  BY <1>1, <1>4, <1>5, HistoryKept

LEMMA TakesHistory ==
    ASSUME TypeInv, HistoryInv, NEW m, Takes(m) \/ (m \in coming /\ DropMessage(m))
    PROVE  HistoryInv'
<1>1. /\ UNCHANGED <<store, posts, agent, chan, home, mixed>>
      /\ view'.at = view.at /\ view'.history = view.history
      /\ coming' = coming \ {m}
      /\ m \in coming /\ m.run \in Run
      /\ \A p \in Run : p # m.run => readers'[p] = readers[p]
  BY DEF Takes, DropMessage, uiVars, TypeInv, RunsInv, AgentMessageType
<1>2. Homes'
  BY <1>1 DEF HistoryInv, Homes
<1>3. ASSUME AllOwn PROVE AllOwn'
  <2>1. ViewOwn' /\ RecordsOwn' /\ SavesOwn' /\ AgentsOwn' /\ ResultsOwn'
    BY <1>1, <1>3 DEF AllOwn, ViewOwn, RecordsOwn, SavesOwn, AgentsOwn, ResultsOwn, Own
  <2>2. RunsAtHome'
    <3>1. InProgress(m.run) /\ \A p \in Run : p # m.run /\ InProgress(p)' => InProgress(p)
      BY <1>1 DEF InProgress
    <3> QED
      BY <1>1, <1>3, <3>1 DEF AllOwn, RunsAtHome
  <2> QED
    BY <2>1, <2>2 DEF AllOwn
<1> QED
  BY <1>1, <1>2, <1>3, HistoryKept

LEMMA EndsHistory ==
    ASSUME TypeInv, StreamInv, HistoryInv, NEW m, Ends(m)
    PROVE  HistoryInv'
<1>1. /\ UNCHANGED <<store, agent, chan, home, mixed>>
      /\ view'.at = view.at /\ view'.history = IF m.ok THEN m.history ELSE view.history
      /\ coming' = coming \ {m} /\ m \in coming /\ m.kind = "done"
  BY DEF Ends
<1>2. Homes'
  BY <1>1 DEF HistoryInv, Homes
<1>3. ASSUME AllOwn PROVE AllOwn'
  <2>1. Own(view'.at, view'.history)
    <3>1. home[m.run] = view.at
      BY <1>3, EndsLast DEF AllOwn, RunsAtHome
    <3>2. CASE m.ok
      BY <1>1, <1>3, <3>1, <3>2 DEF AllOwn, ResultsOwn
    <3>3. CASE ~m.ok
      BY <1>1, <1>3, <3>3 DEF AllOwn, ViewOwn
    <3> QED
      BY <3>2, <3>3
  <2>2. ViewOwn'
    BY <1>1, <2>1 DEF ViewOwn, Own
  <2>3. \A n \in BagToSet(posts') : n.type = "save" => Own(n.snapshot.id, n.snapshot.history)
    BY <1>3, <2>1 DEF Ends, Snapshot, AllOwn, SavesOwn
  <2>4. SavesOwn'
    BY <1>1, <2>3 DEF SavesOwn, Own
  <2>5. RecordsOwn' /\ AgentsOwn' /\ ResultsOwn'
    BY <1>1, <1>3 DEF AllOwn, RecordsOwn, AgentsOwn, ResultsOwn, Own
  <2>6. RunsAtHome'
    BY <1>1, <1>3, EndsLast DEF AllOwn, RunsAtHome
  <2> QED
    BY <2>2, <2>4, <2>5, <2>6 DEF AllOwn
<1> QED
  BY <1>1, <1>2, <1>3, HistoryKept

(* A run that starts has no part in the histories of the others.             *)
LEMMA BeginsHistory ==
    ASSUME TypeInv, StreamInv, OneRunInv, HistoryInv, NEW r \in Run, Begins(r)
    PROVE  HistoryInv'
<1>1. PICK a \in AgentType :
        /\ a.pc = "work" /\ a.history = view'.history
        /\ agent' = [agent EXCEPT ![r] = a]
  BY DEF Begins
<1>2. /\ \A p \in Run : p # r => agent'[p] = agent[p] /\ home'[p] = home[p]
                                 /\ readers'[p] = readers[p]
      /\ agent'[r] = a /\ home'[r] = view'.at /\ view'.at # Nil
      /\ agent[r].pc = "idle" /\ home[r] = Nil
      /\ UNCHANGED <<chan, coming>>
  BY <1>1 DEF Begins, TypeInv, RunsInv, StoreInv, HistoryInv, Homes
<1>3. Homes'
  BY <1>1, <1>2 DEF HistoryInv, Homes
<1>4. ASSUME NEW id, NEW h \in Seq(Run), Own(id, h), id # Nil \/ h = <<>>
      PROVE  \A i \in DOMAIN h : home'[h[i]] = id
  BY <1>2, <1>4 DEF Own
<1>5. ASSUME ~mixed' PROVE AllOwn'
  <2>1. AllOwn /\ \A p \in Run : ~InProgress(p)
    BY <1>5, NoneBefore DEF HistoryInv
  <2>2. view'.history \in Seq(Run) /\ \A i \in DOMAIN view'.history : home'[view'.history[i]] = view'.at
    <3>1. Own(view'.at, view'.history)
      BY <2>1, KnownOwn DEF Begins
    <3>2. view'.history \in Seq(Run)
      BY DEF Begins, IsView, ViewType
    <3> QED
      BY <1>2, <1>4, <3>1, <3>2
  <2>3. RecordsOwn'
    <3>1. ASSUME NEW id \in Sid, store'[id] # Nil
          PROVE  \A i \in DOMAIN store'[id].history : home'[store'[id].history[i]] = id
      <4>1. Own(id, store'[id].history)
        BY <2>1, <3>1, KnownOwn DEF Begins, KnownRecords
      <4>2. store'[id].history \in Seq(Run) /\ id # Nil
        BY <3>1, TuiAssumption DEF Begins, StoreInv, SnapshotType
      <4> QED
        BY <1>4, <4>1, <4>2
    <3> QED
      BY <3>1 DEF RecordsOwn, Own
  <2>4. SavesOwn'
    <3>1. ASSUME NEW m \in BagToSet(posts'), m.type = "save"
          PROVE  \A i \in DOMAIN m.snapshot.history : home'[m.snapshot.history[i]] = m.snapshot.id
      <4>1. m \in BagToSet(posts) /\ m \in PostType
        BY <3>1 DEF Begins, SavesKept, IsPosts
      <4>2. Own(m.snapshot.id, m.snapshot.history)
        BY <2>1, <3>1, <4>1 DEF AllOwn, SavesOwn
      <4>3. m.snapshot.history \in Seq(Run) /\ m.snapshot.id # Nil
        BY <3>1, <4>1, PostFields, TuiAssumption DEF SnapshotType
      <4> QED
        BY <1>4, <4>2, <4>3
    <3> QED
      BY <3>1 DEF SavesOwn, Own
  <2>5. AgentsOwn'
    <3>1. ASSUME NEW p \in Run, p # r PROVE agent'[p].pc \notin {"work", "last", "asking"}
      BY <1>2, <2>1, <3>1 DEF InProgress
    <3> QED
      BY <1>1, <1>2, <2>2, <3>1 DEF AgentsOwn, Own
  <2>6. ResultsOwn'
    <3>1. ASSUME NEW p \in Run, NEW i \in 1 .. Len(chan[p]), chan[p][i].kind = "done", chan[p][i].ok
          PROVE  \A j \in DOMAIN chan[p][i].history : home'[chan[p][i].history[j]] = home'[p]
      <4>1. p # r /\ home[p] # Nil
        BY <1>2, <3>1 DEF HistoryInv, Homes, StreamInv, Stream, Unborn, Channel
      <4>2. Own(home[p], chan[p][i].history)
        BY <2>1, <3>1 DEF AllOwn, ResultsOwn
      <4>3. chan[p][i].history \in Seq(Run)
        <5>1. chan[p] \in Seq(AgentMessageType)
          BY DEF TypeInv, RunsInv
        <5>2. chan[p][i] \in AgentMessageType
          BY <3>1, <5>1
        <5> QED
          BY <5>2 DEF AgentMessageType
      <4> QED
        BY <1>2, <1>4, <4>1, <4>2, <4>3
    <3>2. coming' = {}
      <4>1. \A m \in coming : m.run \in Run
        BY DEF TypeInv, RunsInv, AgentMessageType
      <4> QED
        BY <1>2, <2>1, <4>1 DEF InProgress
    <3> QED
      BY <1>2, <3>1, <3>2 DEF ResultsOwn, Own
  <2>7. RunsAtHome'
    <3>1. ASSUME NEW p \in Run, p # r PROVE ~InProgress(p)'
      BY <1>2, <2>1, <3>1 DEF InProgress
    <3> QED
      BY <1>2, <3>1 DEF RunsAtHome
  <2> QED
    BY <2>2, <2>3, <2>4, <2>5, <2>6, <2>7 DEF AllOwn, ViewOwn, Own
<1> QED
  BY <1>3, <1>5 DEF HistoryInv

LEMMA StepHistory ==
    TypeInv /\ StreamInv /\ OneRunInv /\ HistoryInv /\ [Next]_vars => HistoryInv'
<1> SUFFICES ASSUME TypeInv, StreamInv, OneRunInv, HistoryInv, [Next]_vars PROVE HistoryInv'
  OBVIOUS
<1>1. CASE UNCHANGED vars
  BY <1>1 DEF vars, HistoryInv, Homes, AllOwn, ViewOwn, RecordsOwn, SavesOwn, AgentsOwn,
              ResultsOwn, RunsAtHome, Own, InProgress
<1>2. CASE Step
  BY <1>2, GoesOnHistory, MovesHistory, SendsHistory, ResumeHistory, ReceiveHistory,
     BeginsHistory, TakesHistory, EndsHistory DEF Step, StepOfRun, StepOfMessage
<1> QED
  BY <1>1, <1>2, NextSteps

LEMMA InitHistory == Init => HistoryInv
<1> SUFFICES ASSUME Init PROVE HistoryInv
  OBVIOUS
<1>1. view.at = Nil /\ view.history = <<>>
  BY WelcomeOp DEF Init
<1>2. ViewOwn
  BY <1>1 DEF ViewOwn, Own
<1>3. BagToSet(posts) = {}
  BY DEF Init, BagToSet, EmptyBag, SetToBag
<1>4. \A r \in Run : Len(chan[r]) = 0 /\ agent[r].pc = "idle"
  BY DEF Init, Idle
<1>5. RecordsOwn /\ SavesOwn /\ AgentsOwn /\ ResultsOwn /\ RunsAtHome
  BY <1>3, <1>4 DEF Init, RecordsOwn, SavesOwn, AgentsOwn, ResultsOwn, RunsAtHome, InProgress
<1> QED
  BY <1>2, <1>4, <1>5 DEF Init, HistoryInv, Homes, AllOwn

(* Until a view is replaced under a run, the history of a session, shown or  *)
(* on disk, is made of runs that were started in it.                         *)
THEOREM HistoriesAreOwn == Spec => []HistoryIsOwn
<1>1. Init => TypeInv /\ StreamInv /\ OneRunInv /\ HistoryInv
  <2>1. Init => OneRunInv
    BY DEF Init, Idle, OneRunInv, InProgress
  <2> QED
    BY <2>1, InitTyped, InitStream, InitHistory
<1>2. TypeInv /\ StreamInv /\ OneRunInv /\ HistoryInv /\ [Next]_vars
        => TypeInv' /\ StreamInv' /\ OneRunInv' /\ HistoryInv'
  BY StepTyped, StepStream, StepOneRun, StepHistory
<1>3. HistoryInv => HistoryIsOwn
  BY DEF HistoryInv, AllOwn, ViewOwn, RecordsOwn, HistoryIsOwn, Stored
<1> QED
  BY <1>1, <1>2, <1>3, PTL DEF Spec

-----------------------------------------------------------------------------
(* The order of the messages.  k of them have left the channel.              *)
Counted(r, k) ==
    /\ \A i \in 1 .. Len(chan[r]) : chan[r][i].n = k + i
    /\ agent[r].pc # "ended" => agent[r].sent = k + Len(chan[r])

Ordered(r) ==
    /\ readers[r] = 1 => Counted(r, applied[r])
    /\ \A m \in coming : m.run = r => m.n = applied[r] + 1 /\ Counted(r, m.n)
    /\ agent[r].pc = "idle" => applied[r] = 0 /\ agent[r].sent = 0

OrderInv == \A r \in Run : Ordered(r)

LEMMA OrderKept ==
    ASSUME NEW r \in Run, Ordered(r),
           agent'[r] = agent[r], chan'[r] = chan[r], readers'[r] = readers[r],
           applied'[r] = applied[r], \A m \in coming' : m.run = r => m \in coming
    PROVE  Ordered(r)'
BY DEF Ordered, Counted

LEMMA BeginsOrder ==
    ASSUME TypeInv, StreamInv, OrderInv, NEW r \in Run, Begins(r)
    PROVE  OrderInv'
<1>1. PICK a \in AgentType :
        /\ a.pc = "work" /\ a.sent = agent[r].sent
        /\ agent' = [agent EXCEPT ![r] = a]
  BY DEF Begins
<1>2. /\ \A p \in Run : p # r => agent'[p] = agent[p] /\ readers'[p] = readers[p]
      /\ agent'[r] = a /\ readers'[r] = 1
      /\ agent[r].pc = "idle" /\ UNCHANGED <<chan, coming, applied>>
  BY <1>1 DEF Begins, TypeInv, RunsInv
<1>3. ASSUME NEW p \in Run, p # r PROVE Ordered(p)'
  BY <1>2, <1>3, OrderKept DEF OrderInv
<1>4. Ordered(r)'
  <2>1. /\ applied[r] = 0 /\ agent[r].sent = 0 /\ chan[r] = <<>>
        /\ \A m \in coming : m.run # r
    BY <1>2 DEF OrderInv, Ordered, StreamInv, Stream, Unborn
  <2>2. Len(chan[r]) = 0
    BY <2>1
  <2> QED
    BY <1>1, <1>2, <2>1, <2>2 DEF Ordered, Counted
<1> QED
  BY <1>3, <1>4 DEF OrderInv

LEMMA SendsOrder ==
    ASSUME TypeInv, OrderInv, NEW r \in Run, NEW m, NEW a, Sends(r, m, a)
    PROVE  OrderInv'
<1>1. /\ UNCHANGED <<readers, coming, applied>>
      /\ \A p \in Run : p # r => agent'[p] = agent[p] /\ chan'[p] = chan[p]
      /\ agent'[r] = a /\ chan'[r] = Append(chan[r], m)
      /\ agent[r].pc \in {"work", "last"} /\ a.pc # "idle"
      /\ chan[r] \in Seq(AgentMessageType) /\ m \in AgentMessageType
      /\ m.n = agent[r].sent + 1
      /\ a.pc # "ended" => a.sent = agent[r].sent + 1
  BY DEF Sends, uiVars, TypeInv, RunsInv
<1>2. ASSUME NEW p \in Run, p # r PROVE Ordered(p)'
  BY <1>1, <1>2, OrderKept DEF OrderInv
<1>3. ASSUME NEW k \in Nat, Counted(r, k) PROVE Counted(r, k)'
  <2> DEFINE c == Append(chan[r], m)
  <2>1. /\ Len(c) = Len(chan[r]) + 1 /\ Len(chan[r]) \in Nat /\ c[Len(c)] = m
        /\ \A i \in 1 .. Len(c) : i # Len(c) => i \in 1 .. Len(chan[r]) /\ c[i] = chan[r][i]
    BY <1>1
  <2>2. agent[r].sent = k + Len(chan[r])
    BY <1>1, <1>3 DEF Counted
  <2> HIDE DEF c
  <2>3. ASSUME NEW i \in 1 .. Len(c) PROVE c[i].n = k + i
    <3>1. CASE i = Len(c)
      BY <1>1, <2>1, <2>2, <3>1
    <3>2. CASE i # Len(c)
      BY <1>3, <2>1, <2>3, <3>2 DEF Counted
    <3> QED
      BY <3>1, <3>2
  <2>4. chan'[r] = c /\ (a.pc # "ended" => a.sent = k + Len(c))
    BY <1>1, <2>1, <2>2 DEF c
  <2> QED
    BY <1>1, <2>3, <2>4 DEF Counted
<1>4. Ordered(r)'
  <2>1. Ordered(r) /\ applied[r] \in Nat /\ \A n \in coming : n.n \in Nat
    BY DEF OrderInv, TypeInv, RunsInv, AgentMessageType
  <2> QED
    BY <1>1, <1>3, <2>1 DEF Ordered, Counted
<1> QED
  BY <1>2, <1>4 DEF OrderInv

LEMMA ResumeOrder ==
    ASSUME TypeInv, OrderInv, NEW r \in Run, AgentResume(r)
    PROVE  OrderInv'
<1>1. /\ UNCHANGED <<chan, readers, coming, applied>>
      /\ \A p \in Run : p # r => agent'[p] = agent[p]
      /\ agent[r].pc = "asking" /\ agent'[r].pc = "work"
      /\ agent'[r].sent = agent[r].sent
  BY DEF AgentResume, uiVars, TypeInv, RunsInv, AgentType
<1> QED
  BY <1>1 DEF OrderInv, Ordered, Counted

LEMMA ReceiveOrder ==
    ASSUME TypeInv, StreamInv, OrderInv, NEW r \in Run, Receive(r)
    PROVE  OrderInv'
<1> DEFINE m == Head(chan[r])
           c == Tail(chan[r])
<1>1. /\ UNCHANGED <<agent, applied>>
      /\ coming' = coming \cup {m}
      /\ \A p \in Run : p # r => chan'[p] = chan[p] /\ readers'[p] = readers[p]
      /\ chan'[r] = c /\ readers'[r] = readers[r] - 1 /\ readers[r] > 0
      /\ chan[r] # <<>> /\ chan[r] \in Seq(AgentMessageType) /\ m = chan[r][1]
      /\ 1 \in 1 .. Len(chan[r]) /\ m \in AgentMessageType
  BY DEF Receive, uiVars, TypeInv, RunsInv
<1>2. /\ m.run = r /\ readers[r] = 1 /\ readers'[r] = 0
      /\ \A n \in coming : n.run # r
      /\ agent[r].pc # "idle"
  BY <1>1 DEF StreamInv, Stream, Channel, Arrival, Unborn
<1>3. /\ Len(c) = Len(chan[r]) - 1 /\ Len(chan[r]) \in Nat
      /\ \A i \in 1 .. Len(c) : i + 1 \in 1 .. Len(chan[r]) /\ c[i] = chan[r][i + 1]
  BY <1>1
<1> HIDE DEF m, c
<1>4. ASSUME NEW p \in Run, p # r PROVE Ordered(p)'
  BY <1>1, <1>2, <1>4, OrderKept DEF OrderInv
<1>5. Counted(r, applied[r]) /\ applied[r] \in Nat
  BY <1>2 DEF OrderInv, Ordered, TypeInv, RunsInv
<1>6. m.n = applied[r] + 1
  BY <1>1, <1>5 DEF Counted
<1>7. /\ \A i \in 1 .. Len(c) : c[i].n = m.n + i
      /\ agent[r].pc # "ended" => agent[r].sent = m.n + Len(c)
  <2>1. \A i \in 1 .. Len(c) : c[i].n = applied[r] + (i + 1)
    BY <1>3, <1>5 DEF Counted
  <2>2. agent[r].pc # "ended" => agent[r].sent = applied[r] + (Len(c) + 1)
    BY <1>3, <1>5 DEF Counted
  <2> HIDE DEF c
  <2>3. Len(c) \in Nat
    BY <1>1 DEF c
  <2>4. ASSUME NEW i \in 1 .. Len(c) PROVE c[i].n = m.n + i
    <3>1. i \in Nat /\ c[i].n = applied[r] + (i + 1)
      BY <2>1, <2>3
    <3> QED
      BY <1>5, <1>6, <3>1
  <2>5. agent[r].pc # "ended" => agent[r].sent = m.n + Len(c)
    BY <1>5, <1>6, <2>2, <2>3
  <2> QED
    BY <2>4, <2>5
<1>8. Ordered(r)'
  BY <1>1, <1>2, <1>6, <1>7 DEF Ordered, Counted
<1> QED
  BY <1>4, <1>8 DEF OrderInv

(* The message that is handled is the next one.                              *)
LEMMA HandledOrder ==
    ASSUME TypeInv, StreamInv, OrderInv, NEW m, Takes(m) \/ Ends(m)
    PROVE  /\ OrderInv'
           /\ applied' = [applied EXCEPT ![m.run] = applied[m.run] + 1] /\ m.run \in Run
<1> DEFINE r == m.run
<1>1. /\ r \in Run /\ m \in coming /\ coming' = coming \ {m}
      /\ UNCHANGED <<agent, chan>>
      /\ applied' = [applied EXCEPT ![r] = m.n]
      /\ \A p \in Run : p # r => readers'[p] = readers[p] /\ applied'[p] = applied[p]
      /\ applied'[r] = m.n
  BY DEF Takes, Ends, AgentMessageType, TypeInv, RunsInv
<1>2. /\ m.n = applied[r] + 1 /\ Counted(r, m.n)
      /\ agent[r].pc # "idle" /\ \A n \in coming' : n.run # r
  BY <1>1 DEF OrderInv, Ordered, StreamInv, Stream, Arrival, Unborn
<1> HIDE DEF r
<1>3. ASSUME NEW p \in Run, p # r PROVE Ordered(p)'
  BY <1>1, <1>3, OrderKept DEF OrderInv
<1>4. Ordered(r)'
  BY <1>1, <1>2 DEF Ordered, Counted
<1> QED
  BY <1>1, <1>2, <1>3, <1>4 DEF OrderInv, r

LEMMA StepOrder ==
    ASSUME TypeInv, StreamInv, OrderInv, [Next]_vars
    PROVE  /\ OrderInv'
           /\ \A r \in Run : applied'[r] # applied[r] => applied'[r] = applied[r] + 1
<1>1. CASE UNCHANGED vars
  BY <1>1 DEF vars, OrderInv, Ordered, Counted
<1>2. CASE GoesOn \/ Moves
  BY <1>2, OrderKept DEF GoesOn, Moves, appOnly, OrderInv
<1>3. ASSUME NEW r \in Run, StepOfRun(r)
      PROVE  OrderInv' /\ UNCHANGED applied
  <2>1. UNCHANGED applied
    BY <1>3 DEF StepOfRun, Sends, AgentResume, Receive, Begins, uiVars
  <2> QED
    BY <1>3, <2>1, SendsOrder, ResumeOrder, ReceiveOrder, BeginsOrder DEF StepOfRun
<1>4. ASSUME NEW m \in coming, DropMessage(m) PROVE OrderInv' /\ UNCHANGED applied
  BY <1>4, OrderKept DEF DropMessage, uiVars, OrderInv
<1>5. ASSUME NEW m \in coming, Takes(m) \/ Ends(m)
      PROVE  /\ OrderInv'
             /\ \A r \in Run : applied'[r] # applied[r] => applied'[r] = applied[r] + 1
  BY <1>5, HandledOrder DEF TypeInv, RunsInv
<1> QED
  BY <1>1, <1>2, <1>3, <1>4, <1>5, NextSteps DEF Step, StepOfMessage

(* The messages of a run are handled in the order they were sent, none       *)
(* twice and none left out.                                                  *)
THEOREM StreamsKeepOrder == Spec => StreamInOrder
<1>1. Init => TypeInv /\ StreamInv /\ OrderInv
  <2> SUFFICES ASSUME Init PROVE OrderInv
    BY InitTyped, InitStream
  <2>1. ASSUME NEW r \in Run PROVE Ordered(r)
    <3>1. readers[r] = 0 /\ coming = {} /\ applied[r] = 0 /\ agent[r].sent = 0
      BY DEF Init, Idle
    <3> QED
      BY <3>1 DEF Ordered
  <2> QED
    BY <2>1 DEF OrderInv
<1>2. TypeInv /\ StreamInv /\ OrderInv /\ [Next]_vars
        => /\ TypeInv' /\ StreamInv' /\ OrderInv'
           /\ [\A r \in Run : applied'[r] # applied[r] => applied'[r] = applied[r] + 1]_vars
  BY StepTyped, StepStream, StepOrder
<1> QED
  BY <1>1, <1>2, PTL DEF Spec, StreamInOrder

-----------------------------------------------------------------------------
(* The answers.  While the user waits for each key to have its effect, at    *)
(* most one is on its way, and a yes is meant for the question shown.        *)
OnePress ==
    \A m, n \in BagToSet(posts) : IsPress(m) /\ IsPress(n) => m = n /\ posts[m] = 1

YesOwn ==
    \A m \in BagToSet(posts) :
        Approves(m) => m.from = view.approval /\ view.approval # Nil

YesInv == ModalAsks /\ (~mixed /\ ~hasty => OnePress /\ YesOwn)

(* The presses stay, and the question with them, or there is none.           *)
QuestionKept ==
    /\ PressesKept /\ (hasty => hasty') /\ (mixed => mixed')
    /\ view'.approval = view.approval \/ mixed' \/ view.approval = Nil
    /\ \/ ~SaysYes(view'.modal)
       \/ view'.modal = view.modal /\ view'.approval = view.approval
       \/ Item("Approve") \in view'.modal /\ view'.approval # Nil

LEMMA YesKept == YesInv /\ QuestionKept => YesInv'
<1> SUFFICES ASSUME YesInv, QuestionKept PROVE YesInv'
  OBVIOUS
<1>1. ModalAsks'
  BY DEF YesInv, ModalAsks, SaysYes, QuestionKept
<1>2. ASSUME ~mixed', ~hasty' PROVE OnePress'
  BY <1>2 DEF YesInv, PressesKept, OnePress, QuestionKept
<1>3. ASSUME ~mixed', ~hasty' PROVE YesOwn'
  BY <1>3 DEF YesInv, PressesKept, YesOwn, Approves, IsPress, QuestionKept
<1> QED
  BY <1>1, <1>2, <1>3 DEF YesInv

LEMMA GoesOnYes ==
    ASSUME TypeInv, YesInv, GoesOn, Presses
    PROVE  YesInv'
<1>1. IsPosts(posts) /\ mixed' = mixed /\ (hasty => hasty')
  BY DEF TypeInv, GoesOn, Presses
<1>2. CASE PressesKept /\ view'.approval = view.approval
  BY <1>1, <1>2, YesKept DEF Presses, QuestionKept
<1>3. ModalAsks'
  BY DEF YesInv, ModalAsks, Presses, SaysYes
<1>4. ASSUME NEW m \in PostType, PressAdded(m) PROVE YesInv'
  <2> SUFFICES ASSUME ~mixed', ~hasty' PROVE OnePress' /\ YesOwn'
    BY <1>3 DEF YesInv
  <2>1. /\ ~mixed /\ ~hasty /\ OnePress /\ YesOwn
        /\ \A n \in BagToSet(posts) : ~IsPress(n)
    BY <1>1, <1>4 DEF PressAdded, YesInv, Pressed, IsPress
  <2>2. posts' = BagAdd(posts, m) /\ IsPress(m) /\ UNCHANGED view
    BY <1>4 DEF PressAdded, Post
  <2>3. \A n \in BagToSet(posts') : n # m => n \in BagToSet(posts)
    BY <1>1, <2>2, PostAdded
  <2>4. posts'[m] = 1
    BY <1>1, <2>1, <2>2, OneCounted
  <2>5. OnePress'
    BY <2>1, <2>3, <2>4 DEF OnePress
  <2>6. YesOwn'
    BY <1>4, <2>1, <2>2, <2>3 DEF YesOwn, PressAdded, Approves, IsPress
  <2> QED
    BY <2>5, <2>6
<1>5. ASSUME NEW m \in BagToSet(posts), PressTaken(m) \/ PressAnswered(m) PROVE YesInv'
  <2> SUFFICES ASSUME ~mixed', ~hasty' PROVE OnePress' /\ YesOwn'
    BY <1>3 DEF YesInv
  <2>1. OnePress /\ IsPress(m) /\ m \in PostType
    BY <1>1, <1>5 DEF YesInv, PressTaken, PressAnswered, IsPosts
  <2>2. \A n \in BagToSet(Handled(m)) : ~IsPress(n)
    <3>1. m \notin BagToSet(Handled(m))
      BY <1>1, <2>1, OneCounted DEF OnePress, Handled
    <3>2. \A n \in BagToSet(Handled(m)) : n \in BagToSet(posts)
      BY <1>1, PostTaken DEF Handled
    <3> QED
      BY <2>1, <3>1, <3>2 DEF OnePress
  <2>3. \A n \in BagToSet(posts') : ~IsPress(n)
    <3>1. CASE PressTaken(m)
      BY <2>2, <3>1 DEF PressTaken
    <3>2. CASE PressAnswered(m)
      <4>1. PICK x \in PostType : ~IsPress(x) /\ posts' = BagAdd(Handled(m), x)
        BY <3>2 DEF PressAnswered, Answer
      <4>2. IsPosts(Handled(m))
        BY <1>1, PostTaken DEF Handled
      <4> QED
        BY <2>2, <4>1, <4>2, PostAdded
    <3> QED
      BY <1>5, <3>1, <3>2
  <2> QED
    BY <2>3 DEF OnePress, YesOwn, Approves, IsPress
<1> QED
  BY <1>2, <1>4, <1>5 DEF Presses

(* A question is shown while its agent waits: not when no run is under way,  *)
(* nor when the next message of the run is a question.                       *)
LEMMA ShownInProgress ==
    ASSUME TypeInv, StreamInv, view.approval # Nil
    PROVE  view.approval[1] \in Run /\ InProgress(view.approval[1])
BY QuestionParts DEF StreamInv, QuestionIsOpen, InProgress

(* What a view that replaces another does to the question.                   *)
LEMMA ReplacedQuestion ==
    ASSUME TypeInv, StreamInv, Replaces, view'.modal = {}
    PROVE  /\ mixed => mixed'
           /\ mixed' \/ view.approval = Nil
           /\ ~SaysYes(view'.modal)
<1>1. mixed \in BOOLEAN
  BY DEF TypeInv, StoreInv
<1>2. mixed => mixed'
  BY DEF Replaces
<1>3. (\E r \in Run : InProgress(r)) => mixed'
  BY DEF Replaces
<1>4. ~SaysYes({})
  BY DEF SaysYes
<1> QED
  BY <1>2, <1>3, <1>4, ShownInProgress

LEMMA NoneShown ==
    ASSUME TypeInv, StreamInv, OneRunInv, ~mixed, NEW m, Takes(m), m.kind = "ask"
    PROVE  view.approval = Nil
<1> SUFFICES ASSUME view.approval # Nil PROVE FALSE
  OBVIOUS
<1>1. m \in coming /\ m.run \in Run /\ InProgress(m.run)
  BY DEF Takes, AgentMessageType, InProgress
<1>2. view.approval[1] = m.run
  BY <1>1, ShownInProgress DEF OneRunInv
<1>3. Pending(m)
  BY <1>1 DEF StreamInv, Stream, Arrival
<1> QED
  BY <1>2, <1>3, QuestionParts DEF StreamInv, QuestionIsOpen, Pending

LEMMA StepYes ==
    ASSUME TypeInv, StreamInv, OneRunInv, YesInv, [Next]_vars
    PROVE  YesInv'
<1>1. CASE UNCHANGED vars
  BY <1>1, YesKept DEF vars, PressesKept, QuestionKept
<1>2. CASE GoesOn /\ (ModalAsks => Presses)
  BY <1>2, GoesOnYes DEF YesInv
<1>3. CASE Moves
  <2>1. PressesKept /\ hasty' = hasty
    BY <1>3 DEF Moves
  <2>2. CASE Replaces /\ view'.modal = {}
    BY <2>1, <2>2, ReplacedQuestion, YesKept DEF QuestionKept
  <2>3. CASE /\ view'.approval = view.approval /\ view'.modal = view.modal
             /\ mixed' = mixed
    BY <2>1, <2>3, YesKept DEF QuestionKept
  <2> QED
    BY <1>3, <2>2, <2>3 DEF Moves
<1>4. ASSUME NEW r \in Run, Begins(r) PROVE YesInv'
  <2>1. PressesKept /\ (hasty => hasty')
    BY <1>4 DEF Begins
  <2>2. CASE Replaces /\ view'.modal = {}
    BY <2>1, <2>2, ReplacedQuestion, YesKept DEF QuestionKept
  <2>3. CASE /\ view'.approval = view.approval /\ view'.modal = view.modal
             /\ mixed' = mixed
    BY <2>1, <2>3, YesKept DEF QuestionKept
  <2> QED
    BY <1>4, <2>2, <2>3 DEF Begins
<1>5. ASSUME NEW r \in Run, (\E m, a : Sends(r, m, a)) \/ AgentResume(r) \/ Receive(r)
      PROVE  YesInv'
  <2>1. UNCHANGED <<view, posts, mixed, hasty>>
    BY <1>5 DEF Sends, AgentResume, Receive, uiVars
  <2> QED
    BY <2>1, YesKept DEF PressesKept, QuestionKept
<1>6. ASSUME NEW m \in coming, Takes(m) PROVE YesInv'
  <2>1. UNCHANGED <<posts, mixed, hasty>>
    BY <1>6 DEF Takes
  <2>2. CASE m.kind # "ask"
    BY <1>6, <2>1, <2>2, YesKept DEF Takes, PressesKept, QuestionKept
  <2>3. CASE m.kind = "ask"
    <3>1. mixed' \/ view.approval = Nil
      BY <1>6, <2>1, <2>3, NoneShown
    <3>2. view'.approval = m.question /\ m.question # Nil
      BY <1>6, <2>3, TuiAssumption DEF Takes, StreamInv, Stream, Arrival, Pending, AgentMessageType
    <3>3. Item("Approve") \in view'.modal
      BY <1>6, <2>3 DEF Takes
    <3> QED
      BY <2>1, <3>1, <3>2, <3>3, YesKept DEF PressesKept, QuestionKept
  <2> QED
    BY <2>2, <2>3
<1>7. ASSUME NEW m \in coming, Ends(m) PROVE YesInv'
  BY <1>7, YesKept DEF Ends, QuestionKept
<1>8. ASSUME NEW m \in coming, DropMessage(m) PROVE YesInv'
  <2>1. UNCHANGED <<view, posts, mixed, hasty>>
    BY <1>8 DEF DropMessage, uiVars
  <2> QED
    BY <2>1, YesKept DEF PressesKept, QuestionKept
<1> QED
  BY <1>1, <1>2, <1>3, <1>4, <1>5, <1>6, <1>7, <1>8, NextSteps
     DEF Step, StepOfRun, StepOfMessage

(* A step that gives a question an answer that says yes handles the Enter    *)
(* that was meant for it.                                                    *)
LEMMA YesIsMeant ==
    ASSUME TypeInv, YesInv, ~mixed, ~hasty, [Next]_vars,
           NEW q \in Question, resp[q] = "waiting", resp'[q] \in Yes
    PROVE  \E m \in DOMAIN posts : m.type = "select" /\ m.from = q /\ posts' = Handled(m)
<1>1. resp'[q] # resp[q]
  BY DEF Yes, Approving
<1>2. ASSUME NEW r \in Run PROVE ~StepOfRun(r)
  <2>1. resp \in [Question -> Label \cup {"none", "waiting"}]
    BY DEF TypeInv, RunsInv
  <2>2. ASSUME NEW x, NEW v, v \notin Yes, resp' = [resp EXCEPT ![x] = v] PROVE FALSE
    BY <1>1, <2>1, <2>2
  <2>3. "waiting" \notin Yes /\ "none" \notin Yes
    BY DEF Yes, Approving
  <2>4. ~AgentResume(r)
    BY <2>2, <2>3 DEF AgentResume
  <2>5. ~\E m, a : Sends(r, m, a)
    BY ZenonT(60), <1>1, <2>2, <2>3 DEF Sends
  <2>6. ~Receive(r) /\ ~Begins(r)
    BY <1>1 DEF Receive, Begins
  <2> QED
    BY <2>4, <2>5, <2>6 DEF StepOfRun
<1>3. ~\E m \in coming : StepOfMessage(m)
  BY <1>1 DEF StepOfMessage, Takes, Ends, DropMessage
<1>4. ~Moves /\ ~UNCHANGED vars
  BY <1>1 DEF Moves, appOnly, vars
<1>5. Presses
  BY <1>2, <1>3, <1>4, NextSteps DEF Step, YesInv
<1>6. PICK m \in BagToSet(posts) : PressTaken(m)
  BY <1>1, <1>5 DEF Presses, PressAdded, PressAnswered
<1>7. PICK label \in Label : /\ resp' = [resp EXCEPT ![view.approval] = label]
                             /\ label \in Yes => Approves(m)
  BY <1>1, <1>6 DEF PressTaken
<1>8. view.approval = q /\ label \in Yes
  BY <1>1, <1>7 DEF TypeInv, RunsInv
<1>9. m.from = q /\ m.type = "select"
  BY <1>7, <1>8 DEF YesInv, YesOwn, Approves
<1> QED
  BY <1>6, <1>9 DEF PressTaken, BagToSet

(* A yes is given to the question whose modal the user pressed Enter in,     *)
(* unless a view was replaced under a run, the user did not wait for the     *)
(* effect of a key, or a session or a skill bears the name of the answer.    *)
THEOREM YesIsMeantForIt == Spec => YesIsForTheQuestion
<1>1. Init => TypeInv /\ StreamInv /\ OneRunInv /\ YesInv
  <2> SUFFICES ASSUME Init PROVE OneRunInv /\ YesInv
    BY InitTyped, InitStream
  <2>1. OneRunInv
    BY DEF Init, Idle, OneRunInv, InProgress
  <2>2. BagToSet(posts) = {}
    BY DEF Init, BagToSet, EmptyBag, SetToBag
  <2>3. view.modal = {}
    BY WelcomeOp DEF Init
  <2> QED
    BY <2>1, <2>2, <2>3 DEF YesInv, ModalAsks, SaysYes, OnePress, YesOwn
<1>2. TypeInv /\ StreamInv /\ OneRunInv /\ YesInv /\ [Next]_vars
        => /\ TypeInv' /\ StreamInv' /\ OneRunInv' /\ YesInv'
           /\ [\A q \in Question :
                 (resp[q] = "waiting" /\ resp'[q] \in Approving \ Named /\ ~mixed /\ ~hasty)
                    => \E m \in DOMAIN posts :
                         m.type = "select" /\ m.from = q /\ posts' = Handled(m)]_vars
  BY StepTyped, StepStream, StepOneRun, StepYes, YesIsMeant DEF Yes
<1> QED
  BY <1>1, <1>2, PTL DEF Spec, YesIsForTheQuestion


-----------------------------------------------------------------------------
(* What is on disk.  The session shown differs from its file only while a    *)
(* run can still be heard, the end of which saves it, or a snapshot of it    *)
(* is on its way.  An agent nobody reads any more is not heard, though it    *)
(* may still be at work.                                                     *)
Heard(r) == readers[r] > 0 \/ \E m \in coming : m.run = r

SavedInv ==
    view.at # Nil =>
        \/ Clean
        \/ \E r \in Run : Heard(r)
        \/ \E m \in BagToSet(posts) : m.type = "save" /\ m.snapshot.id = view.at

LEMMA KeepsSaved ==
    ASSUME SavedInv, Keeps, UNCHANGED <<readers, coming>>
    PROVE  SavedInv'
BY DEF SavedInv, Keeps, SavesStay, Heard

LEMMA RunSaved ==
    ASSUME TypeInv, StreamInv, SavedInv, NEW r \in Run, StepOfRun(r)
    PROVE  SavedInv'
<1>1. ASSUME NEW m, NEW a, Sends(r, m, a) PROVE SavedInv'
  BY <1>1 DEF Sends, uiVars, SavedInv, Clean, Heard, Snapshot
<1>2. CASE AgentResume(r)
  BY <1>2 DEF AgentResume, uiVars, SavedInv, Clean, Heard, Snapshot
<1>3. CASE Receive(r)
  <2>1. 1 \in 1 .. Len(chan[r]) /\ Head(chan[r]) = chan[r][1]
    BY <1>3 DEF Receive, TypeInv, RunsInv
  <2>2. Head(chan[r]).run = r
    BY <2>1 DEF StreamInv, Stream, Channel
  <2>3. Heard(r)'
    BY <1>3, <2>2 DEF Receive, Heard
  <2> QED
    BY <2>3 DEF SavedInv
<1>4. CASE Begins(r)
  <2>1. Heard(r)'
    BY <1>4 DEF Begins, TypeInv, RunsInv, Heard
  <2> QED
    BY <2>1 DEF SavedInv
<1> QED
  BY <1>1, <1>2, <1>3, <1>4 DEF StepOfRun

LEMMA MessageSaved ==
    ASSUME TypeInv, SavedInv, NEW m \in coming, StepOfMessage(m)
    PROVE  SavedInv'
<1>1. CASE Takes(m)
  <2>1. m.run \in Run /\ readers[m.run] \in Nat
    BY <1>1 DEF Takes, AgentMessageType, TypeInv, RunsInv
  <2>2. Heard(m.run)'
    BY <1>1, <2>1 DEF Takes, TypeInv, RunsInv, Heard
  <2> QED
    BY <2>1, <2>2 DEF SavedInv
<1>2. CASE Ends(m)
  <2> DEFINE n == [type |-> "save", snapshot |-> Snapshot(view')]
  <2>1. n \in BagToSet(posts') /\ n.type = "save" /\ n.snapshot.id = view'.at
    BY <1>2 DEF Ends, Snapshot
  <2> QED
    BY <2>1 DEF SavedInv
<1>3. CASE DropMessage(m)
  BY <1>3 DEF DropMessage, uiVars, SavedInv
<1> QED
  BY <1>1, <1>2, <1>3 DEF StepOfMessage

LEMMA StepSaved == TypeInv /\ StreamInv /\ SavedInv /\ [Next]_vars => SavedInv'
<1> SUFFICES ASSUME TypeInv, StreamInv, SavedInv, [Next]_vars PROVE SavedInv'
  OBVIOUS
<1>1. CASE UNCHANGED vars
  BY <1>1 DEF vars, SavedInv, Clean, Heard, Snapshot
<1>2. CASE Step
  <2>1. GoesOn \/ Moves => UNCHANGED <<readers, coming>>
    BY DEF GoesOn, Moves, appOnly
  <2> QED
    BY <1>2, <2>1, KeepsSaved, RunSaved, MessageSaved DEF Step, Moves
<1> QED
  BY <1>1, <1>2, NextSteps

(* When nothing is on its way and no agent works, the session shown is the   *)
(* session on disk, unless it has been cleared since: in whatever order the  *)
(* snapshots arrived, and whatever view a run outlived                       *)
(* (App.Update, applySnapshot).                                              *)
THEOREM QuietSessionsAreSaved == Spec => []QuietIsSaved
<1>1. Init => TypeInv /\ StreamInv /\ SavedInv
  <2>1. Init => view.at = Nil
    BY WelcomeOp DEF Init
  <2> QED
    BY <2>1, InitTyped, InitStream DEF SavedInv
<1>2. TypeInv /\ StreamInv /\ SavedInv /\ [Next]_vars => TypeInv' /\ StreamInv' /\ SavedInv'
  BY StepTyped, StepStream, StepSaved
<1>3. SavedInv => QuietIsSaved
  <2> SUFFICES ASSUME SavedInv, posts = EmptyBag, view.at # Nil, \A r \in Run : ~InProgress(r)
               PROVE  Clean
    BY DEF QuietIsSaved, Clean
  <2>1. BagToSet(posts) = {}
    BY DEF BagToSet, EmptyBag, SetToBag
  <2> QED
    BY <2>1 DEF SavedInv, Heard, InProgress
<1> QED
  BY <1>1, <1>2, <1>3, PTL DEF Spec

-----------------------------------------------------------------------------
(* What the user sees of the histories.  A command is shown from the start   *)
(* of its run, a snapshot on its way is of no session in which a run is in   *)
(* progress, so that it takes no command away.                               *)
Shown(messages, history) == \A i \in DOMAIN history : Says(messages, history[i])

SeenAlike(messages, next) == \A r : Says(messages, r) => Says(next, r)

ViewShown == Shown(view.messages, view.history)
RecordsShown == \A id \in Sid : store[id] # Nil => Shown(store[id].messages, store[id].history)
SavesShown ==
    \A m \in BagToSet(posts) :
        m.type = "save" => Shown(m.snapshot.messages, m.snapshot.history)

(* What the run of r was given and what it gives back.                       *)
Gives(r, messages) ==
    /\ Says(messages, r)
    /\ agent[r].pc \in {"work", "last", "asking"} => Shown(messages, agent[r].history)
    /\ \A m \in coming : m.run = r /\ m.kind = "done" /\ m.ok => Shown(messages, m.history)
    /\ \A i \in 1 .. Len(chan[r]) :
          chan[r][i].kind = "done" /\ chan[r][i].ok => Shown(messages, chan[r][i].history)

RunsShown == \A r \in Run : InProgress(r) => Gives(r, view.messages) /\ NoneSaved

AllShown == ViewShown /\ RecordsShown /\ SavesShown /\ RunsShown

TurnsInv == ~mixed /\ ~hasty => AllShown

LEMMA StepIds == TypeInv /\ IdsInv /\ [Next]_vars => IdsInv'
<1> SUFFICES ASSUME TypeInv, IdsInv, [Next]_vars PROVE IdsInv'
  OBVIOUS
<1>1. CASE UNCHANGED vars
  BY <1>1 DEF vars, IdsInv
<1>2. CASE GoesOn
  BY <1>2 DEF GoesOn, Continues, SavesKept, IdsInv
<1>3. CASE Moves \/ \E r \in Run : Begins(r)
  BY <1>3 DEF Moves, Begins
<1>4. ASSUME NEW r \in Run, (\E m, a : Sends(r, m, a)) \/ AgentResume(r) \/ Receive(r)
      PROVE  IdsInv'
  BY <1>4 DEF Sends, AgentResume, Receive, uiVars, IdsInv
<1>5. ASSUME NEW m \in coming, Takes(m) \/ DropMessage(m) PROVE IdsInv'
  BY <1>5 DEF Takes, DropMessage, uiVars, IdsInv
<1>6. ASSUME NEW m \in coming, Ends(m) PROVE IdsInv'
  <2> DEFINE n == [type |-> "save", snapshot |-> Snapshot(view')]
  <2>1. n.snapshot.id = view.at
    BY <1>6 DEF Ends, Snapshot
  <2>2. view.at \in used /\ UNCHANGED <<store, used>> /\ view'.at = view.at
        /\ BagToSet(posts') = BagToSet(posts) \cup {n}
    BY <1>6 DEF Ends, IdsInv
  <2> HIDE DEF n
  <2> QED
    BY <2>1, <2>2 DEF IdsInv
<1> QED
  BY <1>1, <1>2, <1>3, <1>4, <1>5, <1>6, NextSteps DEF Step, StepOfRun, StepOfMessage

LEMMA KnownShown ==
    ASSUME AllShown, NEW id, NEW messages, NEW history, Known(id, messages, history)
    PROVE  Shown(messages, history)
<1>1. Shown(<<>>, <<>>)
  BY DEF Shown
<1> QED
  BY <1>1 DEF Known, AllShown, ViewShown, RecordsShown, SavesShown

(* More messages show no less.                                               *)
LEMMA MoreShown ==
    ASSUME NEW messages, NEW next, SeenAlike(messages, next)
    PROVE  /\ \A history : Shown(messages, history) => Shown(next, history)
           /\ \A r \in Run : Gives(r, messages) => Gives(r, next)
<1>1. \A history : Shown(messages, history) => Shown(next, history)
  BY DEF SeenAlike, Shown
<1> QED
  BY <1>1 DEF SeenAlike, Gives

(* A step in which the session goes on.                                      *)
LEMMA GoesOnTurns == TypeInv /\ OneRunInv /\ TurnsInv /\ GoesOn => TurnsInv'
<1> SUFFICES ASSUME TypeInv, OneRunInv, TurnsInv, GoesOn, ~mixed', ~hasty' PROVE AllShown'
  BY DEF TurnsInv
<1>1. /\ UNCHANGED <<store, agent, chan, readers, coming, home, mixed>>
      /\ view'.at = view.at /\ SavesKept /\ ~mixed /\ AllShown
  <2>1. ~mixed
    BY DEF GoesOn
  <2>2. ~hasty
    BY DEF GoesOn, TypeInv, StoreInv
  <2> QED
    BY <2>1, <2>2 DEF GoesOn, Continues, TurnsInv
<1>2. RecordsShown' /\ SavesShown' /\ (NoneSaved => NoneSaved')
  BY <1>1 DEF AllShown, RecordsShown, SavesShown, SavesKept, NoneSaved, Shown
<1>3. ViewShown'
  BY <1>1 DEF GoesOn, Continues, AllShown, ViewShown, Shown
<1>4. ASSUME NEW r \in Run, InProgress(r)' PROVE Gives(r, view.messages)' /\ NoneSaved'
  <2>1. InProgress(r)
    BY <1>1, <1>4 DEF InProgress
  <2>2. view'.messages = view.messages
    BY <1>1, <2>1 DEF OneRunInv, GoesOn, Continues
  <2>3. Gives(r, view.messages) /\ NoneSaved
    BY <1>1, <2>1 DEF AllShown, RunsShown
  <2> QED
    BY <1>1, <1>2, <2>2, <2>3 DEF Gives, Shown
<1> QED
  BY <1>2, <1>3, <1>4 DEF AllShown, RunsShown

LEMMA MovesTurns == TypeInv /\ OneRunInv /\ TurnsInv /\ Moves => TurnsInv'
<1> SUFFICES ASSUME TypeInv, TurnsInv, Moves, ~mixed', ~hasty' PROVE AllShown'
  BY DEF TurnsInv
<1>1. /\ UNCHANGED <<agent, chan, readers, coming>>
      /\ SavesKept /\ ~mixed /\ AllShown
  <2>1. ~mixed
    BY DEF Moves, Replaces
  <2>2. ~hasty
    BY DEF Moves
  <2> QED
    BY <2>1, <2>2 DEF Moves, appOnly, TurnsInv
<1>2. ViewShown'
  <2>1. Shown(view'.messages, view'.history)
    BY <1>1, KnownShown DEF Moves
  <2> QED
    BY <2>1 DEF ViewShown, Shown
<1>3. RecordsShown'
  <2>1. \A id \in Sid : store'[id] # Nil => Shown(store'[id].messages, store'[id].history)
    BY <1>1, KnownShown DEF Moves, KnownRecords
  <2> QED
    BY <2>1 DEF RecordsShown, Shown
<1>4. SavesShown'
  BY <1>1 DEF AllShown, SavesShown, SavesKept, Shown
<1>5. ASSUME NEW r \in Run, InProgress(r)' PROVE Gives(r, view.messages)' /\ NoneSaved'
  <2>1. InProgress(r)
    BY <1>1, <1>5 DEF InProgress
  <2>2. Gives(r, view.messages) /\ NoneSaved
    BY <1>1, <2>1 DEF AllShown, RunsShown
  <2>3. view'.messages = view.messages /\ view'.at = view.at
    BY <2>1, <2>2 DEF Moves, Replaces
  <2> QED
    BY <1>1, <2>2, <2>3 DEF Gives, Shown, NoneSaved, SavesKept
<1> QED
  BY <1>2, <1>3, <1>4, <1>5 DEF AllShown, RunsShown

LEMMA SendsTurns ==
    ASSUME TypeInv, TurnsInv, NEW r \in Run, NEW m, NEW a, Sends(r, m, a)
    PROVE  TurnsInv'
<1> SUFFICES ASSUME ~mixed', ~hasty' PROVE AllShown'
  BY DEF TurnsInv
<1>1. /\ UNCHANGED <<view, store, posts, readers, coming, mixed, hasty>>
      /\ \A p \in Run : p # r => agent'[p] = agent[p] /\ chan'[p] = chan[p]
      /\ agent'[r] = a /\ chan'[r] = Append(chan[r], m)
      /\ agent[r].pc \in {"work", "last"}
      /\ chan[r] \in Seq(AgentMessageType) /\ m \in AgentMessageType /\ m.run = r
  BY DEF Sends, uiVars, TypeInv, RunsInv
<1>2. AllShown /\ Gives(r, view.messages) /\ NoneSaved
  BY <1>1 DEF TurnsInv, AllShown, RunsShown, InProgress
<1>3. ViewShown' /\ RecordsShown' /\ SavesShown' /\ NoneSaved'
  BY <1>1, <1>2 DEF AllShown, ViewShown, RecordsShown, SavesShown, NoneSaved, Shown
<1>4. ASSUME m.kind = "done", m.ok PROVE Shown(view.messages, m.history)
  <2> DEFINE h == agent[r].history
  <2>1. m.history = Append(h, r) /\ h \in Seq(Run)
    BY <1>4 DEF Sends, TypeInv, RunsInv, AgentType
  <2>2. Shown(view.messages, h) /\ Says(view.messages, r)
    BY <1>1, <1>2 DEF Gives
  <2> HIDE DEF h
  <2>3. \A i \in DOMAIN m.history : m.history[i] = r \/ (i \in DOMAIN h /\ m.history[i] = h[i])
    BY <2>1
  <2> QED
    BY <2>2, <2>3 DEF Shown
<1>5. Gives(r, view.messages)'
  <2>1. a.pc \in {"work", "last", "asking"} => Shown(view.messages, a.history)
    BY <1>1, <1>2 DEF Sends, Gives
  <2>2. ASSUME NEW i \in 1 .. Len(chan'[r]), chan'[r][i].kind = "done", chan'[r][i].ok
        PROVE  Shown(view.messages, chan'[r][i].history)
    <3>1. chan'[r][i] = m \/ (i \in 1 .. Len(chan[r]) /\ chan'[r][i] = chan[r][i])
      BY <1>1
    <3>2. CASE chan'[r][i] = m
      BY <1>4, <2>2, <3>2
    <3>3. CASE i \in 1 .. Len(chan[r]) /\ chan'[r][i] = chan[r][i]
      BY <1>2, <2>2, <3>3 DEF Gives
    <3> QED
      BY <3>1, <3>2, <3>3
  <2>3. /\ Says(view.messages, r)
        /\ \A n \in coming : n.run = r /\ n.kind = "done" /\ n.ok => Shown(view.messages, n.history)
    BY <1>2 DEF Gives
  <2> QED
    BY <1>1, <2>1, <2>2, <2>3 DEF Gives, Shown
<1>6. ASSUME NEW p \in Run, p # r, InProgress(p)' PROVE Gives(p, view.messages)'
  <2>1. InProgress(p)
    BY <1>1, <1>6 DEF InProgress
  <2>2. Gives(p, view.messages)
    BY <1>2, <2>1 DEF AllShown, RunsShown
  <2> QED
    BY <1>1, <1>6, <2>2 DEF Gives, Shown
<1> QED
  BY <1>3, <1>5, <1>6 DEF AllShown, RunsShown

LEMMA ResumeTurns ==
    ASSUME TypeInv, TurnsInv, NEW r \in Run, AgentResume(r)
    PROVE  TurnsInv'
<1> SUFFICES ASSUME ~mixed', ~hasty' PROVE AllShown'
  BY DEF TurnsInv
<1>1. /\ UNCHANGED <<view, store, posts, chan, readers, coming, mixed, hasty>>
      /\ \A p \in Run : p # r => agent'[p] = agent[p]
      /\ agent[r].pc = "asking" /\ agent'[r].history = agent[r].history
  BY DEF AgentResume, uiVars, TypeInv, RunsInv, AgentType
<1>2. AllShown /\ NoneSaved
  BY <1>1 DEF TurnsInv, AllShown, RunsShown, InProgress
<1>3. ViewShown' /\ RecordsShown' /\ SavesShown' /\ NoneSaved'
  BY <1>1, <1>2 DEF AllShown, ViewShown, RecordsShown, SavesShown, NoneSaved, Shown
<1>4. ASSUME NEW p \in Run, InProgress(p)' PROVE Gives(p, view.messages)'
  <2>1. InProgress(p)
    BY <1>1, <1>4 DEF InProgress
  <2>2. Gives(p, view.messages)
    BY <1>2, <2>1 DEF AllShown, RunsShown
  <2>3. agent'[p].history = agent[p].history
        /\ (p = r => agent[p].pc \in {"work", "last", "asking"})
    BY <1>1
  <2> QED
    BY <1>1, <2>2, <2>3 DEF Gives, Shown
<1> QED
  BY <1>3, <1>4 DEF AllShown, RunsShown

LEMMA ReceiveTurns ==
    ASSUME TypeInv, StreamInv, TurnsInv, NEW r \in Run, Receive(r)
    PROVE  TurnsInv'
<1> SUFFICES ASSUME ~mixed', ~hasty' PROVE AllShown'
  BY DEF TurnsInv
<1> DEFINE m == Head(chan[r])
           c == Tail(chan[r])
<1>1. /\ UNCHANGED <<view, store, posts, agent, mixed, hasty>>
      /\ coming' = coming \cup {m}
      /\ \A p \in Run : p # r => chan'[p] = chan[p] /\ readers'[p] = readers[p]
      /\ chan'[r] = c /\ readers[r] > 0
      /\ chan[r] # <<>> /\ chan[r] \in Seq(AgentMessageType) /\ m = chan[r][1]
      /\ 1 \in 1 .. Len(chan[r])
  BY DEF Receive, uiVars, TypeInv, RunsInv
<1>2. m.run = r
  BY <1>1 DEF StreamInv, Stream, Channel
<1>3. \A i \in 1 .. Len(c) : i + 1 \in 1 .. Len(chan[r]) /\ c[i] = chan[r][i + 1]
  BY <1>1
<1> HIDE DEF m, c
<1>4. AllShown /\ Gives(r, view.messages) /\ NoneSaved
  BY <1>1 DEF TurnsInv, AllShown, RunsShown, InProgress
<1>5. ViewShown' /\ RecordsShown' /\ SavesShown' /\ NoneSaved'
  BY <1>1, <1>4 DEF AllShown, ViewShown, RecordsShown, SavesShown, NoneSaved, Shown
<1>6. Gives(r, view.messages)'
  <2> DEFINE Good(n) == n.kind = "done" /\ n.ok => Shown(view.messages, n.history)
  <2>1. \A i \in 1 .. Len(chan[r]) : Good(chan[r][i])
    BY <1>4 DEF Gives
  <2>2. \A n \in coming : n.run = r => Good(n)
    BY <1>4 DEF Gives
  <2>3. /\ Says(view.messages, r)
        /\ agent[r].pc \in {"work", "last", "asking"} => Shown(view.messages, agent[r].history)
    BY <1>4 DEF Gives
  <2> HIDE DEF Good
  <2>4. \A i \in 1 .. Len(c) : Good(c[i])
    BY <1>3, <2>1
  <2>5. \A n \in coming' : n.run = r => Good(n)
    BY <1>1, <2>1, <2>2
  <2> QED
    BY <1>1, <2>3, <2>4, <2>5 DEF Good, Gives, Shown
<1>7. ASSUME NEW p \in Run, p # r, InProgress(p)' PROVE Gives(p, view.messages)'
  <2>1. InProgress(p)
    BY <1>1, <1>2, <1>7 DEF InProgress
  <2>2. Gives(p, view.messages)
    BY <1>4, <2>1 DEF AllShown, RunsShown
  <2>3. \A n \in coming' : n.run = p => n \in coming
    BY <1>1, <1>2, <1>7
  <2> QED
    BY <1>1, <1>7, <2>2, <2>3 DEF Gives, Shown
<1> QED
  BY <1>5, <1>6, <1>7 DEF AllShown, RunsShown

LEMMA TakesTurns ==
    ASSUME TypeInv, TurnsInv, NEW m, Takes(m) \/ (m \in coming /\ DropMessage(m))
    PROVE  TurnsInv'
<1> SUFFICES ASSUME ~mixed', ~hasty' PROVE AllShown'
  BY DEF TurnsInv
<1>1. /\ UNCHANGED <<store, posts, agent, chan, mixed, hasty>>
      /\ view'.at = view.at /\ view'.history = view.history
      /\ SeenAlike(view.messages, view'.messages)
      /\ coming' = coming \ {m}
      /\ m \in coming /\ m.run \in Run
      /\ \A p \in Run : p # m.run => readers'[p] = readers[p]
  BY DEF Takes, DropMessage, uiVars, TypeInv, RunsInv, AgentMessageType, SeenAlike
<1>2. AllShown /\ NoneSaved
  BY <1>1 DEF TurnsInv, AllShown, RunsShown, InProgress
<1>3. RecordsShown' /\ SavesShown' /\ NoneSaved'
  BY <1>1, <1>2 DEF AllShown, RecordsShown, SavesShown, NoneSaved, Shown
<1>4. ViewShown'
  BY <1>1, <1>2, MoreShown DEF AllShown, ViewShown, Shown
<1>5. ASSUME NEW p \in Run, InProgress(p)' PROVE Gives(p, view.messages)'
  <2>1. InProgress(p)
    BY <1>1, <1>5 DEF InProgress
  <2>2. Gives(p, view'.messages)
    BY <1>1, <1>2, <2>1, MoreShown DEF AllShown, RunsShown
  <2> QED
    BY <1>1, <2>2 DEF Gives, Shown
<1> QED
  BY <1>3, <1>4, <1>5 DEF AllShown, RunsShown

LEMMA EndsTurns ==
    ASSUME TypeInv, StreamInv, OneRunInv, TurnsInv, NEW m, Ends(m)
    PROVE  TurnsInv'
<1> SUFFICES ASSUME ~mixed', ~hasty' PROVE AllShown'
  BY DEF TurnsInv
<1>1. /\ UNCHANGED <<store, agent, chan, mixed, hasty>>
      /\ view'.history = IF m.ok THEN m.history ELSE view.history
      /\ SeenAlike(view.messages, view'.messages)
      /\ m \in coming /\ m.kind = "done"
  BY DEF Ends, SeenAlike
<1>2. AllShown /\ Gives(m.run, view.messages)
  BY <1>1, EndsLast DEF TurnsInv, AllShown, RunsShown
<1>3. Shown(view'.messages, view'.history)
  <2>1. Shown(view.messages, view'.history)
    BY <1>1, <1>2 DEF AllShown, ViewShown, Gives
  <2> QED
    BY <1>1, <2>1, MoreShown
<1>4. SavesShown'
  <2> DEFINE s == Snapshot(view')
  <2>1. s.messages = view'.messages /\ s.history = view'.history
    BY DEF Snapshot
  <2>2. BagToSet(posts') = BagToSet(posts) \cup {[type |-> "save", snapshot |-> s]}
    BY DEF Ends
  <2> HIDE DEF s
  <2>3. \A n \in BagToSet(posts') : n.type = "save" =>
           Shown(n.snapshot.messages, n.snapshot.history)
    BY <1>2, <1>3, <2>1, <2>2 DEF AllShown, SavesShown
  <2> QED
    BY <2>3 DEF SavesShown, Shown
<1>5. RecordsShown' /\ ViewShown'
  BY <1>1, <1>2, <1>3 DEF AllShown, RecordsShown, ViewShown, Shown
<1>6. \A p \in Run : ~InProgress(p)'
  BY <1>1, EndsLast DEF OneRunInv
<1> QED
  BY <1>4, <1>5, <1>6 DEF AllShown, RunsShown

LEMMA BeginsTurns ==
    ASSUME TypeInv, StreamInv, OneRunInv, IdsInv, TurnsInv, NEW r \in Run, Begins(r)
    PROVE  TurnsInv'
<1> SUFFICES ASSUME ~mixed', ~hasty' PROVE AllShown'
  BY DEF TurnsInv
<1>1. /\ ~mixed /\ \A p \in Run : ~InProgress(p)
      /\ AllShown /\ NoneSaved'
  BY NoneBefore DEF Begins, TurnsInv
<1>2. PICK messages \in Seq(MessageType) :
         /\ Known(view'.at, messages, view'.history)
         /\ view'.messages = Append(messages, UserMessage(r))
  BY DEF Begins
<1>3. SeenAlike(messages, view'.messages) /\ Says(view'.messages, r)
  BY <1>2, SaidOps DEF SeenAlike
<1>4. Shown(view'.messages, view'.history)
  BY <1>1, <1>2, <1>3, KnownShown, MoreShown
<1>5. ViewShown'
  BY <1>4 DEF ViewShown, Shown
<1>6. RecordsShown'
  <2>1. \A id \in Sid : store'[id] # Nil => Shown(store'[id].messages, store'[id].history)
    BY <1>1, KnownShown DEF Begins, KnownRecords
  <2> QED
    BY <2>1 DEF RecordsShown, Shown
<1>7. SavesShown'
  BY <1>1 DEF Begins, AllShown, SavesShown, SavesKept, Shown
<1>8. PICK a : a.history = view'.history /\ agent' = [agent EXCEPT ![r] = a]
  BY DEF Begins
<1>9. /\ UNCHANGED <<chan, coming>> /\ agent[r].pc = "idle"
      /\ agent'[r].history = view'.history
      /\ \A p \in Run : p # r => agent'[p] = agent[p] /\ readers'[p] = readers[p]
  BY <1>8 DEF Begins, TypeInv, RunsInv
<1>10. Gives(r, view.messages)'
  <2>1. chan'[r] = <<>> /\ \A m \in coming' : m.run # r
    BY <1>9 DEF StreamInv, Stream, Unborn
  <2> QED
    BY <1>3, <1>4, <1>9, <2>1 DEF Gives, Says, Shown
<1>11. ASSUME NEW p \in Run, p # r PROVE ~InProgress(p)'
  BY <1>1, <1>9, <1>11 DEF InProgress
<1> QED
  BY <1>1, <1>5, <1>6, <1>7, <1>10, <1>11 DEF AllShown, RunsShown

LEMMA StepTurns ==
    TypeInv /\ StreamInv /\ OneRunInv /\ IdsInv /\ TurnsInv /\ [Next]_vars => TurnsInv'
<1> SUFFICES ASSUME TypeInv, StreamInv, OneRunInv, IdsInv, TurnsInv, [Next]_vars
             PROVE  TurnsInv'
  OBVIOUS
<1>1. CASE UNCHANGED vars
  BY <1>1 DEF vars, TurnsInv, AllShown, ViewShown, RecordsShown, SavesShown, RunsShown,
     Gives, NoneSaved, Shown, Says, InProgress
<1>2. CASE Step
  BY <1>2, GoesOnTurns, MovesTurns, SendsTurns, ResumeTurns, ReceiveTurns, BeginsTurns,
     TakesTurns, EndsTurns DEF Step, StepOfRun, StepOfMessage
<1> QED
  BY <1>1, <1>2, NextSteps

(* Every turn of the history that goes with the next question is one the     *)
(* user sees, as long as no view is replaced under a run and nothing is      *)
(* typed while a snapshot is on its way: no snapshot, restored session or    *)
(* /clear takes a command away and leaves its turn (WithHistory,             *)
(* applySnapshot, handlePaletteCmd).                                         *)
THEOREM TurnsStayShown == Spec => []TurnsAreShown
<1> DEFINE Inv == TypeInv /\ StreamInv /\ OneRunInv /\ IdsInv /\ TurnsInv
<1>1. Init => Inv
  <2> SUFFICES ASSUME Init PROVE OneRunInv /\ IdsInv /\ TurnsInv
    BY InitTyped, InitStream
  <2>1. BagToSet(posts) = {}
    BY DEF Init, BagToSet, EmptyBag, SetToBag
  <2>2. \A r \in Run : ~InProgress(r)
    BY DEF Init, Idle, InProgress
  <2>3. view.at = Nil /\ view.messages = <<>> /\ view.history = <<>>
    BY WelcomeOp DEF Init
  <2>4. \A id \in Sid : store[id] = Nil
    BY DEF Init
  <2>5. ViewShown
    BY <2>3 DEF ViewShown, Shown
  <2> QED
    BY <2>1, <2>2, <2>3, <2>4, <2>5 DEF OneRunInv, IdsInv, TurnsInv, AllShown, RecordsShown,
       SavesShown, RunsShown
<1>2. Inv /\ [Next]_vars => Inv'
  BY StepTyped, StepStream, StepOneRun, StepIds, StepTurns
<1>3. Inv => TurnsAreShown
  BY DEF TurnsInv, AllShown, ViewShown, Shown, Says, TurnsAreShown
<1> QED
  BY <1>1, <1>2, <1>3, PTL DEF Spec
=============================================================================
