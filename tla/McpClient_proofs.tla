--------------------------- MODULE McpClient_proofs ---------------------------
(***************************************************************************)
(* Proofs about McpClient: for any number of connections, servers and      *)
(* goroutines, and any bound on ids, messages and versions.                *)
(***************************************************************************)
EXTENDS McpClient, TLAPS

(***************************************************************************)
(* What the control points say of the locals: the strengthening that makes *)
(* TypeOK inductive.                                                       *)
(***************************************************************************)

CallTyped ==
  \A t \in Thread :
    /\ pc[t] \in {"register", "send", "wait", "cancel", "close"} => tconn[t] \in Conn
    /\ pc[t] \in {"send", "wait", "cancel", "close"} => tid[t] \in Id
    /\ pc[t] = "register" => outcome[t] # "reply"
    /\ outcome[t] = "reply" => tconn[t] \in Conn /\ tid[t] \in Id /\ result[t] \in Reply

DiscoverTyped ==
  \A d \in Discoverer :
    /\ pc[d] \notin {"idle", "done"} => kind[d] \in Kind
    /\ pc[d] \notin {"idle", "done", "next"} => asked[d] \in Server

ManagerTyped == \A m \in Manager : mpc[m] = "drain" => mold[m] \in Conn

ReaderTyped == \A c \in Conn : reader[c] = "send" => held[c] \in Reply

Typed == TypeOK /\ CallTyped /\ DiscoverTyped /\ ManagerTyped /\ ReaderTyped

(***************************************************************************)
(* The inductive invariant.  An id is a token: from Register until its     *)
(* channel has been sent on or closed it is in exactly one place, the      *)
(* registry of one connection, the hand of a readLoop, the list of a       *)
(* CloseAll or that of a Cancel, and only its call knows it.               *)
(***************************************************************************)

(* What has a token is open, and what may be sent on is empty.               *)
TokensOpen ==
  /\ \A c \in Conn : pending[c] \subseteq open /\ \A i \in pending[c] : buf[i] = Nil
  /\ ChannelsSafe

(* No token is in two places.                                                *)
TokensUnique ==
  /\ \A c, d \in Conn : c # d => pending[c] \cap pending[d] = {}
  /\ \A x \in Closer, c \in Conn : closing[x] \cap pending[c] = {}
  /\ \A x, y \in Closer : x # y => closing[x] \cap closing[y] = {}
  /\ \A c \in Conn : reader[c] = "send" =>
       /\ \A d \in Conn : held[c].id \notin pending[d]
       /\ \A x \in Closer : held[c].id \notin closing[x]
       /\ \A d \in Conn : d # c /\ reader[d] = "send" => held[d].id # held[c].id
  /\ \A t \in Thread : pc[t] = "close" =>
       /\ \A c \in Conn : tid[t] \notin pending[c]
       /\ \A x \in Closer : tid[t] \notin closing[x]
       /\ \A c \in Conn : reader[c] = "send" => held[c].id # tid[t]

(* Ids are issued once: what is beyond the counter is nowhere, and two        *)
(* threads have no id in common.                                             *)
Issued ==
  /\ \A i \in open : i <= gen
  /\ \A i \in Id : buf[i] # Nil => i <= gen
  /\ \A t \in Thread : tid[t] <= gen
  /\ \A t, u \in Thread : t # u /\ tid[t] = tid[u] => tid[t] = 0

(* Who runs CloseAll has nothing left to close when it begins.                *)
NothingLeft ==
  /\ \A c \in Conn : reader[c] # "closing" => closing[c] = {}
  /\ \A m \in Manager : mpc[m] # "closing" => closing[m] = {}

(* The readLoop of a connection is started once, by the Connect that made it. *)
NewReaders ==
  /\ \A m \in Manager : mnew[m] # Nil => mnew[m] \in Conn /\ reader[mnew[m]] = "new"
  /\ \A m, n \in Manager : m # n /\ mnew[m] = mnew[n] => mnew[m] = Nil

(* A closed registry is empty.                                               *)
ClosedEmpty == \A c \in Conn : closeErr[c] => pending[c] = {}

(* NoLostWakeup, from the moment the request is registered.                   *)
Wakeable ==
  \A t \in Thread : pc[t] \in {"send", "wait"} =>
    \/ tid[t] \in pending[tconn[t]] /\ ~closeErr[tconn[t]]
    \/ buf[tid[t]] # Nil \/ tid[t] \notin open
    \/ \E c \in Conn : reader[c] = "send" /\ held[c].id = tid[t]
    \/ \E x \in Closer : tid[t] \in closing[x]

(* While a call waits, its channel is closed by CloseAll only, which has left *)
(* its error by then.                                                        *)
ClosedByCloseAll ==
  /\ \A t \in Thread : pc[t] \in {"send", "wait"} =>
       /\ tid[t] \notin open => closeErr[tconn[t]]
       /\ \A x \in Closer : tid[t] \in closing[x] => closeErr[tconn[t]]
  /\ CloseErrVisible

(* A response on its way belongs to the request of its id, and came on the    *)
(* connection that request was sent on.                                      *)
InboxMatches ==
  \A c \in Conn : \A n \in 1 .. Len(inbox[c]) :
    inbox[c][n].type = "reply" => inbox[c][n].reply.id \in wire[c]

HeldMatches ==
  \A c \in Conn : reader[c] = "send" =>
    /\ held[c].id \in wire[c]
    /\ \A t \in Thread : pc[t] \in {"send", "wait"} /\ tid[t] = held[c].id
                          => tconn[t] = c

BufMatches ==
  /\ \A i \in Id : buf[i] # Nil => buf[i].id = i
  /\ \A t \in Thread : pc[t] \in {"send", "wait"} /\ buf[tid[t]] # Nil
                        => tid[t] \in wire[tconn[t]]

(* A call returns the response to its own request, sent by the server on the  *)
(* connection the call used.                                                  *)
OwnReply ==
  \A t \in Thread : outcome[t] = "reply" =>
    result[t].id = tid[t] /\ tid[t] \in wire[tconn[t]]

ReplyInv == InboxMatches /\ HeldMatches /\ BufMatches /\ OwnReply

TokenInv ==
  /\ TokensOpen
  /\ TokensUnique
  /\ Issued
  /\ NothingLeft
  /\ NewReaders
  /\ ClosedEmpty
  /\ NoLeak
  /\ Wakeable
  /\ ClosedByCloseAll

IInv == Typed /\ TokenInv

(* Control points of a call between Register and Cancel.                      *)
Busy == {"send", "wait", "cancel", "close"}

-----------------------------------------------------------------------------

LEMMA InitTyped == Init => Typed
  BY ClientAssumption, RegistryAssumption
  DEF Init, RegistryInit, Typed, TypeOK, RegistryTypeOK, ClientTypeOK, ConnTypeOK,
      ReaderTypeOK, CallTypeOK, DiscoverTypeOK, ManagerTypeOK, CallTyped,
      DiscoverTyped, ManagerTyped, ReaderTyped, ReaderPc, ThreadPc, ManagerPc,
      Outcome, Thread

LEMMA CallLookupTyped ==
  ASSUME Typed, NEW t \in Thread, NEW s \in Server, CallLookup(t, s)
  PROVE  Typed'
<1> USE DEF Typed, TypeOK, registryVars, clientVars, listVars, connVars,
            readerVars, callVars, discVars, threadVars, managerVars
<1>1. CallTypeOK'
  BY ClientAssumption DEF CallLookup, Lookup, CallTypeOK, ThreadPc, Outcome,
      Thread, ClientTypeOK
<1>2. CallTyped'
  BY ClientAssumption DEF CallLookup, Lookup, CallTyped, CallTypeOK, Thread, Id,
      ClientTypeOK
<1>3. DiscoverTyped'
  BY ClientAssumption DEF CallLookup, Lookup, DiscoverTyped, DiscoverTypeOK,
      CallTypeOK, Thread
<1>4. (RegistryTypeOK /\ ClientTypeOK /\ ConnTypeOK /\ ReaderTypeOK
       /\ DiscoverTypeOK /\ ManagerTypeOK /\ ManagerTyped /\ ReaderTyped)'
  BY DEF CallLookup, Lookup, RegistryTypeOK, Id, ClientTypeOK, ConnTypeOK,
      ReaderTypeOK, ReaderPc, DiscoverTypeOK, Thread, ManagerTypeOK, ManagerPc,
      ManagerTyped, ReaderTyped
<1> QED
  BY <1>1, <1>2, <1>3, <1>4

LEMMA CallRegisterTyped ==
  ASSUME Typed, NEW t \in Thread, CallRegister(t)
  PROVE  Typed'
<1> USE DEF Typed, TypeOK, registryVars, clientVars, listVars, connVars,
            readerVars, callVars, discVars, threadVars, managerVars
<1>1. gen + 1 \in Id /\ tconn[t] \in Conn
  BY RegistryAssumption
  DEF CallRegister, RegisterAs, ClientTypeOK, CallTyped, CallTypeOK, Id
<1>2. ClientTypeOK'
  BY <1>1 DEF CallRegister, RegisterAs, ClientTypeOK, Id
<1>3. RegistryTypeOK'
  BY <1>1 DEF CallRegister, RegisterAs, Register, RegistryTypeOK
<1>4. tid' = [tid EXCEPT ![t] = gen + 1] /\ tconn' = tconn /\ result' = result
  BY DEF CallRegister, RegisterAs
<1>5. \E next \in {"ret", "send"} : pc' = [pc EXCEPT ![t] = next]
  BY DEF CallRegister, RegisterAs
<1>6. outcome' \in {outcome, [outcome EXCEPT ![t] = "refused"]}
  BY DEF CallRegister, RegisterAs
<1>7. CallTypeOK'
  BY <1>1, <1>4, <1>5, <1>6
  DEF CallRegister, RegisterAs, CallTypeOK, ThreadPc, Outcome, Id
<1>8. CallTyped'
  BY <1>1, <1>4, <1>5, <1>6
  DEF CallRegister, RegisterAs, CallTyped, CallTypeOK, ThreadPc, Outcome
<1>9. DiscoverTyped'
  BY <1>5 DEF CallRegister, RegisterAs, DiscoverTyped, CallTypeOK, Thread
<1>10. (ConnTypeOK /\ ReaderTypeOK /\ DiscoverTypeOK /\ ManagerTypeOK
        /\ ManagerTyped /\ ReaderTyped)'
  BY DEF CallRegister, RegisterAs, ConnTypeOK, ReaderTypeOK, DiscoverTypeOK,
         ManagerTypeOK, ManagerTyped, ReaderTyped
<1> QED
  BY <1>2, <1>3, <1>7, <1>8, <1>9, <1>10

LEMMA CallSendTyped ==
  ASSUME Typed, NEW t \in Thread, CallSend(t)
  PROVE  Typed'
<1> USE DEF Typed, TypeOK, registryVars, clientVars, listVars, connVars,
            readerVars, callVars, discVars, threadVars, managerVars
<1>1. ConnTypeOK'
  BY ClientAssumption DEF CallSend, ConnTypeOK, Id, CallTyped
<1>2. CallTypeOK'
  BY ClientAssumption DEF CallSend, CallTypeOK, ThreadPc, Outcome, Thread
<1>3. CallTyped'
  BY ClientAssumption DEF CallSend, CallTyped, CallTypeOK, Thread, Id
<1>4. (RegistryTypeOK /\ ClientTypeOK /\ ReaderTypeOK /\ DiscoverTypeOK
       /\ ManagerTypeOK /\ DiscoverTyped /\ ManagerTyped /\ ReaderTyped)'
  BY DEF CallSend, RegistryTypeOK, Id, ClientTypeOK, ReaderTypeOK, ReaderPc,
      DiscoverTypeOK, Thread, ManagerTypeOK, ManagerPc, DiscoverTyped,
      CallTypeOK, ManagerTyped, ReaderTyped
<1> QED
  BY <1>1, <1>2, <1>3, <1>4

LEMMA CallSendFailsTyped ==
  ASSUME Typed, NEW t \in Thread, CallSendFails(t)
  PROVE  Typed'
<1> USE DEF Typed, TypeOK, registryVars, clientVars, listVars, connVars,
            readerVars, callVars, discVars, threadVars, managerVars
<1>1. ConnTypeOK'
  <2>1. tconn[t] \in Conn /\ tid[t] \in Id
    BY DEF CallSendFails, SendFails, CallTyped
  <2>2. wire' \in {wire, [wire EXCEPT ![tconn[t]] = @ \cup {tid[t]}]}
    BY DEF CallSendFails, SendFails
  <2>3. tclosed' \in {tclosed, [tclosed EXCEPT ![tconn[t]] = TRUE]}
    BY DEF CallSendFails, SendFails
  <2>4. wire' \in [Conn -> SUBSET Id]
    <3>1. CASE wire' = wire
      BY <3>1 DEF ConnTypeOK
    <3>2. CASE wire' = [wire EXCEPT ![tconn[t]] = @ \cup {tid[t]}]
      BY <2>1, <3>2 DEF ConnTypeOK
    <3> QED
      BY <2>2, <3>1, <3>2
  <2>5. tclosed' \in [Conn -> BOOLEAN]
    BY <2>3 DEF ConnTypeOK
  <2> QED
    BY <2>4, <2>5 DEF CallSendFails, SendFails, ConnTypeOK
<1>2. CallTypeOK'
  BY ClientAssumption DEF CallSendFails, SendFails, CallTypeOK, ThreadPc,
      Outcome, Thread
<1>3. CallTyped'
  BY ClientAssumption DEF CallSendFails, SendFails, CallTyped, CallTypeOK,
      Thread, Id
<1>4. (RegistryTypeOK /\ ClientTypeOK /\ ReaderTypeOK /\ DiscoverTypeOK
       /\ ManagerTypeOK /\ DiscoverTyped /\ ManagerTyped /\ ReaderTyped)'
  BY DEF CallSendFails, SendFails, RegistryTypeOK, Id, ClientTypeOK,
      ReaderTypeOK, ReaderPc, DiscoverTypeOK, Thread, ManagerTypeOK, ManagerPc,
      DiscoverTyped, CallTypeOK, ManagerTyped, ReaderTyped
<1> QED
  BY <1>1, <1>2, <1>3, <1>4

LEMMA CallSelectTyped ==
  ASSUME Typed, NEW t \in Thread, CallSelect(t)
  PROVE  Typed'
<1> USE DEF Typed, TypeOK, registryVars, clientVars, listVars, connVars,
            readerVars, callVars, discVars, threadVars, managerVars
<1>1. RegistryTypeOK'
  BY ClientAssumption DEF CallSelect, RegistryTypeOK, Id
<1>2. CallTypeOK'
  BY ClientAssumption DEF CallSelect, CallTypeOK, ThreadPc, Outcome, Thread,
      RegistryTypeOK, CallTyped
<1>3. CallTyped'
  BY ClientAssumption DEF CallSelect, CallTyped, CallTypeOK, Thread, Id,
      RegistryTypeOK
<1>4. (ClientTypeOK /\ ConnTypeOK /\ ReaderTypeOK /\ DiscoverTypeOK
       /\ ManagerTypeOK /\ DiscoverTyped /\ ManagerTyped /\ ReaderTyped)'
  BY DEF CallSelect, ClientTypeOK, ConnTypeOK, Id, ReaderTypeOK, ReaderPc,
      DiscoverTypeOK, Thread, ManagerTypeOK, ManagerPc, DiscoverTyped,
      CallTypeOK, ManagerTyped, ReaderTyped
<1> QED
  BY <1>1, <1>2, <1>3, <1>4

LEMMA CallCancelTyped ==
  ASSUME Typed, NEW t \in Thread, CallCancel(t)
  PROVE  Typed'
<1> USE DEF Typed, TypeOK, registryVars, clientVars, listVars, connVars,
            readerVars, callVars, discVars, threadVars, managerVars
<1>1. RegistryTypeOK'
  BY ClientAssumption DEF CallCancel, Take, RegistryTypeOK, Id
<1>2. CallTypeOK'
  BY ClientAssumption DEF CallCancel, Take, CallTypeOK, ThreadPc, Outcome,
      Thread
<1>3. CallTyped'
  BY ClientAssumption DEF CallCancel, Take, CallTyped, CallTypeOK, Thread, Id
<1>4. (ClientTypeOK /\ ConnTypeOK /\ ReaderTypeOK /\ DiscoverTypeOK
       /\ ManagerTypeOK /\ DiscoverTyped /\ ManagerTyped /\ ReaderTyped)'
  BY DEF CallCancel, Take, ClientTypeOK, ConnTypeOK, Id, ReaderTypeOK, ReaderPc,
      DiscoverTypeOK, Thread, ManagerTypeOK, ManagerPc, DiscoverTyped,
      CallTypeOK, ManagerTyped, ReaderTyped
<1> QED
  BY <1>1, <1>2, <1>3, <1>4

LEMMA DiscoverNextTyped ==
  ASSUME Typed, NEW d \in Discoverer, NEW s \in Server, DiscoverNext(d, s)
  PROVE  Typed'
<1> USE DEF Typed, TypeOK, registryVars, clientVars, listVars, connVars,
            readerVars, callVars, discVars, threadVars, managerVars
<1>1. CallTypeOK'
  BY ClientAssumption DEF DiscoverNext, Lookup, CallTypeOK, ThreadPc, Outcome,
      Thread, ClientTypeOK
<1>2. CallTyped'
  BY ClientAssumption DEF DiscoverNext, Lookup, CallTyped, CallTypeOK, Thread,
      Id, ClientTypeOK
<1>3. DiscoverTypeOK'
  BY ClientAssumption DEF DiscoverNext, Lookup, DiscoverTypeOK, Thread
<1>4. DiscoverTyped'
  BY ClientAssumption DEF DiscoverNext, Lookup, DiscoverTyped, DiscoverTypeOK,
      CallTypeOK, Thread
<1>5. (RegistryTypeOK /\ ClientTypeOK /\ ConnTypeOK
       /\ ReaderTypeOK /\ ManagerTypeOK /\ ManagerTyped /\ ReaderTyped)'
  BY DEF DiscoverNext, Lookup, RegistryTypeOK, Id, ClientTypeOK, ConnTypeOK,
      ReaderTypeOK, ReaderPc, ManagerTypeOK, ManagerPc, ManagerTyped,
      ReaderTyped
<1> QED
  BY <1>1, <1>2, <1>3, <1>4, <1>5

LEMMA DiscoverStoreTyped ==
  ASSUME Typed, NEW d \in Discoverer, DiscoverStore(d)
  PROVE  Typed'
<1> USE DEF Typed, TypeOK, registryVars, clientVars, listVars, connVars,
            readerVars, callVars, discVars, threadVars, managerVars
<1>1. ClientTypeOK'
  BY ClientAssumption DEF DiscoverStore, Listing, Reply, ClientTypeOK,
      CallTyped, DiscoverTyped, DiscoverTypeOK, Thread
<1>2. CallTypeOK'
  BY ClientAssumption DEF DiscoverStore, Listing, Reply, CallTypeOK, ThreadPc,
      Outcome, Thread
<1>3. CallTyped'
  BY ClientAssumption DEF DiscoverStore, Listing, Reply, CallTyped, CallTypeOK,
      Thread, Id
<1>4. (RegistryTypeOK /\ ConnTypeOK /\ ReaderTypeOK /\ DiscoverTypeOK
       /\ ManagerTypeOK /\ DiscoverTyped /\ ManagerTyped /\ ReaderTyped)'
  BY DEF DiscoverStore, Listing, Reply, RegistryTypeOK, Id, ConnTypeOK,
      ReaderTypeOK, ReaderPc, DiscoverTypeOK, Thread, ManagerTypeOK, ManagerPc,
      DiscoverTyped, CallTypeOK, ManagerTyped, ReaderTyped
<1> QED
  BY <1>1, <1>2, <1>3, <1>4

LEMMA ReaderMessageTyped ==
  ASSUME Typed, NEW c \in Conn, ReaderMessage(c)
  PROVE  Typed'
<1> USE DEF Typed, TypeOK, registryVars, clientVars, listVars, connVars,
            readerVars, callVars, discVars, threadVars, managerVars
<1>1. RegistryTypeOK'
  BY ClientAssumption DEF ReaderMessage, Take, RegistryTypeOK, Id
<1>2. ClientTypeOK'
  BY ClientAssumption DEF ReaderMessage, Take, ClientTypeOK, ConnTypeOK, Message
<1>3. ConnTypeOK'
  BY ClientAssumption DEF ReaderMessage, Take, ConnTypeOK, Id
<1>4. ReaderTypeOK'
  <2>1. CASE held' = held
    BY <2>1 DEF ReaderMessage, ReaderTypeOK, ReaderPc
  <2>2. CASE held' # held
    <3> DEFINE m == Head(inbox[c])
    <3>1. m \in Message
      BY DEF ReaderMessage, ConnTypeOK
    <3>2. m.type = "reply" /\ held' = [held EXCEPT ![c] = m.reply]
      BY <2>2 DEF ReaderMessage
    <3>3. m.reply \in Reply
      BY <3>1, <3>2 DEF Message
    <3> QED
      BY <3>2, <3>3 DEF ReaderMessage, ReaderTypeOK, ReaderPc
  <2> QED
    BY <2>1, <2>2
<1>5. ReaderTyped'
  BY ClientAssumption DEF ReaderMessage, Take, ReaderTyped, ReaderTypeOK,
      ConnTypeOK, Message
<1>6. (CallTypeOK /\ DiscoverTypeOK /\ ManagerTypeOK
       /\ CallTyped /\ DiscoverTyped /\ ManagerTyped)'
  BY DEF ReaderMessage, Take, CallTypeOK, ThreadPc, Outcome, Thread,
      DiscoverTypeOK, ManagerTypeOK, ManagerPc, CallTyped, Id, DiscoverTyped,
      ManagerTyped
<1> QED
  BY <1>1, <1>2, <1>3, <1>4, <1>5, <1>6

LEMMA ReaderDrainTyped ==
  ASSUME Typed, NEW c \in Conn, ReaderDrain(c)
  PROVE  Typed'
<1> USE DEF Typed, TypeOK, registryVars, clientVars, listVars, connVars,
            readerVars, callVars, discVars, threadVars, managerVars
<1>1. RegistryTypeOK'
  BY ClientAssumption DEF ReaderDrain, CloseAll, Drain, Closer, RegistryTypeOK,
      Id
<1>2. ReaderTypeOK'
  BY ClientAssumption DEF ReaderDrain, CloseAll, Drain, Closer, ReaderTypeOK,
      ReaderPc, RegistryTypeOK
<1>3. ReaderTyped'
  BY ClientAssumption DEF ReaderDrain, CloseAll, Drain, Closer, ReaderTyped,
      ReaderTypeOK
<1>4. (ClientTypeOK /\ ConnTypeOK /\ CallTypeOK /\ DiscoverTypeOK
       /\ ManagerTypeOK /\ CallTyped /\ DiscoverTyped /\ ManagerTyped)'
  BY DEF ReaderDrain, CloseAll, Drain, Closer, ClientTypeOK, ConnTypeOK, Id,
      CallTypeOK, ThreadPc, Outcome, Thread, DiscoverTypeOK, ManagerTypeOK,
      ManagerPc, CallTyped, DiscoverTyped, ManagerTyped
<1> QED
  BY <1>1, <1>2, <1>3, <1>4

LEMMA TeardownDrainTyped ==
  ASSUME Typed, NEW m \in Manager, TeardownDrain(m)
  PROVE  Typed'
<1> USE DEF Typed, TypeOK, registryVars, clientVars, listVars, connVars,
            readerVars, callVars, discVars, threadVars, managerVars
<1>1. RegistryTypeOK'
  BY ClientAssumption DEF TeardownDrain, CloseAll, Drain, Closer,
      RegistryTypeOK, Id
<1>2. ReaderTypeOK'
  BY ClientAssumption DEF TeardownDrain, CloseAll, Drain, Closer, ReaderTypeOK,
      ReaderPc, RegistryTypeOK, ManagerTyped
<1>3. ManagerTypeOK'
  BY ClientAssumption DEF TeardownDrain, CloseAll, Drain, Closer, ManagerTypeOK,
      ManagerPc
<1>4. (ClientTypeOK /\ ConnTypeOK /\ CallTypeOK /\ DiscoverTypeOK
       /\ CallTyped /\ DiscoverTyped /\ ManagerTyped /\ ReaderTyped)'
  BY DEF TeardownDrain, CloseAll, Drain, Closer, ClientTypeOK, ConnTypeOK, Id,
      CallTypeOK, ThreadPc, Outcome, Thread, DiscoverTypeOK, CallTyped,
      DiscoverTyped, ManagerTyped, ManagerTypeOK, ReaderTyped, ReaderTypeOK
<1> QED
  BY <1>1, <1>2, <1>3, <1>4

LEMMA TypedStep == Typed /\ [Next]_vars => Typed'
<1> SUFFICES ASSUME Typed, [Next]_vars PROVE Typed'
  OBVIOUS
<1> USE ClientAssumption, RegistryAssumption
    DEF Typed, TypeOK, RegistryTypeOK, ClientTypeOK, ConnTypeOK, ReaderTypeOK,
        CallTypeOK, DiscoverTypeOK, ManagerTypeOK, CallTyped, DiscoverTyped,
        ManagerTyped, ReaderTyped, ReaderPc, ThreadPc, ManagerPc, Outcome, Thread,
        Id, registryVars, clientVars, listVars, connVars, readerVars, callVars,
        discVars, threadVars, managerVars
<1>1. ASSUME NEW t \in Thread, CancelContext(t) PROVE Typed'
  BY <1>1 DEF CancelContext
<1>2. ASSUME NEW t \in Thread, NEW s \in Server, CallLookup(t, s) PROVE Typed'
  BY <1>2, CallLookupTyped
<1>3. ASSUME NEW t \in Thread, CallRegister(t) PROVE Typed'
  BY <1>3, CallRegisterTyped
<1>4. ASSUME NEW t \in Thread, CallSend(t) PROVE Typed'
  BY <1>4, CallSendTyped
<1>5. ASSUME NEW t \in Thread, CallSendFails(t) PROVE Typed'
  BY <1>5, CallSendFailsTyped
<1>6. ASSUME NEW t \in Thread, CallSelect(t) PROVE Typed'
  BY <1>6, CallSelectTyped
<1>7. ASSUME NEW t \in Thread, CallCancel(t) PROVE Typed'
  BY <1>7, CallCancelTyped
<1>8. ASSUME NEW t \in Thread, CallClose(t) PROVE Typed'
  BY <1>8 DEF CallClose, CloseChan
<1>9. ASSUME NEW t \in Thread, CallReturn(t) PROVE Typed'
  BY <1>9 DEF CallReturn, Leave
<1>10. ASSUME NEW d \in Discoverer, NEW k \in Kind, DiscoverStart(d, k) PROVE Typed'
  BY <1>10 DEF DiscoverStart, Connected
<1>11. ASSUME NEW d \in Discoverer, NEW s \in Server, DiscoverNext(d, s) PROVE Typed'
  BY <1>11, DiscoverNextTyped
<1>12. ASSUME NEW d \in Discoverer, DiscoverError(d) PROVE Typed'
  BY <1>12 DEF DiscoverError
<1>13. ASSUME NEW d \in Discoverer, DiscoverStore(d) PROVE Typed'
  BY <1>13, DiscoverStoreTyped
<1>14. ASSUME NEW d \in Discoverer, DiscoverEnd(d) PROVE Typed'
  BY <1>14 DEF DiscoverEnd, Leave
<1>15. ASSUME NEW c \in Conn, ReaderReceive(c) PROVE Typed'
  BY <1>15 DEF ReaderReceive
<1>16. ASSUME NEW c \in Conn, ReceiveCancelled(c) PROVE Typed'
  BY <1>16 DEF ReceiveCancelled
<1>17. ASSUME NEW c \in Conn, ReaderFails(c) PROVE Typed'
  BY <1>17 DEF ReaderFails, ReceiveFails
<1>18. ASSUME NEW c \in Conn, ReaderMessage(c) PROVE Typed'
  BY <1>18, ReaderMessageTyped
<1>19. ASSUME NEW c \in Conn, ReaderSend(c) PROVE Typed'
  BY <1>19 DEF ReaderSend, Deliver, Reply
<1>20. ASSUME NEW c \in Conn, ReaderDrain(c) PROVE Typed'
  BY <1>20, ReaderDrainTyped
<1>21. ASSUME NEW c \in Conn, ReaderExit(c) PROVE Typed'
  BY <1>21 DEF ReaderExit
<1>22. ASSUME NEW x \in Closer, CloseDrained(x) PROVE Typed'
  BY <1>22 DEF CloseDrained, CloseChan
<1>23. ASSUME NEW m \in Manager, NEW s \in Server, NEW c \in Conn, ConnectSwap(m, s, c) PROVE Typed'
  BY <1>23 DEF ConnectSwap, Swap
<1>24. ASSUME NEW m \in Manager, DisconnectBegin(m) PROVE Typed'
  BY <1>24 DEF DisconnectBegin, Connected
<1>25. ASSUME NEW m \in Manager, NEW s \in Server, DisconnectDelete(m, s) PROVE Typed'
  BY <1>25 DEF DisconnectDelete
<1>26. ASSUME NEW m \in Manager, DisconnectEnd(m) PROVE Typed'
  BY <1>26 DEF DisconnectEnd, ManagerLeave
<1>27. ASSUME NEW m \in Manager, TeardownDrain(m) PROVE Typed'
  BY <1>27, TeardownDrainTyped
<1>28. ASSUME NEW m \in Manager, TeardownCancel(m) PROVE Typed'
  BY <1>28 DEF TeardownCancel
<1>29. ASSUME NEW m \in Manager, TeardownRemove(m) PROVE Typed'
  BY <1>29 DEF TeardownRemove
<1>30. ASSUME NEW m \in Manager, TeardownClose(m) PROVE Typed'
  BY <1>30 DEF TeardownClose
<1>31. ASSUME NEW m \in Manager, ConnectStart(m) PROVE Typed'
  BY <1>31 DEF ConnectStart, ManagerLeave
<1>32. ASSUME NEW c \in Conn, NEW i \in Id, NEW ok \in Oks, ServerReply(c, i, ok) PROVE Typed'
  BY SMTT(30), <1>32 DEF ServerReply, Post, Message, Reply
<1>33. ASSUME NEW c \in Conn, ServerJunk(c) PROVE Typed'
  BY <1>33 DEF ServerJunk, Post, Message
<1>34. ASSUME NEW c \in Conn, NEW k \in Kind, ServerChange(c, k) PROVE Typed'
  BY SMTT(30), <1>34 DEF ServerChange, Post, Message
<1>35. ASSUME NEW c \in Conn, ServerExit(c) PROVE Typed'
  BY <1>35 DEF ServerExit
<1>36. CASE UNCHANGED vars
  BY <1>36 DEF vars
<1> QED
  BY <1>1, <1>2, <1>3, <1>4, <1>5, <1>6, <1>7, <1>8, <1>9, <1>10, <1>11,
     <1>12, <1>13, <1>14, <1>15, <1>16, <1>17, <1>18, <1>19, <1>20, <1>21,
     <1>22, <1>23, <1>24, <1>25, <1>26, <1>27, <1>28, <1>29, <1>30, <1>31,
     <1>32, <1>33, <1>34, <1>35, <1>36
  DEF Next, Start, Environment, CallStep, DiscoverStep, ReaderStep, ManagerStep

(* Every variable keeps its type: what the code indexes, sends and stores is   *)
(* there when it does.                                                        *)
THEOREM TypeCorrect == Spec => []TypeOK
<1>1. Spec => []Typed
  BY InitTyped, TypedStep, PTL DEF Spec
<1>2. Typed => TypeOK
  BY DEF Typed
<1> QED
  BY <1>1, <1>2, PTL

-----------------------------------------------------------------------------
(***************************************************************************)
(* The tokens.  One lemma for each kind of step that moves one, and three   *)
(* for the steps that move none: of a goroutine outside call, of a readLoop *)
(* and of a manager.                                                        *)
(***************************************************************************)

LEMMA InitTokens == Init => TokenInv
  BY ClientAssumption
  DEF Init, RegistryInit, TokenInv, TokensOpen, ChannelsSafe, TokensUnique, Issued,
      NothingLeft, NewReaders, ClosedEmpty, NoLeak, Wakeable, ClosedByCloseAll,
      CloseErrVisible, Closer

LEMMA OutsideCallKeeps ==
  ASSUME IInv, Typed', NEW t \in Thread,
         pc[t] \notin Busy, pc'[t] \notin Busy,
         tid'[t] \in {tid[t], 0}, outcome'[t] # "cancelled",
         \A u \in Thread \ {t} : /\ pc'[u] = pc[u] /\ tid'[u] = tid[u]
                                 /\ tconn'[u] = tconn[u] /\ outcome'[u] = outcome[u],
         UNCHANGED <<registryVars, gen, reader, held, mpc, mnew, closing>>
  PROVE  TokenInv'
<1> USE DEF IInv, TokenInv, Typed, TypeOK, CallTypeOK, Busy, registryVars
<1>1. TokensOpen'
  BY DEF TokensOpen, ChannelsSafe
<1>2. TokensUnique'
  BY DEF TokensUnique
<1>3. Issued'
  <2>1. 0 <= gen
    BY DEF ClientTypeOK
  <2> QED
    BY <2>1 DEF Issued
<1>4. NoLeak'
  BY DEF NoLeak
<1>5. Wakeable'
  BY DEF Wakeable
<1>6. ClosedByCloseAll'
  BY DEF ClosedByCloseAll, CloseErrVisible
<1>7. (NothingLeft /\ NewReaders /\ ClosedEmpty)'
  BY DEF NothingLeft, NewReaders, ClosedEmpty
<1> QED
  BY <1>1, <1>2, <1>3, <1>4, <1>5, <1>6, <1>7

LEMMA CallRegisterKeeps ==
  ASSUME IInv, Typed', NEW t \in Thread, CallRegister(t)
  PROVE  TokenInv'
<1> DEFINE i == gen + 1
<1> USE DEF IInv, TokenInv, Typed, TypeOK, registryVars, listVars, connVars, readerVars,
            discVars, managerVars
<1>1. /\ pc[t] = "register" /\ tconn[t] \in Conn
      /\ gen' = i /\ tid' = [tid EXCEPT ![t] = i]
      /\ UNCHANGED <<tconn, reader, held, closing, closeErr, buf, mpc, mnew>>
  BY DEF CallRegister, RegisterAs, Register, CallTyped
<1>2. \/ /\ pc' = [pc EXCEPT ![t] = "ret"]
         /\ outcome' = [outcome EXCEPT ![t] = "refused"]
         /\ UNCHANGED <<pending, open>>
      \/ /\ pc' = [pc EXCEPT ![t] = "send"] /\ outcome' = outcome
         /\ pending' = [pending EXCEPT ![tconn[t]] = @ \cup {i}]
         /\ open' = open \cup {i} /\ ~closeErr[tconn[t]]
  BY DEF CallRegister, RegisterAs, Register, RegisterFails
<1>3. /\ i \in Id /\ gen \in Nat /\ i # 0 /\ \A j \in 0 .. MaxId : j <= gen => j # i /\ j <= i
  BY RegistryAssumption DEF CallRegister, RegisterAs, ClientTypeOK, Id
<1>4. i \notin open /\ buf[i] = Nil /\ \A u \in Thread : tid[u] # i
  BY <1>3 DEF Issued, RegistryTypeOK, CallTypeOK, Id
<1>5. /\ \A c \in Conn : i \notin pending[c]
      /\ \A x \in Closer : i \notin closing[x]
      /\ \A c \in Conn : reader[c] = "send" => held[c].id # i
  BY <1>4 DEF TokensOpen, ChannelsSafe
<1> HIDE DEF i
<1> USE DEF CallTypeOK, RegistryTypeOK
<1>6. TokensOpen'
  BY <1>1, <1>2, <1>4, <1>5 DEF TokensOpen, ChannelsSafe
<1>7. TokensUnique'
  BY <1>1, <1>2, <1>4, <1>5 DEF TokensUnique
<1>8. Issued'
  <2>1. gen <= gen' /\ i <= gen' /\ \A j \in 0 .. MaxId : j <= gen => j <= gen'
    BY <1>1, <1>3
  <2> QED
    BY <1>1, <1>2, <1>4, <2>1 DEF Issued, Id
<1>9. NoLeak'
  BY <1>1, <1>2 DEF NoLeak
<1>10. Wakeable'
  <2> SUFFICES ASSUME NEW u \in Thread, pc'[u] \in {"send", "wait"}
               PROVE  Wakeable!(u)'
    BY DEF Wakeable
  <2>1. CASE u = t
    BY <1>1, <1>2, <2>1
  <2>2. CASE u # t
    <3>1. pc[u] \in {"send", "wait"} /\ tconn[u] \in Conn /\ tid'[u] = tid[u]
      BY <1>1, <1>2, <2>2 DEF CallTyped
    <3>2. tid[u] \in pending[tconn[u]] => tid[u] \in pending'[tconn[u]]
      BY <1>1, <1>2, <3>1
    <3>3. tid[u] \notin open => tid[u] \notin open'
      BY <1>2, <1>4
    <3> QED
      BY <1>1, <3>1, <3>2, <3>3 DEF Wakeable
  <2> QED
    BY <2>1, <2>2
<1>11. ClosedByCloseAll'
  BY <1>1, <1>2, <1>4, <1>5 DEF ClosedByCloseAll, CloseErrVisible
<1>12. (NothingLeft /\ NewReaders /\ ClosedEmpty)'
  BY <1>1, <1>2 DEF NothingLeft, NewReaders, ClosedEmpty
<1> QED
  BY <1>6, <1>7, <1>8, <1>9, <1>10, <1>11, <1>12

(* Send, whether it succeeds or not. *)
LEMMA CallSendKeeps ==
  ASSUME IInv, Typed', NEW t \in Thread, CallSend(t) \/ CallSendFails(t)
  PROVE  TokenInv'
<1> USE DEF IInv, TokenInv, Typed, TypeOK, CallTypeOK
<1>1. /\ pc[t] = "send"
      /\ pc' = [pc EXCEPT ![t] = pc'[t]] /\ pc'[t] \in {"wait", "cancel"}
      /\ outcome' \in {outcome, [outcome EXCEPT ![t] = "send"]}
      /\ UNCHANGED <<pending, closeErr, open, buf, gen, reader, held, closing, tconn,
                     tid, mpc, mnew>>
  BY DEF CallSend, CallSendFails, SendFails, registryVars, clientVars, readerVars,
         managerVars
<1>2. TokensOpen'
  BY <1>1 DEF TokensOpen, ChannelsSafe
<1>3. TokensUnique'
  BY <1>1 DEF TokensUnique
<1>4. NoLeak'
  BY <1>1 DEF NoLeak
<1>5. Wakeable'
  BY <1>1 DEF Wakeable
<1>6. ClosedByCloseAll'
  BY <1>1 DEF ClosedByCloseAll, CloseErrVisible
<1>7. (Issued /\ NothingLeft /\ NewReaders /\ ClosedEmpty)'
  BY <1>1 DEF Issued, NothingLeft, NewReaders, ClosedEmpty
<1> QED
  BY <1>2, <1>3, <1>4, <1>5, <1>6, <1>7

LEMMA CallSelectKeeps ==
  ASSUME IInv, Typed', NEW t \in Thread, CallSelect(t)
  PROVE  TokenInv'
<1> USE DEF IInv, TokenInv, Typed, TypeOK, CallTypeOK, RegistryTypeOK
<1>1. /\ pc[t] = "wait" /\ tid[t] \in Id /\ tid[t] # 0
      /\ pc' = [pc EXCEPT ![t] = "cancel"]
      /\ buf' \in {buf, [buf EXCEPT ![tid[t]] = Nil]}
      /\ UNCHANGED <<pending, closeErr, open, gen, reader, held, closing, tconn, tid,
                     mpc, mnew>>
  BY DEF CallSelect, CallTyped, clientVars, readerVars, managerVars, Id
<1>2. TokensOpen'
  BY <1>1 DEF TokensOpen, ChannelsSafe
<1>3. TokensUnique'
  BY <1>1 DEF TokensUnique
<1>4. Issued'
  BY <1>1 DEF Issued
<1>5. NoLeak'
  BY <1>1 DEF NoLeak
<1>6. Wakeable'
  <2> SUFFICES ASSUME NEW u \in Thread, pc'[u] \in {"send", "wait"}
               PROVE  Wakeable!(u)'
    BY DEF Wakeable
  <2>1. pc[u] \in {"send", "wait"} /\ u # t
    BY <1>1
  <2>2. tid[u] # tid[t] /\ tid[u] \in Id
    BY <1>1, <2>1 DEF Issued, CallTyped
  <2> QED
    BY <1>1, <2>1, <2>2 DEF Wakeable
<1>7. ClosedByCloseAll'
  <2>1. outcome'[t] # "cancelled" /\ \A u \in Thread \ {t} : outcome'[u] = outcome[u]
    BY <1>1 DEF CallSelect, ClosedByCloseAll
  <2> QED
    BY <1>1, <2>1 DEF ClosedByCloseAll, CloseErrVisible
<1>8. (NothingLeft /\ NewReaders /\ ClosedEmpty)'
  BY <1>1 DEF NothingLeft, NewReaders, ClosedEmpty
<1> QED
  BY <1>2, <1>3, <1>4, <1>5, <1>6, <1>7, <1>8

(* Cancel takes the request out of the registry, and closes its channel.      *)
LEMMA CallCancelKeeps ==
  ASSUME IInv, Typed', NEW t \in Thread, CallCancel(t)
  PROVE  TokenInv'
<1> USE DEF IInv, TokenInv, Typed, TypeOK, CallTypeOK, RegistryTypeOK
<1>1. /\ pc[t] = "cancel" /\ tid[t] \in Id /\ tid[t] # 0 /\ tconn[t] \in Conn
      /\ UNCHANGED <<closeErr, open, buf, gen, reader, held, closing, tconn, tid,
                     outcome, mpc, mnew>>
  BY DEF CallCancel, Take, CallTyped, registryVars, clientVars, readerVars,
         managerVars, Id
<1>2. \/ /\ pc' = [pc EXCEPT ![t] = "close"] /\ tid[t] \in pending[tconn[t]]
         /\ pending' = [pending EXCEPT ![tconn[t]] = @ \ {tid[t]}]
      \/ /\ pc' = [pc EXCEPT ![t] = "ret"] /\ tid[t] \notin pending[tconn[t]]
         /\ pending' = pending
  BY DEF CallCancel, Take, registryVars
<1>3. \A u \in Thread : u # t => tid[u] # tid[t]
  BY <1>1 DEF Issued
<1>4. TokensOpen'
  BY <1>1, <1>2 DEF TokensOpen, ChannelsSafe
<1>5. TokensUnique'
  BY <1>1, <1>2, <1>3 DEF TokensUnique
<1>6. NoLeak'
  BY <1>1, <1>2, <1>3 DEF NoLeak
<1>7. Wakeable'
  <2> SUFFICES ASSUME NEW u \in Thread, pc'[u] \in {"send", "wait"}
               PROVE  Wakeable!(u)'
    BY DEF Wakeable
  <2>1. u # t /\ pc[u] \in {"send", "wait"} /\ tconn[u] \in Conn
    BY <1>1, <1>2 DEF CallTyped
  <2>2. tid[u] \in pending[tconn[u]] => tid[u] \in pending'[tconn[u]]
    BY <1>1, <1>2, <1>3, <2>1
  <2> QED
    BY <1>1, <2>1, <2>2 DEF Wakeable
<1>8. ClosedByCloseAll'
  BY <1>1, <1>2 DEF ClosedByCloseAll, CloseErrVisible
<1>9. ClosedEmpty'
  BY <1>1, <1>2 DEF ClosedEmpty
<1>10. (Issued /\ NothingLeft /\ NewReaders)'
  BY <1>1 DEF Issued, NothingLeft, NewReaders
<1> QED
  BY <1>4, <1>5, <1>6, <1>7, <1>8, <1>9, <1>10

LEMMA CallCloseKeeps ==
  ASSUME IInv, Typed', NEW t \in Thread, CallClose(t)
  PROVE  TokenInv'
<1> USE DEF IInv, TokenInv, Typed, TypeOK, CallTypeOK, RegistryTypeOK
<1>1. /\ pc[t] = "close" /\ tid[t] \in Id /\ tid[t] # 0
      /\ pc' = [pc EXCEPT ![t] = "ret"] /\ open' = open \ {tid[t]}
      /\ UNCHANGED <<pending, closeErr, buf, gen, reader, held, closing, tconn, tid,
                     outcome, mpc, mnew>>
  BY DEF CallClose, CloseChan, CallTyped, clientVars, readerVars, managerVars, Id
<1>2. \A u \in Thread : u # t => tid[u] # tid[t]
  BY <1>1 DEF Issued
<1>3. /\ \A c \in Conn : tid[t] \notin pending[c]
      /\ \A x \in Closer : tid[t] \notin closing[x]
      /\ \A c \in Conn : reader[c] = "send" => held[c].id # tid[t]
  BY <1>1 DEF TokensUnique
<1>4. TokensOpen'
  BY <1>1, <1>2, <1>3 DEF TokensOpen, ChannelsSafe
<1>5. TokensUnique'
  BY <1>1 DEF TokensUnique
<1>6. NoLeak'
  BY <1>1 DEF NoLeak
<1>7. Wakeable'
  BY <1>1, <1>2 DEF Wakeable
<1>8. ClosedByCloseAll'
  BY <1>1, <1>2 DEF ClosedByCloseAll, CloseErrVisible
<1>9. (Issued /\ NothingLeft /\ NewReaders /\ ClosedEmpty)'
  BY <1>1 DEF Issued, NothingLeft, NewReaders, ClosedEmpty
<1> QED
  BY <1>4, <1>5, <1>6, <1>7, <1>8, <1>9

(* A readLoop that moves without touching a channel. *)
LEMMA ReaderMovesKeeps ==
  ASSUME IInv, Typed', NEW c \in Conn, reader[c] # "send", reader'[c] # "send",
         \A d \in Conn \ {c} : reader'[d] = reader[d],
         NothingLeft', NewReaders',
         UNCHANGED <<registryVars, gen, held, pc, tconn, tid, outcome, closing>>
  PROVE  TokenInv'
<1> USE DEF IInv, TokenInv, registryVars
<1>1. TokensOpen'
  BY DEF TokensOpen, ChannelsSafe
<1>2. TokensUnique'
  BY DEF TokensUnique
<1>3. Wakeable'
  BY DEF Wakeable
<1>4. (Issued /\ ClosedEmpty /\ NoLeak /\ ClosedByCloseAll)'
  BY DEF Issued, ClosedEmpty, NoLeak, ClosedByCloseAll, CloseErrVisible
<1> QED
  BY <1>1, <1>2, <1>3, <1>4

(* Resolve takes the request out of the registry: the token is in its hand.    *)
LEMMA ResolveKeeps ==
  ASSUME IInv, Typed', NEW c \in Conn, NEW r \in Reply,
         reader[c] = "recv", reader' = [reader EXCEPT ![c] = "send"],
         held' = [held EXCEPT ![c] = r], Take(c, r.id),
         UNCHANGED <<gen, pc, tconn, tid, outcome, closing, mpc, mnew>>
  PROVE  TokenInv'
<1> USE DEF IInv, TokenInv, Typed, TypeOK, RegistryTypeOK, ReaderTypeOK
<1>1. /\ r.id \in pending[c] /\ pending' = [pending EXCEPT ![c] = @ \ {r.id}]
      /\ UNCHANGED <<closeErr, open, buf>>
  BY DEF Take
<1>2. r.id \in open /\ buf[r.id] = Nil
  BY <1>1 DEF TokensOpen
<1>3. /\ \A d \in Conn : r.id \notin pending'[d]
      /\ \A x \in Closer : r.id \notin closing[x]
      /\ \A d \in Conn : reader[d] = "send" => held[d].id # r.id
      /\ \A t \in Thread : pc[t] = "close" => tid[t] # r.id
  BY <1>1 DEF TokensUnique
<1>4. \A d \in Conn : pending'[d] \subseteq pending[d]
  BY <1>1
<1>5. TokensOpen'
  BY <1>1, <1>2, <1>4 DEF TokensOpen, ChannelsSafe
<1>6. TokensUnique'
  <2>1. \A d \in Conn : reader'[d] = "send" =>
          \/ d = c /\ held'[d] = r
          \/ d # c /\ reader[d] = "send" /\ held'[d] = held[d]
    OBVIOUS
  <2>2. \A d, e \in Conn : d # e => pending'[d] \cap pending'[e] = {}
    BY <1>4 DEF TokensUnique
  <2>3. \A x \in Closer, d \in Conn : closing'[x] \cap pending'[d] = {}
    BY <1>4 DEF TokensUnique
  <2>4. \A d \in Conn : reader'[d] = "send" =>
       /\ \A e \in Conn : held'[d].id \notin pending'[e]
       /\ \A x \in Closer : held'[d].id \notin closing'[x]
       /\ \A e \in Conn : e # d /\ reader'[e] = "send" => held'[e].id # held'[d].id
    BY <1>3, <1>4, <2>1 DEF TokensUnique
  <2>5. \A t \in Thread : pc'[t] = "close" =>
       /\ \A d \in Conn : tid'[t] \notin pending'[d]
       /\ \A x \in Closer : tid'[t] \notin closing'[x]
       /\ \A d \in Conn : reader'[d] = "send" => held'[d].id # tid'[t]
    BY <1>3, <1>4, <2>1 DEF TokensUnique
  <2> QED
    BY <2>2, <2>3, <2>4, <2>5 DEF TokensUnique
<1>7. NoLeak'
  BY <1>4 DEF NoLeak
<1>8. Wakeable'
  <2> SUFFICES ASSUME NEW t \in Thread, pc[t] \in {"send", "wait"}
               PROVE  Wakeable!(t)'
    BY DEF Wakeable
  <2>1. CASE tid[t] = r.id
    BY <2>1
  <2>2. CASE tid[t] # r.id
    <3>1. tconn[t] \in Conn
      BY DEF CallTyped
    <3>2. tid[t] \in pending[tconn[t]] => tid[t] \in pending'[tconn[t]]
      BY <1>1, <2>2, <3>1
    <3>3. \A d \in Conn : reader[d] = "send" => reader'[d] = "send" /\ held'[d] = held[d]
      OBVIOUS
    <3> QED
      BY <1>1, <3>2, <3>3 DEF Wakeable
  <2> QED
    BY <2>1, <2>2
<1>9. NothingLeft'
  BY DEF NothingLeft
<1>10. NewReaders'
  BY DEF NewReaders
<1>11. (Issued /\ ClosedEmpty /\ ClosedByCloseAll)'
  BY <1>1, <1>4 DEF Issued, ClosedEmpty, ClosedByCloseAll, CloseErrVisible
<1> QED
  BY <1>5, <1>6, <1>7, <1>8, <1>9, <1>10, <1>11

(* Resolve sends on the channel. *)
LEMMA ReaderSendKeeps ==
  ASSUME IInv, Typed', NEW c \in Conn, ReaderSend(c)
  PROVE  TokenInv'
<1> DEFINE r == held[c]
<1> USE DEF IInv, TokenInv, Typed, TypeOK, RegistryTypeOK, ReaderTypeOK
<1>1. /\ reader[c] = "send" /\ reader' = [reader EXCEPT ![c] = "loop"]
      /\ held' = [held EXCEPT ![c] = Nil]
      /\ buf' = [buf EXCEPT ![r.id] = r]
      /\ UNCHANGED <<pending, closeErr, open, gen, pc, tconn, tid, outcome, closing,
                     mpc, mnew>>
  BY DEF ReaderSend, Deliver, clientVars, callVars, threadVars, managerVars
<1>2. r \in Reply /\ r # Nil /\ r.id \in Id
  BY <1>1, RegistryAssumption DEF ReaderTyped, Reply, Id
<1>3. r.id \in open
  BY <1>1 DEF TokensOpen, ChannelsSafe
<1>4. /\ \A d \in Conn : r.id \notin pending[d]
      /\ \A d \in Conn : d # c /\ reader[d] = "send" => held[d].id # r.id
  BY <1>1 DEF TokensUnique
<1> HIDE DEF r
<1>5. \A d \in Conn : reader'[d] = "send" =>
        d # c /\ reader[d] = "send" /\ held'[d] = held[d]
  BY <1>1
<1>6. TokensOpen'
  BY <1>1, <1>2, <1>4, <1>5 DEF TokensOpen, ChannelsSafe
<1>7. TokensUnique'
  BY <1>1, <1>5 DEF TokensUnique
<1>8. Issued'
  BY <1>1, <1>2, <1>3 DEF Issued
<1>9. Wakeable'
  <2> SUFFICES ASSUME NEW t \in Thread, pc[t] \in {"send", "wait"}
               PROVE  Wakeable!(t)'
    BY <1>1 DEF Wakeable
  <2>1. CASE tid[t] = r.id
    BY <1>1, <1>2, <2>1
  <2>2. CASE tid[t] # r.id
    <3>1. buf'[tid[t]] = buf[tid[t]]
      BY <1>1, <2>2 DEF CallTyped
    <3>2. \A d \in Conn : reader[d] = "send" /\ held[d].id = tid[t] =>
            reader'[d] = "send" /\ held'[d] = held[d]
      BY <1>1, <2>2 DEF r
    <3> QED
      BY <1>1, <3>1, <3>2 DEF Wakeable
  <2> QED
    BY <2>1, <2>2
<1>10. NothingLeft'
  BY <1>1 DEF NothingLeft
<1>11. NewReaders'
  BY <1>1 DEF NewReaders
<1>12. (ClosedEmpty /\ NoLeak /\ ClosedByCloseAll)'
  BY <1>1 DEF ClosedEmpty, NoLeak, ClosedByCloseAll, CloseErrVisible
<1> QED
  BY <1>6, <1>7, <1>8, <1>9, <1>10, <1>11, <1>12

(* CloseAll drains the registry: its tokens are in the hand of goroutine x.    *)
LEMMA CloseAllKeeps ==
  ASSUME IInv, Typed', NEW x \in Closer, NEW c \in Conn, CloseAll(x, c),
         closing[x] = {},
         \A d \in Conn : reader[d] = "send" <=> reader'[d] = "send",
         NothingLeft', NewReaders',
         UNCHANGED <<gen, held, pc, tconn, tid, outcome>>
  PROVE  TokenInv'
<1> USE DEF IInv, TokenInv, Typed, TypeOK, RegistryTypeOK, ReaderTypeOK
<1>1. CASE closeErr[c]
  <2>1. /\ UNCHANGED <<pending, closeErr, open, buf>>
        /\ closing' = [closing EXCEPT ![x] = {}]
    BY <1>1 DEF CloseAll, registryVars, Drain
  <2> closing' = closing
    BY <2>1
  <2>2. TokensOpen'
    BY <2>1 DEF TokensOpen, ChannelsSafe
  <2>3. TokensUnique'
    BY <2>1 DEF TokensUnique
  <2>4. Wakeable'
    BY <2>1 DEF Wakeable
  <2>5. (Issued /\ ClosedEmpty /\ NoLeak /\ ClosedByCloseAll)'
    BY <2>1 DEF Issued, ClosedEmpty, NoLeak, ClosedByCloseAll, CloseErrVisible
  <2> QED
    BY <2>2, <2>3, <2>4, <2>5
<1>2. CASE ~closeErr[c]
  <2>1. /\ closing' = [closing EXCEPT ![x] = pending[c]]
        /\ pending' = [pending EXCEPT ![c] = {}]
        /\ closeErr' = [closeErr EXCEPT ![c] = TRUE]
        /\ UNCHANGED <<open, buf>>
    BY <1>2 DEF CloseAll, Drain
  <2>2. /\ \A d \in Conn : pending'[d] \subseteq pending[d] /\ (d # c => pending'[d] = pending[d])
        /\ \A y \in Closer : closing'[y] = IF y = x THEN pending[c] ELSE closing[y]
        /\ pending'[c] = {}
    BY <2>1
  <2>3. TokensOpen'
    BY <2>1, <2>2 DEF TokensOpen, ChannelsSafe
  <2>4. TokensUnique'
    <3>1. \A d, e \in Conn : d # e => pending'[d] \cap pending'[e] = {}
      BY <2>2 DEF TokensUnique
    <3>2. \A y \in Closer, d \in Conn : closing'[y] \cap pending'[d] = {}
      BY <2>2 DEF TokensUnique
    <3>3. \A y, z \in Closer : y # z => closing'[y] \cap closing'[z] = {}
      BY <2>2 DEF TokensUnique
    <3>4. \A d \in Conn : reader'[d] = "send" =>
            /\ \A e \in Conn : held'[d].id \notin pending'[e]
            /\ \A y \in Closer : held'[d].id \notin closing'[y]
            /\ \A e \in Conn : e # d /\ reader'[e] = "send"
                                 => held'[e].id # held'[d].id
      BY <2>2 DEF TokensUnique
    <3>5. \A t \in Thread : pc'[t] = "close" =>
            /\ \A d \in Conn : tid'[t] \notin pending'[d]
            /\ \A y \in Closer : tid'[t] \notin closing'[y]
            /\ \A d \in Conn : reader'[d] = "send" => held'[d].id # tid'[t]
      BY <2>2 DEF TokensUnique
    <3> QED
      BY <3>1, <3>2, <3>3, <3>4, <3>5 DEF TokensUnique
  <2>5. Wakeable'
    <3> SUFFICES ASSUME NEW t \in Thread, pc[t] \in {"send", "wait"}
                 PROVE  Wakeable!(t)'
      BY DEF Wakeable
    <3>1. tconn[t] \in Conn
      BY DEF CallTyped
    <3>2. CASE tconn[t] = c /\ tid[t] \in pending[c]
      BY <2>2, <3>2
    <3>3. CASE tconn[t] # c \/ tid[t] \notin pending[c]
      <4>1. tid[t] \in pending[tconn[t]] /\ ~closeErr[tconn[t]] =>
              tid[t] \in pending'[tconn[t]] /\ ~closeErr'[tconn[t]]
        BY <2>1, <3>1, <3>3
      <4>2. \A y \in Closer : tid[t] \in closing[y] => tid[t] \in closing'[y]
        BY <2>2
      <4> QED
        BY <2>1, <4>1, <4>2 DEF Wakeable
    <3> QED
      BY <3>2, <3>3
  <2>6. ClosedByCloseAll'
    <3>1. \A d \in Conn : closeErr[d] => closeErr'[d]
      BY <2>1
    <3>2. \A t \in Thread : pc[t] \in {"send", "wait"} /\ tid[t] \in pending[c]
                              => tconn[t] = c
      BY DEF NoLeak, Issued, CallTyped, Id
    <3>3. \A t \in Thread : pc[t] \in {"send", "wait"} => tconn[t] \in Conn
      BY DEF CallTyped
    <3>4. closeErr'[c]
      BY <2>1
    <3> QED
      BY <2>1, <2>2, <3>1, <3>2, <3>3, <3>4 DEF ClosedByCloseAll, CloseErrVisible
  <2>7. (Issued /\ NoLeak /\ ClosedEmpty)'
    BY <2>1, <2>2 DEF Issued, NoLeak, ClosedEmpty
  <2> QED
    BY <2>3, <2>4, <2>5, <2>6, <2>7
<1> QED
  BY <1>1, <1>2

LEMMA CloseDrainedKeeps ==
  ASSUME IInv, Typed', NEW x \in Closer, CloseDrained(x)
  PROVE  TokenInv'
<1> USE DEF IInv, TokenInv, Typed, TypeOK, ReaderTypeOK
<1>1. PICK i \in closing[x] : /\ open' = open \ {i}
                              /\ closing' = [closing EXCEPT ![x] = @ \ {i}]
                              /\ UNCHANGED <<pending, closeErr, buf, gen, reader, held,
                                             pc, tconn, tid, outcome, mpc, mnew>>
  BY DEF CloseDrained, CloseChan, clientVars, readerVars, callVars, threadVars,
         managerVars
<1>2. /\ \A c \in Conn : i \notin pending[c]
      /\ \A c \in Conn : reader[c] = "send" => held[c].id # i
      /\ \A y \in Closer : y # x => i \notin closing[y]
      /\ \A t \in Thread : pc[t] = "close" => tid[t] # i
  BY DEF TokensUnique
<1>3. /\ \A y \in Closer : closing'[y] \subseteq closing[y]
      /\ i \notin closing'[x]
      /\ \A y \in Closer : \A j \in closing[y] : j = i \/ j \in closing'[y]
  BY <1>1
<1>4. TokensOpen'
  BY <1>1, <1>2, <1>3 DEF TokensOpen, ChannelsSafe
<1>5. TokensUnique'
  BY <1>1, <1>3 DEF TokensUnique
<1>6. Wakeable'
  BY <1>1, <1>3 DEF Wakeable
<1>7. ClosedByCloseAll'
  BY <1>1, <1>3 DEF ClosedByCloseAll, CloseErrVisible
<1>8. NothingLeft'
  BY <1>1, <1>3 DEF NothingLeft, Closer
<1>9. (Issued /\ NewReaders /\ ClosedEmpty /\ NoLeak)'
  BY <1>1 DEF Issued, NewReaders, ClosedEmpty, NoLeak
<1> QED
  BY <1>4, <1>5, <1>6, <1>7, <1>8, <1>9

(* A manager that moves without touching a channel. *)
LEMMA ManagerMovesKeeps ==
  ASSUME IInv, Typed', NEW m \in Manager, closing[m] = {},
         \A n \in Manager \ {m} : mpc'[n] = mpc[n] /\ mnew'[n] = mnew[n],
         mnew'[m] \in {mnew[m], Nil},
         UNCHANGED <<registryVars, gen, reader, held, pc, tconn, tid, outcome, closing>>
  PROVE  TokenInv'
<1> USE DEF IInv, TokenInv, registryVars
<1>1. NothingLeft'
  BY DEF NothingLeft
<1>2. NewReaders'
  BY DEF NewReaders
<1>3. (TokensOpen /\ TokensUnique /\ Wakeable)'
  BY DEF TokensOpen, ChannelsSafe, TokensUnique, Wakeable
<1>4. (Issued /\ ClosedEmpty /\ NoLeak /\ ClosedByCloseAll)'
  BY DEF Issued, ClosedEmpty, NoLeak, ClosedByCloseAll, CloseErrVisible
<1> QED
  BY <1>1, <1>2, <1>3, <1>4

LEMMA TokenStep == IInv /\ Typed' /\ [Next]_vars => TokenInv'
<1> SUFFICES ASSUME IInv, Typed', [Next]_vars PROVE TokenInv'
  OBVIOUS
<1> USE ClientAssumption
    DEF Typed, TypeOK, Busy, Thread, registryVars, clientVars, listVars, connVars,
        readerVars, callVars, discVars, threadVars, managerVars
<1>1. Typed /\ TokenInv /\ NothingLeft /\ NewReaders /\ CloseErrVisible
  BY DEF IInv, TokenInv, ClosedByCloseAll
<1>2. ASSUME UNCHANGED <<registryVars, gen, reader, held, pc, tconn, tid, outcome,
                         closing, mpc, mnew>>
      PROVE  TokenInv'
  BY <1>1, <1>2
  DEF TokenInv, TokensOpen, ChannelsSafe, TokensUnique, Issued, NothingLeft,
      NewReaders, ClosedEmpty, NoLeak, Wakeable, ClosedByCloseAll, CloseErrVisible
<1>3. ASSUME NEW t \in Thread, NEW s \in Server,
             CallLookup(t, s) \/ DiscoverNext(t, s)
      PROVE  TokenInv'
  BY <1>1, <1>3, OutsideCallKeeps
  DEF CallLookup, DiscoverNext, Lookup, CallTypeOK
<1>4. ASSUME NEW t \in Thread, CallRegister(t) PROVE TokenInv'
  BY <1>4, CallRegisterKeeps
<1>5. ASSUME NEW t \in Thread, CallSend(t) \/ CallSendFails(t) PROVE TokenInv'
  BY <1>5, CallSendKeeps
<1>6. ASSUME NEW t \in Thread, CallSelect(t) PROVE TokenInv'
  BY <1>6, CallSelectKeeps
<1>7. ASSUME NEW t \in Thread, CallCancel(t) PROVE TokenInv'
  BY <1>7, CallCancelKeeps
<1>8. ASSUME NEW t \in Thread, CallClose(t) PROVE TokenInv'
  BY <1>8, CallCloseKeeps
<1>9. ASSUME NEW t \in Thread, CallReturn(t) \/ DiscoverEnd(t) PROVE TokenInv'
  BY <1>1, <1>9, OutsideCallKeeps DEF CallReturn, DiscoverEnd, Leave, CallTypeOK
<1>10. ASSUME NEW d \in Discoverer,
              \/ \E k \in Kind : DiscoverStart(d, k)
              \/ DiscoverError(d) \/ DiscoverStore(d)
       PROVE  TokenInv'
  BY <1>1, <1>10, OutsideCallKeeps
  DEF DiscoverStart, DiscoverError, DiscoverStore, CallTypeOK, CloseErrVisible
<1>11. ASSUME NEW c \in Conn, ReaderReceive(c) \/ ReaderFails(c) PROVE TokenInv'
  <2>1. reader[c] # "closing" /\ reader[c] # "new" /\ reader'[c] # "send" /\ reader[c] # "send"
    BY <1>11 DEF ReaderReceive, ReaderFails, ReceiveFails, ReaderTypeOK
  <2>2. \A d \in Conn \ {c} : reader'[d] = reader[d]
    BY <1>11 DEF ReaderReceive, ReaderFails, ReceiveFails, ReaderTypeOK
  <2>3. UNCHANGED <<registryVars, gen, held, pc, tconn, tid, outcome, closing, mpc, mnew>>
    BY <1>11 DEF ReaderReceive, ReaderFails, ReceiveFails
  <2>4. NothingLeft' /\ NewReaders'
    BY <1>1, <2>1, <2>2, <2>3 DEF NothingLeft, NewReaders
  <2> QED
    BY <2>1, <2>2, <2>3, <2>4, ReaderMovesKeeps
<1>12. ASSUME NEW c \in Conn, ReaderExit(c) PROVE TokenInv'
  <2>1. NothingLeft' /\ NewReaders'
    BY <1>1, <1>12 DEF ReaderExit, NothingLeft, NewReaders, ReaderTypeOK
  <2> QED
    BY <1>12, <2>1, ReaderMovesKeeps DEF ReaderExit, ReaderTypeOK
<1>13. ASSUME NEW c \in Conn, ReaderMessage(c) PROVE TokenInv'
  <2> DEFINE m == Head(inbox[c])
  <2>1. m \in Message
    BY <1>13 DEF ReaderMessage, ConnTypeOK
  <2>2. CASE m.type = "reply" /\ m.reply.id \in pending[c]
    <3>1. m.reply \in Reply
      BY <2>1, <2>2 DEF Message
    <3>2. /\ reader[c] = "recv" /\ reader' = [reader EXCEPT ![c] = "send"]
          /\ held' = [held EXCEPT ![c] = m.reply] /\ Take(c, m.reply.id)
          /\ UNCHANGED <<gen, pc, tconn, tid, outcome, closing, mpc, mnew>>
      BY <1>13, <2>2 DEF ReaderMessage
    <3> QED
      BY <3>1, <3>2, ResolveKeeps
  <2>3. CASE ~(m.type = "reply" /\ m.reply.id \in pending[c])
    <3>1. /\ reader[c] = "recv" /\ reader' = [reader EXCEPT ![c] = "loop"]
          /\ UNCHANGED <<registryVars, gen, held, pc, tconn, tid, outcome, closing,
                         mpc, mnew>>
      BY <1>13, <2>3 DEF ReaderMessage
    <3>2. NothingLeft' /\ NewReaders'
      BY <1>1, <3>1 DEF NothingLeft, NewReaders, ReaderTypeOK
    <3> QED
      BY <3>1, <3>2, ReaderMovesKeeps DEF ReaderTypeOK
  <2> QED
    BY <2>2, <2>3
<1>14. ASSUME NEW c \in Conn, ReaderSend(c) PROVE TokenInv'
  BY <1>14, ReaderSendKeeps
<1>15. ASSUME NEW c \in Conn, ReaderDrain(c) PROVE TokenInv'
  <2>1. /\ reader[c] = "drain" /\ reader' = [reader EXCEPT ![c] = "closing"]
        /\ CloseAll(c, c) /\ c \in Closer
        /\ UNCHANGED <<gen, held, pc, tconn, tid, outcome, mpc, mnew>>
    BY <1>15 DEF ReaderDrain, Closer
  <2>2. /\ \A d \in Conn : reader[d] = "send" <=> reader'[d] = "send"
        /\ \A x \in Closer : x # c => closing'[x] = closing[x]
    BY <2>1 DEF ReaderTypeOK, CloseAll
  <2>3. NothingLeft'
    BY <1>1, <2>1, <2>2 DEF NothingLeft, ReaderTypeOK, Closer
  <2>4. NewReaders'
    BY <1>1, <2>1 DEF NewReaders, ReaderTypeOK
  <2>5. closing[c] = {}
    BY <1>1, <2>1 DEF NothingLeft
  <2> QED
    BY <2>1, <2>2, <2>3, <2>4, <2>5, CloseAllKeeps
<1>16. ASSUME NEW x \in Closer, CloseDrained(x) PROVE TokenInv'
  BY <1>16, CloseDrainedKeeps
<1>17. ASSUME NEW m \in Manager, NEW s \in Server, NEW c \in Conn, ConnectSwap(m, s, c)
       PROVE  TokenInv'
  <2>1. /\ mpc[m] = "idle" /\ reader[c] = "none"
        /\ reader' = [reader EXCEPT ![c] = "new"] /\ mnew' = [mnew EXCEPT ![m] = c]
        /\ mpc' = [mpc EXCEPT ![m] = mpc'[m]]
        /\ UNCHANGED <<registryVars, gen, held, pc, tconn, tid, outcome, closing>>
    BY <1>17 DEF ConnectSwap, Swap, ManagerTypeOK
  <2>2. NothingLeft'
    BY <1>1, <2>1 DEF NothingLeft, ReaderTypeOK, ManagerTypeOK
  <2>3. NewReaders'
    BY <1>1, <2>1 DEF NewReaders, ReaderTypeOK, ManagerTypeOK
  <2> QED
    BY <2>1, <2>2, <2>3, ReaderMovesKeeps DEF ReaderTypeOK
<1>18. ASSUME NEW m \in Manager,
              \/ DisconnectBegin(m) \/ (\E s \in Server : DisconnectDelete(m, s))
              \/ DisconnectEnd(m) \/ TeardownCancel(m) \/ TeardownRemove(m)
              \/ TeardownClose(m)
       PROVE  TokenInv'
  <2>1. closing[m] = {}
    BY <1>1, <1>18
    DEF NothingLeft, DisconnectBegin, DisconnectDelete, DisconnectEnd, TeardownCancel,
        TeardownRemove, TeardownClose
  <2>2. /\ \A n \in Manager \ {m} : mpc'[n] = mpc[n] /\ mnew'[n] = mnew[n]
        /\ mnew'[m] \in {mnew[m], Nil}
        /\ UNCHANGED <<registryVars, gen, reader, held, pc, tconn, tid, outcome, closing>>
    BY <1>18
    DEF ManagerTypeOK, DisconnectBegin, DisconnectDelete, DisconnectEnd, ManagerLeave,
        TeardownCancel, TeardownRemove, TeardownClose
  <2> QED
    BY <2>1, <2>2, ManagerMovesKeeps
<1>19. ASSUME NEW m \in Manager, TeardownDrain(m) PROVE TokenInv'
  <2>1. /\ mpc[m] = "drain" /\ mpc' = [mpc EXCEPT ![m] = "closing"]
        /\ CloseAll(m, mold[m]) /\ m \in Closer /\ mold[m] \in Conn
        /\ UNCHANGED <<gen, reader, held, pc, tconn, tid, outcome, mnew>>
    BY <1>1, <1>19 DEF TeardownDrain, Closer, ManagerTyped
  <2>2. \A x \in Closer : x # m => closing'[x] = closing[x]
    BY <2>1 DEF ReaderTypeOK, CloseAll
  <2>3. NothingLeft'
    BY <1>1, <2>1, <2>2 DEF NothingLeft, ManagerTypeOK, Closer
  <2>4. NewReaders'
    BY <1>1, <2>1 DEF NewReaders
  <2>5. closing[m] = {}
    BY <1>1, <2>1 DEF NothingLeft
  <2> QED
    BY <2>1, <2>3, <2>4, <2>5, CloseAllKeeps
<1>20. ASSUME NEW m \in Manager, ConnectStart(m) PROVE TokenInv'
  <2>1. /\ mpc[m] = "start" /\ mpc' = [mpc EXCEPT ![m] = "done"]
        /\ reader' = [reader EXCEPT ![mnew[m]] = "loop"]
        /\ mnew' = [mnew EXCEPT ![m] = Nil]
        /\ UNCHANGED <<registryVars, gen, held, pc, tconn, tid, outcome, closing>>
    BY <1>20 DEF ConnectStart, ManagerLeave
  <2>2. CASE mnew[m] = Nil
    <3>1. reader' = reader
      BY <2>1, <2>2 DEF ReaderTypeOK
    <3>2. closing[m] = {}
      BY <1>1, <2>1 DEF NothingLeft
    <3> QED
      BY <2>1, <3>1, <3>2, ManagerMovesKeeps DEF ManagerTypeOK
  <2>3. CASE mnew[m] # Nil
    <3>1. mnew[m] \in Conn /\ reader[mnew[m]] = "new"
      BY <1>1, <2>3 DEF NewReaders
    <3>2. NothingLeft'
      BY <1>1, <2>1, <3>1 DEF NothingLeft, ReaderTypeOK, ManagerTypeOK
    <3>3. NewReaders'
      BY <1>1, <2>1, <3>1 DEF NewReaders, ReaderTypeOK, ManagerTypeOK
    <3> QED
      BY <2>1, <3>1, <3>2, <3>3, ReaderMovesKeeps DEF ReaderTypeOK
  <2> QED
    BY <2>2, <2>3
<1>21. CASE Environment
  BY ZenonT(60), <1>2, <1>21
  DEF Environment, CancelContext, ServerReply, ServerJunk, ServerChange, ServerExit,
      Post
<1>22. ASSUME NEW c \in Conn, ReceiveCancelled(c) PROVE TokenInv'
  BY <1>2, <1>22 DEF ReceiveCancelled
<1>23. CASE UNCHANGED vars
  BY <1>2, <1>23 DEF vars
<1>24. CASE Start
  <2>1. ASSUME NEW t \in Caller, NEW s \in Server, CallLookup(t, s) PROVE TokenInv'
    BY <1>3, <2>1
  <2>2. ASSUME NEW d \in Discoverer, NEW k \in Kind, DiscoverStart(d, k) PROVE TokenInv'
    BY <1>10, <2>2
  <2>3. ASSUME NEW m \in Manager, DisconnectBegin(m) PROVE TokenInv'
    BY <1>18, <2>3
  <2> QED
    BY <1>17, <1>24, <2>1, <2>2, <2>3 DEF Start
<1>25. ASSUME NEW t \in Thread, CallSend(t) \/ CallStep(t) PROVE TokenInv'
  BY <1>4, <1>5, <1>6, <1>7, <1>8, <1>9, <1>25 DEF CallStep
<1>26. ASSUME NEW d \in Discoverer, DiscoverStep(d) PROVE TokenInv'
  BY <1>3, <1>9, <1>10, <1>26 DEF DiscoverStep
<1>27. ASSUME NEW c \in Conn, ReaderStep(c) PROVE TokenInv'
  BY <1>11, <1>12, <1>13, <1>14, <1>15, <1>22, <1>27 DEF ReaderStep
<1>28. ASSUME NEW m \in Manager, ManagerStep(m) PROVE TokenInv'
  BY <1>18, <1>19, <1>20, <1>28 DEF ManagerStep
<1> QED
  BY <1>16, <1>21, <1>23, <1>24, <1>25, <1>26, <1>27, <1>28 DEF Next

(***************************************************************************)
(* The theorems.                                                            *)
(***************************************************************************)

THEOREM Inductive == Spec => []IInv
<1>1. Init => IInv
  BY InitTyped, InitTokens DEF IInv
<1>2. IInv /\ [Next]_vars => IInv'
  BY TypedStep, TokenStep DEF IInv
<1> QED
  BY <1>1, <1>2, PTL DEF Spec

(* Resolve, CloseAll and Cancel act on a channel after they unlock: nobody     *)
(* sends on a closed or a full channel, or closes one that is closed, for any  *)
(* number of connections, calls and managers.                                 *)
THEOREM ChannelsAreSafe == Spec => []ChannelsSafe
<1>1. IInv => ChannelsSafe
  BY DEF IInv, TokenInv, TokensOpen
<1> QED
  BY <1>1, Inductive, PTL

(* Whatever happens to its connection, somebody is left to wake a call that    *)
(* waits.                                                                     *)
THEOREM NoCallIsForgotten == Spec => []NoLostWakeup
<1>1. IInv => NoLostWakeup
  BY DEF IInv, TokenInv, Wakeable, NoLostWakeup
<1> QED
  BY <1>1, Inductive, PTL

(* No way out of call leaves an entry in a registry.                           *)
THEOREM NoEntryIsLeaked == Spec => []NoLeak
<1>1. IInv => NoLeak
  BY DEF IInv, TokenInv
<1> QED
  BY <1>1, Inductive, PTL

(* A call woken by a closed channel finds the error of CloseAll.               *)
THEOREM CloseErrIsVisible == Spec => []CloseErrVisible
<1>1. IInv => CloseErrVisible
  BY DEF IInv, TokenInv, ClosedByCloseAll
<1> QED
  BY <1>1, Inductive, PTL

(***************************************************************************)
(* The responses.  The tokens give what ReplyInv needs: a request is known   *)
(* to one call only, and the registry that has it is that of the call's      *)
(* connection.                                                              *)
(***************************************************************************)

LEMMA InitReplies == Init => ReplyInv
  BY DEF Init, RegistryInit, ReplyInv, InboxMatches, HeldMatches, BufMatches, OwnReply

LEMMA CallReplies ==
  ASSUME IInv, IInv', ReplyInv, NEW t \in Thread,
         CallRegister(t) \/ CallCancel(t) \/ CallClose(t)
  PROVE  ReplyInv'
<1> USE DEF IInv, TokenInv, ReplyInv, Typed, TypeOK, CallTypeOK, clientVars, listVars,
            connVars, readerVars, callVars, discVars, managerVars, registryVars
<1>1. CASE CallRegister(t)
  <2>1. /\ pc[t] = "register" /\ pc'[t] \in {"send", "ret"}
        /\ tid' = [tid EXCEPT ![t] = gen + 1] /\ gen + 1 \in Id
        /\ outcome'[t] \in {outcome[t], "refused"}
        /\ \A u \in Thread \ {t} : pc'[u] = pc[u] /\ outcome'[u] = outcome[u]
        /\ UNCHANGED <<inbox, wire, reader, held, buf, tconn, result>>
    BY <1>1, RegistryAssumption DEF CallRegister, RegisterAs, Register, ClientTypeOK, Id
  <2>2. /\ buf[gen + 1] = Nil
        /\ \A c \in Conn : reader[c] = "send" => held[c].id # gen + 1
    <3>1. gen \in Nat /\ gen + 1 \notin open
      BY <2>1, RegistryAssumption DEF Issued, ClientTypeOK
    <3> QED
      BY <2>1, <3>1 DEF Issued, TokensOpen, ChannelsSafe
  <2>3. InboxMatches'
    BY <2>1 DEF InboxMatches
  <2>4. HeldMatches'
    BY <2>1, <2>2 DEF HeldMatches
  <2>5. BufMatches'
    BY <2>1, <2>2 DEF BufMatches
  <2>6. OwnReply'
    BY <2>1 DEF OwnReply, CallTyped
  <2> QED
    BY <2>3, <2>4, <2>5, <2>6
<1>2. CASE CallCancel(t) \/ CallClose(t)
  <2>1. /\ pc'[t] \notin {"send", "wait"}
        /\ \A u \in Thread \ {t} : pc'[u] = pc[u]
        /\ UNCHANGED <<inbox, wire, reader, held, buf, tid, tconn, outcome, result>>
    BY <1>2 DEF CallCancel, CallClose, Take, CloseChan
  <2>2. (InboxMatches /\ OwnReply)'
    BY <2>1 DEF InboxMatches, OwnReply
  <2>3. HeldMatches'
    BY <2>1 DEF HeldMatches
  <2>4. BufMatches'
    BY <2>1 DEF BufMatches
  <2> QED
    BY <2>2, <2>3, <2>4
<1> QED
  BY <1>1, <1>2

(* Send: the server may have received the request. *)
LEMMA SendReplies ==
  ASSUME IInv, IInv', ReplyInv, NEW t \in Thread, CallSend(t) \/ CallSendFails(t)
  PROVE  ReplyInv'
<1> USE DEF IInv, ReplyInv, Typed, TypeOK, CallTypeOK, ConnTypeOK
<1>1. /\ pc[t] = "send" /\ pc'[t] \in {"wait", "cancel"}
      /\ outcome'[t] \in {outcome[t], "send"}
      /\ \A u \in Thread \ {t} : pc'[u] = pc[u] /\ outcome'[u] = outcome[u]
      /\ UNCHANGED <<inbox, reader, held, buf, tid, tconn, result>>
  BY DEF CallSend, CallSendFails, SendFails, registryVars, readerVars
<1>2. wire' \in {wire, [wire EXCEPT ![tconn[t]] = @ \cup {tid[t]}]}
  BY DEF CallSend, CallSendFails, SendFails
<1>3. \A c \in Conn : wire[c] \subseteq wire'[c]
  BY <1>2
<1>4. InboxMatches'
  BY <1>1, <1>3 DEF InboxMatches
<1>5. HeldMatches'
  BY <1>1, <1>3 DEF HeldMatches
<1>6. BufMatches'
  BY <1>1, <1>3 DEF BufMatches, CallTyped
<1>7. OwnReply'
  BY <1>1, <1>3 DEF OwnReply, CallTyped
<1> QED
  BY <1>4, <1>5, <1>6, <1>7

LEMMA SelectReplies ==
  ASSUME IInv, IInv', ReplyInv, NEW t \in Thread, CallSelect(t)
  PROVE  ReplyInv'
<1> USE DEF IInv, TokenInv, ReplyInv, Typed, TypeOK, CallTypeOK, RegistryTypeOK
<1>1. /\ pc[t] = "wait" /\ pc' = [pc EXCEPT ![t] = "cancel"] /\ tid[t] \in Id
      /\ buf' \in {buf, [buf EXCEPT ![tid[t]] = Nil]}
      /\ UNCHANGED <<inbox, wire, reader, held, tid, tconn>>
  BY DEF CallSelect, connVars, readerVars, CallTyped
<1>2. \/ outcome'[t] # "reply"
      \/ outcome'[t] = "reply" /\ buf[tid[t]] # Nil /\ result'[t] = buf[tid[t]]
  BY DEF CallSelect
<1>3. \A u \in Thread \ {t} : outcome'[u] = outcome[u] /\ result'[u] = result[u]
  BY DEF CallSelect
<1>4. \A i \in Id : buf'[i] \in {buf[i], Nil}
  BY <1>1
<1>5. InboxMatches'
  BY <1>1 DEF InboxMatches
<1>6. HeldMatches'
  BY <1>1 DEF HeldMatches
<1>7. BufMatches'
  BY <1>1, <1>4 DEF BufMatches, CallTyped
<1>8. OwnReply'
  BY <1>1, <1>2, <1>3 DEF OwnReply, BufMatches
<1> QED
  BY <1>5, <1>6, <1>7, <1>8

LEMMA TailIndex ==
  ASSUME NEW S, NEW q \in Seq(S), q # <<>>
  PROVE  \A n \in 1 .. Len(Tail(q)) : n + 1 \in 1 .. Len(q) /\ Tail(q)[n] = q[n + 1]
  OBVIOUS

(* Resolve takes the response: the call that registered its id used the       *)
(* connection it came on.                                                     *)
LEMMA MessageReplies ==
  ASSUME IInv, IInv', ReplyInv, NEW c \in Conn, ReaderMessage(c)
  PROVE  ReplyInv'
<1> DEFINE m == Head(inbox[c])
<1> USE DEF IInv, TokenInv, ReplyInv, Typed, TypeOK
<1>1. /\ inbox' = [inbox EXCEPT ![c] = Tail(@)] /\ inbox[c] # <<>>
      /\ reader'[c] \in {"loop", "send"}
      /\ reader'[c] = "send" => /\ m.type = "reply" /\ m.reply.id \in pending[c]
                                /\ held'[c] = m.reply
      /\ \A d \in Conn \ {c} : reader'[d] = reader[d] /\ held'[d] = held[d]
      /\ UNCHANGED <<wire, buf, pc, tid, tconn, outcome, result>>
  BY DEF ReaderMessage, Take, ReaderTypeOK, registryVars, threadVars, callVars
<1>2. \A d \in Conn : \A n \in 1 .. Len(inbox'[d]) :
        \E k \in 1 .. Len(inbox[d]) : inbox'[d][n] = inbox[d][k]
  <2>1. /\ inbox[c] \in Seq(Message) /\ inbox[c] # <<>>
        /\ inbox'[c] = Tail(inbox[c])
    BY <1>1 DEF ConnTypeOK
  <2>2. \A n \in 1 .. Len(inbox'[c]) :
          n + 1 \in 1 .. Len(inbox[c]) /\ inbox'[c][n] = inbox[c][n + 1]
    <3>1. \A n \in 1 .. Len(Tail(inbox[c])) :
            n + 1 \in 1 .. Len(inbox[c]) /\ Tail(inbox[c])[n] = inbox[c][n + 1]
      BY <2>1, TailIndex
    <3> QED
      BY <2>1, <3>1
  <2>3. \A d \in Conn : d # c => inbox'[d] = inbox[d]
    BY <1>1 DEF ConnTypeOK
  <2> QED
    BY <2>2, <2>3
<1>3. m = inbox[c][1] /\ 1 \in 1 .. Len(inbox[c])
  BY <1>1 DEF ConnTypeOK
<1>4. InboxMatches'
  BY <1>1, <1>2 DEF InboxMatches
<1>5. HeldMatches'
  <2> SUFFICES ASSUME NEW d \in Conn, reader'[d] = "send"
               PROVE  /\ held'[d].id \in wire[d]
                      /\ \A t \in Thread : /\ pc[t] \in {"send", "wait"}
                                           /\ tid[t] = held'[d].id
                                           => tconn[t] = d
    BY <1>1 DEF HeldMatches
  <2>1. CASE d # c
    BY <1>1, <2>1 DEF HeldMatches
  <2>2. CASE d = c
    <3>1. held'[c] = m.reply /\ m.reply.id \in pending[c] /\ m.reply.id \in wire[c]
      BY <1>1, <1>3, <2>2 DEF InboxMatches
    <3>2. m.reply.id # 0
      BY <3>1, RegistryAssumption DEF RegistryTypeOK, Id
    <3> QED
      BY <2>2, <3>1, <3>2 DEF NoLeak, Issued
  <2> QED
    BY <2>1, <2>2
<1>6. (BufMatches /\ OwnReply)'
  BY <1>1 DEF BufMatches, OwnReply
<1> QED
  BY <1>4, <1>5, <1>6

LEMMA SendOnReplies ==
  ASSUME IInv, IInv', ReplyInv, NEW c \in Conn, ReaderSend(c)
  PROVE  ReplyInv'
<1> USE DEF IInv, ReplyInv, Typed, TypeOK, RegistryTypeOK, ReaderTypeOK
<1>1. /\ reader[c] = "send" /\ held[c] \in Reply /\ held[c].id \in Id
      /\ buf' = [buf EXCEPT ![held[c].id] = held[c]]
      /\ reader' = [reader EXCEPT ![c] = "loop"] /\ held' = [held EXCEPT ![c] = Nil]
      /\ UNCHANGED <<inbox, wire, pc, tid, tconn, outcome, result>>
  BY DEF ReaderSend, Deliver, connVars, threadVars, callVars, ReaderTyped, Reply
<1>2. HeldMatches'
  BY <1>1 DEF HeldMatches
<1>3. BufMatches'
  BY <1>1 DEF BufMatches, HeldMatches, CallTyped
<1>4. (InboxMatches /\ OwnReply)'
  BY <1>1 DEF InboxMatches, OwnReply
<1> QED
  BY <1>2, <1>3, <1>4

LEMMA ReplyStep == IInv /\ IInv' /\ ReplyInv /\ [Next]_vars => ReplyInv'
<1> SUFFICES ASSUME IInv, IInv', ReplyInv, [Next]_vars PROVE ReplyInv'
  OBVIOUS
<1> USE DEF Typed, TypeOK, Thread, registryVars, clientVars, listVars, connVars,
            readerVars, callVars, discVars, threadVars, managerVars
<1>1. Typed /\ InboxMatches /\ HeldMatches /\ BufMatches /\ OwnReply
  BY DEF IInv, ReplyInv
<1>2. ASSUME UNCHANGED <<inbox, wire, reader, held, buf, pc, tid, tconn, outcome,
                         result>>
      PROVE  ReplyInv'
  BY <1>1, <1>2 DEF ReplyInv, InboxMatches, HeldMatches, BufMatches, OwnReply
<1>3. ASSUME NEW t \in Thread, pc'[t] \notin {"send", "wait"}, outcome'[t] # "reply",
             \A u \in Thread \ {t} :
               /\ pc'[u] = pc[u] /\ tid'[u] = tid[u] /\ tconn'[u] = tconn[u]
               /\ outcome'[u] = outcome[u] /\ result'[u] = result[u],
             UNCHANGED <<inbox, wire, reader, held, buf>>
      PROVE  ReplyInv'
  BY <1>1, <1>3 DEF ReplyInv, InboxMatches, HeldMatches, BufMatches, OwnReply
<1>4. ASSUME NEW t \in Thread, NEW s \in Server, CallLookup(t, s) \/ DiscoverNext(t, s)
      PROVE  ReplyInv'
  BY <1>1, <1>3, <1>4 DEF CallLookup, DiscoverNext, Lookup, CallTypeOK
<1>5. ASSUME NEW t \in Thread, CallReturn(t) \/ DiscoverEnd(t) PROVE ReplyInv'
  BY <1>1, <1>3, <1>5 DEF CallReturn, DiscoverEnd, Leave, CallTypeOK
<1>6. ASSUME NEW d \in Discoverer,
             \/ \E k \in Kind : DiscoverStart(d, k)
             \/ DiscoverError(d) \/ DiscoverStore(d)
      PROVE  ReplyInv'
  <2>1. /\ pc'[d] = "next" /\ \A u \in Thread \ {d} : pc'[u] = pc[u]
        /\ UNCHANGED <<inbox, wire, reader, held, buf, tid, tconn, outcome, result>>
    BY <1>1, <1>6 DEF DiscoverStart, DiscoverError, DiscoverStore, CallTypeOK
  <2> QED
    BY <1>1, <2>1 DEF ReplyInv, InboxMatches, HeldMatches, BufMatches, OwnReply, CallTypeOK
<1>7. ASSUME NEW c \in Conn,
             reader'[c] # "send",
             \A d \in Conn \ {c} : reader'[d] = reader[d] /\ inbox'[d] = inbox[d],
             inbox'[c] \in {inbox[c], <<>>},
             UNCHANGED <<wire, held, buf, pc, tid, tconn, outcome, result>>
      PROVE  ReplyInv'
  BY <1>1, <1>7 DEF ReplyInv, InboxMatches, HeldMatches, BufMatches, OwnReply
<1>8. ASSUME NEW c \in Conn,
             \/ ReaderReceive(c) \/ ReaderFails(c) \/ ReaderDrain(c) \/ ReaderExit(c)
             \/ \E m \in Manager, s \in Server : ConnectSwap(m, s, c)
      PROVE  ReplyInv'
  BY <1>1, <1>7, <1>8
  DEF ReaderReceive, ReaderFails, ReceiveFails, ReaderDrain, ReaderExit, CloseAll,
      Drain, ConnectSwap, Swap, ReaderTypeOK, ConnTypeOK
<1>9. ASSUME NEW m \in Manager, ConnectStart(m) PROVE ReplyInv'
  <2>1. /\ reader' = [reader EXCEPT ![mnew[m]] = "loop"]
        /\ UNCHANGED <<inbox, wire, held, buf, pc, tid, tconn, outcome, result>>
    BY <1>9 DEF ConnectStart, ManagerLeave
  <2> QED
    BY <1>1, <2>1
    DEF ReplyInv, InboxMatches, HeldMatches, BufMatches, OwnReply, ReaderTypeOK
<1>10. ASSUME NEW m \in Manager,
              \/ DisconnectBegin(m) \/ (\E s \in Server : DisconnectDelete(m, s))
              \/ DisconnectEnd(m) \/ TeardownDrain(m) \/ TeardownCancel(m)
              \/ TeardownRemove(m) \/ TeardownClose(m)
       PROVE  ReplyInv'
  BY <1>2, <1>10
  DEF DisconnectBegin, DisconnectDelete, DisconnectEnd, ManagerLeave, TeardownDrain,
      TeardownCancel, TeardownRemove, TeardownClose, CloseAll, Drain
<1>11. ASSUME NEW x \in Closer, CloseDrained(x) PROVE ReplyInv'
  BY <1>2, <1>11 DEF CloseDrained, CloseChan
<1>12. ASSUME NEW c \in Conn, ReceiveCancelled(c) PROVE ReplyInv'
  BY <1>2, <1>12 DEF ReceiveCancelled
<1>13. CASE UNCHANGED vars
  BY <1>2, <1>13 DEF vars
<1>14. ASSUME NEW c \in Conn, NEW m \in Message, Post(c, m),
              m.type = "reply" => m.reply.id \in wire[c]
       PROVE  ReplyInv'
  <2>1. /\ inbox' = [inbox EXCEPT ![c] = Append(@, m)]
        /\ UNCHANGED <<wire, reader, held, buf, pc, tid, tconn, outcome, result>>
    BY <1>14 DEF Post
  <2>2. InboxMatches'
    BY <1>1, <1>14, <2>1 DEF InboxMatches, ConnTypeOK
  <2>3. (HeldMatches /\ BufMatches /\ OwnReply)'
    BY <1>1, <2>1 DEF HeldMatches, BufMatches, OwnReply
  <2> QED
    BY <2>2, <2>3 DEF ReplyInv
<1>15. CASE Environment
  <2>1. ASSUME NEW t \in Thread, CancelContext(t) PROVE ReplyInv'
    BY <1>2, <2>1 DEF CancelContext
  <2>2. ASSUME NEW c \in Conn, NEW i \in Id, NEW ok \in Oks, ServerReply(c, i, ok)
        PROVE  ReplyInv'
    <3> DEFINE m == [type |-> "reply", reply |-> [id |-> i, ok |-> ok, ver |-> ver[c]]]
    <3>1. m \in Message
      BY <1>1, ClientAssumption DEF Message, Reply, ConnTypeOK
    <3> QED
      BY <1>14, <2>2, <3>1 DEF ServerReply
  <2>3. ASSUME NEW c \in Conn, ServerJunk(c) PROVE ReplyInv'
    BY <1>14, <2>3 DEF ServerJunk, Message
  <2>4. ASSUME NEW c \in Conn, NEW k \in Kind, ServerChange(c, k) PROVE ReplyInv'
    BY <1>14, <2>4 DEF ServerChange, Message
  <2>5. ASSUME NEW c \in Conn, ServerExit(c) PROVE ReplyInv'
    BY <1>2, <2>5 DEF ServerExit
  <2> QED
    BY <1>15, <2>1, <2>2, <2>3, <2>4, <2>5 DEF Environment
<1>16. CASE Start
  <2>1. ASSUME NEW t \in Caller, NEW s \in Server, CallLookup(t, s) PROVE ReplyInv'
    BY <1>4, <2>1
  <2>2. ASSUME NEW d \in Discoverer, NEW k \in Kind, DiscoverStart(d, k) PROVE ReplyInv'
    BY <1>6, <2>2
  <2>3. ASSUME NEW m \in Manager, DisconnectBegin(m) PROVE ReplyInv'
    BY <1>10, <2>3
  <2> QED
    BY <1>8, <1>16, <2>1, <2>2, <2>3 DEF Start
<1>17. ASSUME NEW t \in Thread, CallSend(t) \/ CallStep(t) PROVE ReplyInv'
  BY <1>5, <1>17, CallReplies, SendReplies, SelectReplies DEF CallStep
<1>18. ASSUME NEW d \in Discoverer, DiscoverStep(d) PROVE ReplyInv'
  BY <1>4, <1>5, <1>6, <1>18 DEF DiscoverStep
<1>19. ASSUME NEW c \in Conn, ReaderStep(c) PROVE ReplyInv'
  BY <1>8, <1>12, <1>19, MessageReplies, SendOnReplies DEF ReaderStep
<1>20. ASSUME NEW m \in Manager, ManagerStep(m) PROVE ReplyInv'
  BY <1>9, <1>10, <1>20 DEF ManagerStep
<1> QED
  BY <1>11, <1>13, <1>15, <1>16, <1>17, <1>18, <1>19, <1>20 DEF Next

(* A call returns the response to its own request, sent on its own connection, *)
(* whatever is answered late, twice or out of order.                           *)
THEOREM RepliesAreOwn == Spec => []OwnReply
<1>1. Init => ReplyInv
  BY InitReplies
<1>2. IInv /\ IInv' /\ ReplyInv /\ [Next]_vars => ReplyInv'
  BY ReplyStep
<1>3. ReplyInv => OwnReply
  BY DEF ReplyInv
<1> QED
  BY <1>1, <1>2, <1>3, Inductive, PTL DEF Spec

(***************************************************************************)
(* The refinement.  RemoteInv says which requests the servers have received  *)
(* and which ends a call has at its control points.                          *)
(***************************************************************************)

Ended == {"reply", "send", "ctx", "closed"}

RemoteInv ==
  /\ \A c \in Conn : wire[c] \subseteq 1 .. gen
  /\ \A t \in Thread :
       /\ pc[t] = "send" => \A c \in Conn : tid[t] \notin wire[c]
       /\ pc[t] = "wait" => tid[t] \in wire[tconn[t]]
       /\ pc[t] \in {"cancel", "close"} => outcome[t] \in Ended
       /\ pc[t] = "ret" => outcome[t] \in Ended \cup {"noconn", "refused"}

(* What RemoteInv and Exchange depend on. *)
exchangeVars == <<gen, wire, pc, tid, tconn, outcome, result>>

(* Only goroutine t moves. *)
OnlyMoves(t) ==
  /\ t \in Thread
  /\ \A u \in Thread \ {t} : /\ pc'[u] = pc[u] /\ tid'[u] = tid[u] /\ tconn'[u] = tconn[u]
                             /\ outcome'[u] = outcome[u] /\ result'[u] = result[u]

(* A step by the others leaves the exchanges alone, and gives up at most one   *)
(* connection.                                                               *)
LEMMA OthersKeepExchanges ==
  ASSUME IInv, [Next]_vars,
         ~ \E t \in Thread :
             \/ \E s \in Server : CallLookup(t, s) \/ DiscoverNext(t, s)
             \/ \E k \in Kind : DiscoverStart(t, k)
             \/ DiscoverError(t) \/ DiscoverStore(t) \/ DiscoverEnd(t)
             \/ CallSend(t) \/ CallStep(t)
  PROVE  /\ UNCHANGED exchangeVars
         /\ closeErr' = closeErr \/ \E c \in Conn : closeErr' = [closeErr EXCEPT ![c] = TRUE]
<1> USE DEF Thread, registryVars, clientVars, listVars, connVars, readerVars, callVars,
            discVars, threadVars, managerVars, exchangeVars
<1>1. CASE Environment
  BY <1>1 DEF Environment, CancelContext, ServerReply, ServerJunk, ServerChange, ServerExit,
              Post
<1>2. CASE Start
  <2>1. \/ \E m \in Manager, s \in Server, c \in Conn : ConnectSwap(m, s, c)
        \/ \E m \in Manager : DisconnectBegin(m)
    BY <1>2 DEF Start
  <2> QED
    BY <2>1 DEF ConnectSwap, Swap, DisconnectBegin
<1>3. ASSUME NEW c \in Conn, ReaderStep(c)
      PROVE  /\ UNCHANGED exchangeVars
             /\ closeErr' \in {closeErr, [closeErr EXCEPT ![c] = TRUE]}
  BY <1>3 DEF ReaderStep, ReaderReceive, ReceiveCancelled, ReaderFails, ReceiveFails,
              ReaderMessage, Take, ReaderSend, Deliver, ReaderDrain, CloseAll, Drain,
              ReaderExit
<1>4. ASSUME NEW m \in Manager, ManagerStep(m)
      PROVE  /\ UNCHANGED exchangeVars
             /\ \/ closeErr' = closeErr
                \/ \E c \in Conn : closeErr' = [closeErr EXCEPT ![c] = TRUE]
  <2>1. CASE TeardownDrain(m)
    <3>1. mold[m] \in Conn
      BY <2>1 DEF TeardownDrain, IInv, Typed, ManagerTyped
    <3> QED
      BY <2>1, <3>1 DEF TeardownDrain, CloseAll, Drain
  <2>2. CASE ~TeardownDrain(m)
    BY <1>4, <2>2 DEF ManagerStep, DisconnectDelete, DisconnectEnd, ManagerLeave,
                      TeardownCancel, TeardownRemove, TeardownClose, ConnectStart
  <2> QED
    BY <2>1, <2>2
<1>5. ASSUME NEW x \in Closer, CloseDrained(x) PROVE UNCHANGED <<exchangeVars, closeErr>>
  BY <1>5 DEF CloseDrained, CloseChan
<1>6. CASE UNCHANGED vars
  BY <1>6 DEF vars
<1>7. ASSUME NEW d \in Discoverer, DiscoverStep(d) PROVE FALSE
  BY <1>7 DEF DiscoverStep
<1> QED
  BY <1>1, <1>2, <1>3, <1>4, <1>5, <1>6, <1>7 DEF Next

(* What a step of goroutine t does to its exchange. *)
Looks(t) ==
  /\ pc[t] \in {"idle", "next"}
  /\ pc'[t] \in {"register", "next"} \/ (pc'[t] = "ret" /\ outcome'[t] = "noconn")
  /\ UNCHANGED <<gen, wire, closeErr>>

Registers(t) ==
  /\ pc[t] = "register" /\ tconn[t] \in Conn /\ tconn'[t] = tconn[t]
  /\ gen' = gen + 1 /\ gen + 1 \in Id
  /\ \/ pc'[t] = "ret" /\ outcome'[t] = "refused" /\ closeErr[tconn[t]]
     \/ pc'[t] = "send" /\ tid'[t] = gen + 1 /\ ~closeErr[tconn[t]]
  /\ UNCHANGED <<wire, closeErr>>

Sends(t) ==
  /\ pc[t] = "send" /\ tconn[t] \in Conn
  /\ \/ /\ pc'[t] = "wait" /\ wire' = [wire EXCEPT ![tconn[t]] = @ \cup {tid[t]}]
     \/ /\ pc'[t] = "cancel" /\ outcome'[t] = "send"
        /\ wire' \in {wire, [wire EXCEPT ![tconn[t]] = @ \cup {tid[t]}]}
  /\ UNCHANGED <<gen, tid, tconn, closeErr>>

Selects(t) ==
  /\ pc[t] = "wait" /\ pc'[t] = "cancel" /\ tconn[t] \in Conn
  /\ \/ outcome'[t] = "ctx"
     \/ outcome'[t] = "reply" /\ result'[t] \in Reply /\ result'[t].id = tid[t]
     \/ outcome'[t] = "closed" /\ closeErr[tconn[t]]
  /\ UNCHANGED <<gen, wire, tid, tconn, closeErr>>

Cancels(t) ==
  /\ pc[t] \in {"cancel", "close"} /\ pc'[t] \in {"close", "ret"}
  /\ UNCHANGED <<gen, wire, tid, tconn, outcome, result, closeErr>>

Returns(t) ==
  /\ pc[t] = "ret" /\ pc'[t] \in {"next", "done"}
  /\ UNCHANGED <<gen, wire, closeErr>>

Stops(t) ==
  /\ pc[t] = "next" /\ pc'[t] = "done"
  /\ UNCHANGED <<gen, wire, closeErr>>

LEMMA ThreadMoves ==
  ASSUME IInv, ReplyInv, NEW t \in Thread,
         \/ \E s \in Server : CallLookup(t, s) \/ DiscoverNext(t, s)
         \/ \E k \in Kind : DiscoverStart(t, k)
         \/ DiscoverError(t) \/ DiscoverStore(t) \/ DiscoverEnd(t)
         \/ CallSend(t) \/ CallStep(t)
  PROVE  /\ OnlyMoves(t)
         /\ \/ Looks(t) \/ Registers(t) \/ Sends(t) \/ Selects(t) \/ Cancels(t)
            \/ Returns(t) \/ Stops(t)
<1> USE DEF IInv, Typed, TypeOK, CallTypeOK, registryVars, clientVars, listVars, connVars,
            readerVars, callVars, discVars, managerVars, OnlyMoves
<1>1. ASSUME NEW s \in Server, CallLookup(t, s) \/ DiscoverNext(t, s)
      PROVE  OnlyMoves(t) /\ Looks(t)
  BY <1>1 DEF CallLookup, DiscoverNext, Lookup, Looks
<1>2. ASSUME NEW k \in Kind, DiscoverStart(t, k) PROVE OnlyMoves(t) /\ Looks(t)
  BY <1>2 DEF DiscoverStart, Looks
<1>3. CASE DiscoverError(t) \/ DiscoverStore(t) \/ CallReturn(t)
  BY <1>3 DEF DiscoverError, DiscoverStore, CallReturn, Leave, Returns
<1>4. CASE DiscoverEnd(t)
  BY <1>4 DEF DiscoverEnd, Leave, Stops
<1>5. CASE CallRegister(t)
  <2>1. /\ pc[t] = "register" /\ gen' = gen + 1 /\ gen + 1 \in Id /\ tconn[t] \in Conn
        /\ tid' = [tid EXCEPT ![t] = gen + 1] /\ UNCHANGED <<wire, tconn, closeErr, result>>
    BY <1>5, RegistryAssumption
    DEF CallRegister, RegisterAs, Register, ClientTypeOK, Id, CallTyped
  <2>2. gen + 1 \notin pending[tconn[t]]
    <3>1. gen + 1 \notin open
      BY <2>1, RegistryAssumption DEF TokenInv, Issued, ClientTypeOK
    <3> QED
      BY <2>1, <3>1 DEF TokenInv, TokensOpen
  <2>3. \/ /\ pc' = [pc EXCEPT ![t] = "ret"] /\ outcome' = [outcome EXCEPT ![t] = "refused"]
           /\ closeErr[tconn[t]]
        \/ pc' = [pc EXCEPT ![t] = "send"] /\ ~closeErr[tconn[t]] /\ outcome' = outcome
    BY <1>5, <2>2 DEF CallRegister, RegisterAs, Register, RegisterFails
  <2>4. OnlyMoves(t)
    BY <2>1, <2>3
  <2>5. Registers(t)
    BY <2>1, <2>3 DEF Registers
  <2> QED
    BY <2>4, <2>5
<1>6. CASE CallSend(t) \/ CallSendFails(t)
  BY <1>6 DEF CallSend, CallSendFails, SendFails, Sends, CallTyped
<1>7. CASE CallSelect(t)
  <2>1. /\ pc[t] = "wait" /\ pc' = [pc EXCEPT ![t] = "cancel"] /\ tconn[t] \in Conn
        /\ tid[t] \in Id /\ UNCHANGED <<gen, wire, tid, tconn, closeErr>>
    BY <1>7 DEF CallSelect, CallTyped
  <2>2. \/ outcome' = [outcome EXCEPT ![t] = "ctx"] /\ result' = result
        \/ /\ outcome' = [outcome EXCEPT ![t] = "reply"] /\ buf[tid[t]] # Nil
           /\ result' = [result EXCEPT ![t] = buf[tid[t]]]
        \/ /\ tid[t] \notin open /\ result' = result
           /\ outcome' = [outcome EXCEPT ![t] =
                            IF closeErr[tconn[t]] THEN "closed" ELSE "cancelled"]
    BY <1>7 DEF CallSelect
  <2>3. buf[tid[t]] # Nil => buf[tid[t]] \in Reply /\ buf[tid[t]].id = tid[t]
    BY <2>1 DEF ReplyInv, BufMatches, RegistryTypeOK
  <2>4. tid[t] \notin open => closeErr[tconn[t]]
    BY <2>1 DEF TokenInv, ClosedByCloseAll
  <2>5. OnlyMoves(t)
    BY <2>1, <2>2
  <2>6. Selects(t)
    BY <2>1, <2>2, <2>3, <2>4 DEF Selects
  <2> QED
    BY <2>5, <2>6
<1>8. CASE CallCancel(t) \/ CallClose(t)
  BY <1>8 DEF CallCancel, CallClose, Take, CloseChan, Cancels
<1> QED
  BY <1>1, <1>2, <1>3, <1>4, <1>5, <1>6, <1>7, <1>8 DEF CallStep

LEMMA RemoteStep == IInv /\ ReplyInv /\ RemoteInv /\ [Next]_vars => RemoteInv'
<1> SUFFICES ASSUME IInv, ReplyInv, RemoteInv, [Next]_vars PROVE RemoteInv'
  OBVIOUS
<1>1. ASSUME UNCHANGED exchangeVars PROVE RemoteInv'
  BY <1>1 DEF exchangeVars, RemoteInv
<1>2. ASSUME NEW t \in Thread, OnlyMoves(t),
             \/ Looks(t) \/ Registers(t) \/ Sends(t) \/ Selects(t) \/ Cancels(t)
             \/ Returns(t) \/ Stops(t)
      PROVE  RemoteInv'
  <2>1. gen \in Nat /\ \A u \in Thread : tid[u] \in Nat /\ tid[u] <= gen
    BY RegistryAssumption DEF IInv, Typed, TypeOK, ClientTypeOK, CallTypeOK, TokenInv, Issued
  <2>2. \A c \in Conn : wire[c] \subseteq 1 .. gen
    BY DEF RemoteInv
  <2>3. \A u \in Thread \ {t} :
          /\ pc'[u] = pc[u] /\ tid'[u] = tid[u] /\ tconn'[u] = tconn[u]
          /\ outcome'[u] = outcome[u]
    BY <1>2 DEF OnlyMoves
  <2>4. CASE Looks(t) \/ Selects(t) \/ Cancels(t) \/ Returns(t) \/ Stops(t)
    BY <2>3, <2>4 DEF Looks, Selects, Cancels, Returns, Stops, RemoteInv, Ended
  <2>5. CASE Registers(t)
    <3>1. \A c \in Conn : gen + 1 \notin wire[c] /\ wire[c] \subseteq 1 .. gen + 1
      BY <2>1, <2>2
    <3> QED
      BY <2>3, <2>5, <3>1 DEF Registers, RemoteInv, Ended
  <2>6. CASE Sends(t)
    <3>1. /\ tid[t] \in 1 .. gen /\ tconn[t] \in Conn /\ wire \in [Conn -> SUBSET Id]
          /\ \A u \in Thread \ {t} : tid[u] # tid[t]
      BY <2>1, <2>6, RegistryAssumption
      DEF Sends, IInv, Typed, TypeOK, CallTyped, ConnTypeOK, TokenInv, Issued, Id
    <3>2. \A c \in Conn : wire'[c] = wire[c] \/ (c = tconn[t] /\ wire'[c] = wire[c] \cup {tid[t]})
      BY <2>6, <3>1 DEF Sends
    <3>3. \A c \in Conn : wire'[c] \subseteq 1 .. gen
      BY <2>2, <3>1, <3>2
    <3>4. pc'[t] = "wait" => tid[t] \in wire'[tconn[t]]
      BY <2>6, <3>1 DEF Sends
    <3>5. \A u \in Thread \ {t} :
            /\ pc[u] = "send" => \A c \in Conn : tid[u] \notin wire'[c]
            /\ pc[u] = "wait" => tid[u] \in wire'[tconn[u]]
      <4>1. \A u \in Thread : pc[u] = "wait" => tconn[u] \in Conn
        BY DEF IInv, Typed, CallTyped
      <4> QED
        BY <3>1, <3>2, <4>1 DEF RemoteInv
    <3> QED
      BY <2>3, <2>6, <3>3, <3>4, <3>5 DEF Sends, RemoteInv, Ended
  <2> QED
    BY <1>2, <2>4, <2>5, <2>6
<1> QED
  BY <1>1, <1>2, OthersKeepExchanges, ThreadMoves

(* The steps of an exchange. *)
LEMMA ExchangeSteps ==
  ASSUME IInv, RemoteInv, NEW t, OnlyMoves(t),
         \/ Looks(t) \/ Registers(t) \/ Sends(t) \/ Selects(t) \/ Cancels(t)
         \/ Returns(t) \/ Stops(t)
  PROVE  [Remote!CallsNext]_Remote!remoteVars
<1>1. t \in Thread
  BY DEF OnlyMoves
<1>2. \A u \in Thread \ {t} : Exchange'[u] = Exchange[u]
  BY DEF OnlyMoves, Exchange
<1>3. Exchange' = [Exchange EXCEPT ![t] = Exchange'[t]]
  <2>1. Exchange = [u \in Thread |-> Exchange[u]] /\ Exchange' = [u \in Thread |-> Exchange'[u]]
    BY DEF Exchange
  <2> QED
    BY <1>2, <2>1
<1>4. ASSUME Exchange'[t] = Exchange[t], UNCHANGED <<gen, wire, closeErr>>
      PROVE  UNCHANGED Remote!remoteVars
  <2>1. Exchange' = Exchange
    <3>1. Exchange = [u \in Thread |-> Exchange[u]]
      BY DEF Exchange
    <3> QED
      BY <1>3, <1>4, <3>1
  <2> QED
    BY <1>4, <2>1 DEF Remote!remoteVars
<1>5. (pc[t] \in {"idle", "next", "register", "done"} => Exchange[t] = Remote!NoCall)
      /\ (pc'[t] \in {"idle", "next", "register", "done"} => Exchange'[t] = Remote!NoCall)
  BY <1>1 DEF Exchange, Remote!NoCall
<1>6. CASE Looks(t)
  <2>1. Exchange'[t] = Remote!NoCall
    BY <1>1, <1>6 DEF Looks, Exchange, Remote!NoCall
  <2> QED
    BY <1>4, <1>5, <1>6, <2>1 DEF Looks
<1>7. CASE Registers(t) /\ pc'[t] = "ret"
  <2>1. Exchange'[t] = Remote!NoCall /\ Exchange[t] = Remote!NoCall
    BY <1>1, <1>7 DEF Registers, Exchange, Remote!NoCall
  <2>2. Exchange' = Exchange
    <3>1. Exchange = [u \in Thread |-> Exchange[u]]
      BY DEF Exchange
    <3> QED
      BY <1>3, <2>1, <3>1
  <2> QED
    BY <1>7, <2>2 DEF Registers, Remote!Refuse, Remote!CallsNext
<1>8. CASE Registers(t) /\ pc'[t] = "send"
  <2>1. /\ Exchange[t] = Remote!NoCall
        /\ Exchange'[t] = [state |-> "open", id |-> gen + 1, conn |-> tconn[t], reply |-> Nil]
    BY <1>1, <1>8 DEF Registers, Exchange, Remote!NoCall
  <2>2. Remote!Request(t, tconn[t])
    BY <1>3, <1>8, <2>1 DEF Registers, Remote!Request
  <2> QED
    BY <1>1, <1>8, <2>2 DEF Registers, Remote!CallsNext
<1>9. CASE Sends(t) \/ Selects(t)
  <2>1. Exchange[t] = [state |-> "open", id |-> tid[t], conn |-> tconn[t], reply |-> Nil]
    BY <1>1, <1>9 DEF Sends, Selects, Exchange
  <2>2. Remote!Open(t)
    BY <2>1 DEF Remote!Open
  <2>3. /\ Sends(t) => ~Remote!Arrived(t)
        /\ Selects(t) => Remote!Arrived(t)
    BY <1>1, <2>1 DEF Sends, Selects, Remote!Arrived, RemoteInv
  <2>4. ASSUME NEW state, NEW r, UNCHANGED <<gen, closeErr>>,
               Exchange'[t] = [state |-> state, id |-> tid[t], conn |-> tconn[t], reply |-> r]
        PROVE  Remote!Ends(t, state, r)
    <3>1. Exchange = [u \in Thread |-> Exchange[u]]
      BY DEF Exchange
    <3> QED
      BY <1>1, <1>3, <2>1, <2>4, <3>1 DEF Remote!Ends
  <2>5. CASE Sends(t) /\ pc'[t] = "wait"
    <3>1. Exchange'[t] = Exchange[t]
      BY <1>1, <2>1, <2>5 DEF Sends, Exchange
    <3>2. Exchange' = Exchange
      <4>1. Exchange = [u \in Thread |-> Exchange[u]]
        BY DEF Exchange
      <4> QED
        BY <1>3, <3>1, <4>1
    <3>3. Remote!Receive(t)
      BY <2>1, <2>3, <2>5, <3>2 DEF Sends, Remote!Receive, Remote!Arrives
    <3> QED
      BY <1>1, <2>2, <3>3 DEF Remote!CallsNext
  <2>6. CASE Sends(t) /\ pc'[t] = "cancel"
    <3>1. Exchange'[t] = [state |-> "send", id |-> tid[t], conn |-> tconn[t], reply |-> Nil]
      BY <1>1, <2>6 DEF Sends, Exchange
    <3>2. Remote!Ends(t, "send", Nil)
      BY <2>4, <2>6, <3>1 DEF Sends
    <3>3. Remote!SendingFails(t)
      BY <2>1, <2>3, <2>6, <3>2 DEF Sends, Remote!SendingFails, Remote!Arrives
    <3> QED
      BY <1>1, <2>2, <3>3 DEF Remote!CallsNext
  <2>7. CASE Selects(t) /\ outcome'[t] = "reply"
    <3>1. /\ Exchange'[t] = [state |-> "reply", id |-> tid[t], conn |-> tconn[t],
                             reply |-> result'[t]]
          /\ result'[t] \in Reply /\ result'[t].id = tid[t]
      BY <1>1, <2>7 DEF Selects, Exchange
    <3>2. Remote!Ends(t, "reply", result'[t])
      BY <2>4, <2>7, <3>1 DEF Selects
    <3>3. Remote!Answer(t)
      BY <2>1, <2>3, <2>7, <3>1, <3>2 DEF Selects, Remote!Answer
    <3> QED
      BY <1>1, <2>2, <3>3 DEF Remote!CallsNext
  <2>8. CASE Selects(t) /\ outcome'[t] \in {"ctx", "closed"}
    <3>1. Exchange'[t] = [state |-> outcome'[t], id |-> tid[t], conn |-> tconn[t],
                          reply |-> Nil]
      BY <1>1, <2>8 DEF Selects, Exchange
    <3>2. Remote!Ends(t, outcome'[t], Nil)
      BY <2>4, <2>8, <3>1 DEF Selects
    <3>3. Remote!GiveUp(t)
      BY <2>1, <2>3, <2>8, <3>2 DEF Selects, Remote!GiveUp
    <3> QED
      BY <1>1, <2>2, <3>3 DEF Remote!CallsNext
  <2> QED
    BY <1>9, <2>5, <2>6, <2>7, <2>8 DEF Sends, Selects
<1>10. CASE Cancels(t)
  <2>1. outcome[t] \in Ended
    BY <1>1, <1>10 DEF Cancels, RemoteInv
  <2>2. Exchange'[t] = Exchange[t]
    BY <1>1, <1>10, <2>1 DEF Cancels, Exchange, Ended
  <2> QED
    BY <1>4, <1>10, <2>2 DEF Cancels
<1>11. CASE Returns(t)
  <2>1. Exchange'[t] = Remote!NoCall
    BY <1>5, <1>11 DEF Returns
  <2>2. CASE outcome[t] \in {"noconn", "refused"}
    <3>1. Exchange[t] = Remote!NoCall
      BY <1>1, <1>11, <2>2 DEF Returns, Exchange, Remote!NoCall
    <3> QED
      BY <1>4, <1>11, <2>1, <3>1 DEF Returns
  <2>3. CASE outcome[t] \in Ended
    <3>1. Exchange[t].state = outcome[t]
      BY <1>1, <1>11, <2>3 DEF Returns, Exchange, Ended
    <3>2. Remote!Return(t)
      BY <1>3, <1>11, <2>1, <2>3, <3>1 DEF Returns, Remote!Return, Ended
    <3> QED
      BY <1>1, <3>2 DEF Remote!CallsNext
  <2> QED
    BY <1>1, <1>11, <2>2, <2>3 DEF Returns, RemoteInv
<1>12. CASE Stops(t)
  BY <1>4, <1>5, <1>12 DEF Stops
<1> QED
  BY <1>6, <1>7, <1>8, <1>9, <1>10, <1>11, <1>12 DEF Registers

(* The client implements RemoteCall: whatever the server repeats, delays or    *)
(* makes up, whoever cancels and whoever tears connections down, a request has *)
(* an id of its own, reaches its server at most once and has one end, which is *)
(* the server's answer to it or an error that is true.                         *)
THEOREM ClientImplementsCalls == Spec => CallRefinement
<1>1. Init => RemoteInv
  BY DEF Init, RemoteInv
<1>2. Init => Remote!CallsInit
  BY DEF Init, RegistryInit, Exchange, Remote!CallsInit, Remote!NoCall
<1>3. Init => ReplyInv
  BY InitReplies
<1>4. IInv /\ IInv' /\ ReplyInv /\ [Next]_vars => ReplyInv'
  BY ReplyStep
<1>5. IInv /\ ReplyInv /\ RemoteInv /\ [Next]_vars => RemoteInv'
  BY RemoteStep
<1>6. IInv /\ ReplyInv /\ RemoteInv /\ [Next]_vars => [Remote!CallsNext]_Remote!remoteVars
  <2> SUFFICES ASSUME IInv, ReplyInv, RemoteInv, [Next]_vars
               PROVE  [Remote!CallsNext]_Remote!remoteVars
    OBVIOUS
  <2>1. ASSUME UNCHANGED exchangeVars,
               closeErr' = closeErr
                 \/ \E c \in Conn : closeErr' = [closeErr EXCEPT ![c] = TRUE]
        PROVE  [Remote!CallsNext]_Remote!remoteVars
    <3>1. UNCHANGED <<gen, wire, Exchange>>
      BY <2>1 DEF exchangeVars, Exchange
    <3>2. CASE closeErr' = closeErr
      BY <3>1, <3>2 DEF Remote!remoteVars
    <3>3. ASSUME NEW c \in Conn, closeErr' = [closeErr EXCEPT ![c] = TRUE]
          PROVE  [Remote!CallsNext]_Remote!remoteVars
      <4>1. CASE closeErr[c]
        <5>1. closeErr' = closeErr
          BY <3>3, <4>1 DEF IInv, Typed, TypeOK, ConnTypeOK, RegistryTypeOK
        <5> QED
          BY <3>1, <5>1 DEF Remote!remoteVars
      <4>2. CASE ~closeErr[c]
        BY <3>1, <3>3, <4>2 DEF Remote!CallsNext, Remote!Lose
      <4> QED
        BY <4>1, <4>2
    <3> QED
      BY <2>1, <3>2, <3>3
  <2> QED
    BY <2>1, OthersKeepExchanges, ThreadMoves, ExchangeSteps
<1> QED
  BY <1>1, <1>2, <1>3, <1>4, <1>5, <1>6, Inductive, PTL
  DEF Spec, CallRefinement, Remote!CallsSpec

(***************************************************************************)
(* The listings.  A connection whose readLoop has not begun has answered    *)
(* nobody, so nothing of it is in a channel, with a call or in a listing.    *)
(***************************************************************************)

Quiet(c) == reader[c] \in {"none", "new"}

NothingStored ==
  \A c \in Conn : Quiet(c) =>
    \A k \in Kind, s \in Server : registry[k][s] # Nil => registry[k][s].conn # c

NothingAnswered ==
  \A c \in Conn, t \in Thread : Quiet(c) /\ tconn[t] = c =>
    /\ outcome[t] # "reply"
    /\ pc[t] \in {"send", "wait"} => buf[tid[t]] = Nil

QuietInv == NothingStored /\ NothingAnswered

(* Nobody becomes quiet: Connect takes a connection that is.                 *)
LEMMA QuietStays ==
  ASSUME IInv, [Next]_vars, NEW c \in Conn, Quiet(c)'
  PROVE  Quiet(c)
<1> USE DEF IInv, Typed, TypeOK, ReaderTypeOK, ReaderPc, Quiet, vars, readerVars
<1>1. CASE UNCHANGED vars
  BY <1>1
<1>2. CASE Start
  BY <1>2 DEF Start, CallLookup, Lookup, DiscoverStart, ConnectSwap, Swap, DisconnectBegin
<1>3. CASE Environment
  BY <1>3 DEF Environment, CancelContext, ServerReply, ServerJunk, ServerChange,
      ServerExit, Post
<1>4. CASE \E t \in Thread : CallSend(t) \/ CallStep(t)
  BY <1>4 DEF CallStep, CallSend, CallRegister, RegisterAs, CallSendFails, SendFails,
      CallSelect, CallCancel, CallClose, CallReturn
<1>5. CASE \E d \in Discoverer : DiscoverStep(d)
  BY <1>5 DEF DiscoverStep, DiscoverNext, Lookup, DiscoverError, DiscoverStore, DiscoverEnd
<1>6. CASE \E d \in Conn : ReaderStep(d)
  BY <1>6 DEF ReaderStep, ReaderReceive, ReceiveCancelled, ReaderFails, ReceiveFails,
      ReaderMessage, ReaderSend, ReaderDrain, ReaderExit
<1>7. CASE \E m \in Manager : ManagerStep(m)
  BY <1>7 DEF ManagerStep, DisconnectDelete, DisconnectEnd, TeardownDrain,
      TeardownCancel, TeardownRemove, TeardownClose, ConnectStart
<1>8. CASE \E x \in Closer : CloseDrained(x)
  BY <1>8 DEF CloseDrained
<1> QED
  BY <1>1, <1>2, <1>3, <1>4, <1>5, <1>6, <1>7, <1>8 DEF Next

(* An answer is stored for the connection it was asked of, which is not       *)
(* quiet.                                                                    *)
LEMMA StoredStep == IInv /\ QuietInv /\ [Next]_vars => NothingStored'
<1> SUFFICES ASSUME IInv, QuietInv, [Next]_vars PROVE NothingStored'
  OBVIOUS
<1>1. \A c \in Conn : Quiet(c)' => Quiet(c)
  BY QuietStays
<1>2. registry \in [Kind -> [Server -> Listing \cup {Nil}]]
  BY DEF IInv, Typed, TypeOK, ClientTypeOK
<1>3. ASSUME UNCHANGED registry PROVE NothingStored'
  BY <1>1, <1>3 DEF QuietInv, NothingStored
<1>4. ASSUME NEW d \in Discoverer, DiscoverStore(d) PROVE NothingStored'
  <2>1. tconn[d] \in Conn /\ outcome[d] = "reply" /\ d \in Thread
    BY <1>4 DEF DiscoverStore, IInv, Typed, CallTyped, Thread
  <2>2. ~Quiet(tconn[d])
    BY <2>1 DEF QuietInv, NothingAnswered
  <2>3. \A k \in Kind, s \in Server :
           \/ registry'[k][s] = registry[k][s]
           \/ registry'[k][s].conn = tconn[d]
    BY <1>2, <1>4 DEF DiscoverStore
  <2> QED
    BY <1>1, <2>2, <2>3 DEF QuietInv, NothingStored
<1>5. ASSUME NEW m \in Manager, TeardownRemove(m) PROVE NothingStored'
  <2>1. \A k \in Kind, s \in Server : registry'[k][s] \in {registry[k][s], Nil}
    BY <1>2, <1>5 DEF TeardownRemove
  <2> QED
    BY <1>1, <2>1 DEF QuietInv, NothingStored
<1> USE DEF clientVars, listVars
<1>6. CASE UNCHANGED vars \/ Start \/ Environment
  BY <1>3, <1>6 DEF vars, Start, CallLookup, Lookup, DiscoverStart, ConnectSwap, Swap,
      DisconnectBegin, Environment, CancelContext, ServerReply, ServerJunk,
      ServerChange, ServerExit, Post
<1>7. CASE \E t \in Thread : CallSend(t) \/ CallStep(t)
  BY <1>3, <1>7 DEF CallStep, CallSend, CallRegister, RegisterAs, CallSendFails,
      SendFails, CallSelect, CallCancel, CallClose, CallReturn
<1>8. CASE \E d \in Discoverer : DiscoverStep(d)
  BY <1>3, <1>4, <1>8 DEF DiscoverStep, DiscoverNext, Lookup, DiscoverError, DiscoverEnd
<1>9. CASE \E c \in Conn : ReaderStep(c)
  BY <1>3, <1>9 DEF ReaderStep, ReaderReceive, ReceiveCancelled, ReaderFails,
      ReceiveFails, ReaderMessage, ReaderSend, ReaderDrain, ReaderExit
<1>10. CASE \E m \in Manager : ManagerStep(m)
  BY <1>3, <1>5, <1>10 DEF ManagerStep, DisconnectDelete, DisconnectEnd, TeardownDrain,
      TeardownCancel, TeardownClose, ConnectStart
<1>11. CASE \E x \in Closer : CloseDrained(x)
  BY <1>3, <1>11 DEF CloseDrained
<1> QED
  BY <1>6, <1>7, <1>8, <1>9, <1>10, <1>11 DEF Next

(* A channel is filled by the readLoop of the connection its call was sent    *)
(* on.                                                                       *)
LEMMA AnsweredStep == IInv /\ ReplyInv /\ QuietInv /\ [Next]_vars => NothingAnswered'
<1> SUFFICES ASSUME IInv, ReplyInv, QuietInv, [Next]_vars PROVE NothingAnswered'
  OBVIOUS
<1> USE DEF registryVars, callVars, threadVars
<1>1. \A c \in Conn : Quiet(c)' => Quiet(c)
  BY QuietStays
<1>2. CallTypeOK /\ buf \in [Id -> Reply \cup {Nil}]
  BY DEF IInv, Typed, TypeOK, RegistryTypeOK
<1>3. ASSUME UNCHANGED <<pc, tid, tconn, outcome, buf>> PROVE NothingAnswered'
  BY <1>1, <1>3 DEF QuietInv, NothingAnswered
<1>4. ASSUME NEW t \in Thread,
             outcome'[t] = "reply" => outcome[t] = "reply" /\ tconn'[t] = tconn[t],
             pc'[t] \in {"send", "wait"} =>
               \/ buf[tid'[t]] = Nil
               \/ pc[t] \in {"send", "wait"} /\ tid'[t] = tid[t] /\ tconn'[t] = tconn[t],
             \A u \in Thread \ {t} :
               /\ pc'[u] = pc[u] /\ tid'[u] = tid[u] /\ tconn'[u] = tconn[u]
               /\ outcome'[u] = outcome[u],
             UNCHANGED buf
      PROVE  NothingAnswered'
  BY <1>1, <1>4 DEF QuietInv, NothingAnswered
<1>5. ASSUME NEW t \in Thread, NEW s \in Server, CallLookup(t, s) \/ DiscoverNext(t, s)
      PROVE  NothingAnswered'
  BY <1>2, <1>4, <1>5 DEF CallLookup, DiscoverNext, Lookup, CallTypeOK
<1>6. ASSUME NEW t \in Thread, CallRegister(t) PROVE NothingAnswered'
  <2>1. gen + 1 \in Id /\ ~(gen + 1 <= gen)
    BY <1>6, RegistryAssumption
    DEF IInv, Typed, TypeOK, ClientTypeOK, Id, CallRegister, RegisterAs
  <2>2. buf[gen + 1] = Nil
    BY <2>1 DEF IInv, TokenInv, Issued
  <2> QED
    BY <1>2, <1>4, <1>6, <2>2 DEF CallRegister, RegisterAs, Register, CallTypeOK
<1>7. ASSUME NEW t \in Thread, CallSelect(t) PROVE NothingAnswered'
  <2>1. /\ pc[t] = "wait" /\ pc'[t] = "cancel"
        /\ \A u \in Thread \ {t} : pc'[u] = pc[u] /\ outcome'[u] = outcome[u]
        /\ UNCHANGED <<tid, tconn>>
    BY <1>2, <1>7 DEF CallSelect, CallTypeOK
  <2>2. outcome'[t] = "reply" => buf[tid[t]] # Nil
    BY <1>2, <1>7 DEF CallSelect, CallTypeOK
  <2>3. \A i \in Id : buf'[i] # Nil => buf[i] # Nil
    BY <1>2, <1>7 DEF CallSelect
  <2>4. \A u \in Thread : pc[u] \in {"send", "wait"} => tid[u] \in Id
    BY DEF IInv, Typed, CallTyped
  <2> QED
    BY <1>1, <2>1, <2>2, <2>3, <2>4 DEF QuietInv, NothingAnswered
<1>8. ASSUME NEW c \in Conn, ReaderSend(c) PROVE NothingAnswered'
  <2>1. /\ reader[c] = "send" /\ buf' = [buf EXCEPT ![held[c].id] = held[c]]
        /\ UNCHANGED <<pc, tid, tconn, outcome>>
    BY <1>8 DEF ReaderSend, Deliver
  <2>2. \A t \in Thread : pc[t] \in {"send", "wait"} /\ tid[t] = held[c].id => tconn[t] = c
    BY <2>1 DEF ReplyInv, HeldMatches
  <2>3. ~Quiet(c)
    BY <2>1 DEF Quiet
  <2>4. \A t \in Thread : pc[t] \in {"send", "wait"} => tid[t] \in Id
    BY DEF IInv, Typed, CallTyped
  <2>5. \A i \in Id : i # held[c].id => buf'[i] = buf[i]
    BY <1>2, <2>1
  <2> QED
    BY <1>1, <2>1, <2>2, <2>3, <2>4, <2>5 DEF QuietInv, NothingAnswered
<1>9. CASE UNCHANGED vars
  BY <1>3, <1>9 DEF vars
<1>10. CASE Environment
  BY <1>3, <1>10 DEF Environment, CancelContext, ServerReply, ServerJunk, ServerChange,
      ServerExit, Post
<1>11. ASSUME NEW d \in Discoverer,
              (\E k \in Kind : DiscoverStart(d, k)) \/ DiscoverError(d) \/ DiscoverStore(d)
       PROVE  NothingAnswered'
  BY <1>2, <1>4, <1>11
  DEF DiscoverStart, DiscoverError, DiscoverStore, CallTypeOK, Thread
<1>12. CASE Start
  <2>1. ASSUME NEW m \in Manager,
               DisconnectBegin(m) \/ \E s \in Server, c \in Conn : ConnectSwap(m, s, c)
        PROVE  NothingAnswered'
    BY <1>3, <2>1 DEF DisconnectBegin, ConnectSwap, Swap
  <2> QED
    BY <1>5, <1>11, <1>12, <2>1 DEF Start, Thread
<1>13. ASSUME NEW t \in Thread,
              CallSend(t) \/ CallSendFails(t) \/ CallCancel(t) \/ CallClose(t) \/ CallReturn(t)
       PROVE  NothingAnswered'
  BY <1>2, <1>4, <1>13
  DEF CallSend, CallSendFails, SendFails, CallCancel, Take, CallClose, CloseChan,
      CallReturn, Leave, CallTypeOK
<1>14. ASSUME NEW d \in Discoverer, DiscoverStep(d) PROVE NothingAnswered'
  <2>1. CASE DiscoverEnd(d)
    BY <1>2, <1>4, <2>1 DEF DiscoverEnd, Leave, CallTypeOK, Thread
  <2> QED
    BY <1>5, <1>11, <1>14, <2>1 DEF DiscoverStep, Thread
<1>15. ASSUME NEW c \in Conn, ReaderStep(c) PROVE NothingAnswered'
  BY <1>3, <1>8, <1>15
  DEF ReaderStep, ReaderReceive, ReceiveCancelled, ReaderFails, ReceiveFails,
      ReaderMessage, Take, ReaderDrain, CloseAll, Drain, ReaderExit
<1>16. ASSUME NEW m \in Manager, ManagerStep(m) PROVE NothingAnswered'
  BY <1>3, <1>16
  DEF ManagerStep, DisconnectDelete, DisconnectEnd, TeardownDrain, CloseAll, Drain,
      TeardownCancel, TeardownRemove, TeardownClose, ConnectStart
<1>17. ASSUME NEW x \in Closer, CloseDrained(x) PROVE NothingAnswered'
  BY <1>3, <1>17 DEF CloseDrained, CloseChan
<1>18. ASSUME NEW t \in Thread, CallSend(t) \/ CallStep(t) PROVE NothingAnswered'
  BY <1>6, <1>7, <1>13, <1>18 DEF CallStep
<1> QED
  BY <1>9, <1>10, <1>12, <1>14, <1>15, <1>16, <1>17, <1>18 DEF Next

(* Connect has removed the listings of the connection it replaces before its  *)
(* own connection can be listed, whatever discoveries are under way.          *)
THEOREM NewListingsAreKept == Spec => []ConnectKeepsNew
<1>1. Init => ReplyInv /\ QuietInv
  BY InitReplies DEF Init, RegistryInit, QuietInv, NothingStored, NothingAnswered
<1>2. IInv /\ IInv' /\ ReplyInv /\ QuietInv /\ [Next]_vars => (ReplyInv /\ QuietInv)'
  BY ReplyStep, StoredStep, AnsweredStep DEF QuietInv
<1>3. IInv /\ QuietInv => ConnectKeepsNew
  BY DEF IInv, TokenInv, NewReaders, QuietInv, NothingStored, Quiet, ConnectKeepsNew
<1> QED
  BY <1>1, <1>2, <1>3, Inductive, PTL DEF Spec

===============================================================================
