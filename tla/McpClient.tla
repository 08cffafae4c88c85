------------------------------ MODULE McpClient ------------------------------
(***************************************************************************)
(* The MCP client (internal/mcp/client.go): JSON-RPC calls of concurrent   *)
(* goroutines over one connection per server name, the goroutine that      *)
(* reads each connection, connecting and disconnecting while calls are in  *)
(* flight, and the discovery of the listings (tools, resources) that       *)
(* servers announce to have changed.                                       *)
(*                                                                         *)
(* Goroutines are                                                          *)
(*   - callers: one CallTool, ReadResource or Initialize request each;     *)
(*   - discoverers: one DiscoverTools or DiscoverResources each;           *)
(*   - managers: one Connect, Disconnect or Close each;                    *)
(*   - the readLoop of every connection.                                   *)
(* A step is a critical section of a mutex, an operation on a channel or   *)
(* on an atomic, or a call of the transport.                               *)
(***************************************************************************)
EXTENDS PendingRegistry, Sequences

CONSTANTS
  Server,      \* names of servers
  Caller,      \* goroutines that make one call
  Discoverer,  \* goroutines that run one discovery
  Manager,     \* goroutines that connect or disconnect
  Oks,         \* whether a response can be a result that decodes (TRUE) or not
  MaxInbox,    \* bound: messages of a server not yet read
  MaxStarted   \* bound: goroutines that start

Thread == Caller \cup Discoverer
Closer == Manager \cup Conn   \* the goroutines that run CloseAll

ASSUME ClientAssumption ==
  /\ Caller \cap Discoverer = {}
  /\ Manager \cap Conn = {}
  /\ Oks \subseteq BOOLEAN
  /\ MaxInbox \in Nat
  /\ Nil \notin Conn \cup Server \cup [conn : Conn, ver : 0 .. MaxVersion]

VARIABLES
  \* Client
  conns,     \* conns[s]: the connection of server s
  gen,       \* the last request id issued
  registry,  \* registry[k][s]: what the client has listed for s, by kind
  stale,     \* stale[k]: toolsStale and resourcesStale
  \* the connection's transport and the server at its other end
  tclosed,   \* tclosed[c]: our end is closed
  broken,    \* broken[c]: the server exited or broke the framing
  wire,      \* wire[c]: ids of the requests the server received
  inbox,     \* inbox[c]: messages of the server not yet read
  ver,       \* ver[c]: the version of each of the server's listings
  \* readLoop
  reader,    \* reader[c]: its control point
  rcancel,   \* rcancel[c]: its context is cancelled
  held,      \* held[c]: the response Resolve is about to send
  \* call, and the discoveries around it
  pc,        \* pc[t]: control point
  tconn,     \* tconn[t]: the connection call read from conns
  tid,       \* tid[t]: the id of its request
  cancelled, \* cancelled[t]: its context is cancelled
  outcome,   \* outcome[t]: how its last call ended
  result,    \* result[t]: the response its last call returned
  kind,      \* kind[d]: what a discoverer lists
  todo,      \* todo[d]: the servers it has still to ask
  asked,     \* asked[d]: the server it is asking
  errs,      \* errs[d]: a server failed during the discovery
  \* Connect, Disconnect and Close
  mpc,       \* mpc[m]: control point
  mnew,      \* mnew[m]: the connection Connect makes, Nil otherwise
  mold,      \* mold[m]: the connection being torn down
  mserver,   \* mserver[m]: its server
  mtodo,     \* mtodo[m]: the servers a Disconnect or Close has still to visit
  \* CloseAll
  closing    \* closing[x]: channels goroutine x has drained and not yet closed

connVars    == <<tclosed, broken, wire, inbox, ver>>
readerVars  == <<reader, rcancel, held>>
callVars    == <<pc, tconn, tid, outcome, result>>
discVars    == <<kind, todo, asked, errs>>
managerVars == <<mpc, mnew, mold, mserver, mtodo>>
listVars    == <<registry, stale>>

clientVars  == <<conns, gen, listVars>>
threadVars  == <<callVars, cancelled, discVars>>

vars == <<registryVars, clientVars, connVars, readerVars, threadVars, managerVars,
          closing>>

Message ==
  [type : {"reply"}, reply : Reply] \cup [type : {"note"}, kind : Kind]
    \cup [type : {"junk"}]
Listing == [conn : Conn, ver : 0 .. MaxVersion]

ReaderPc == {"none", "new", "loop", "recv", "send", "drain", "closing", "exited"}
ThreadPc == {"idle", "next", "register", "send", "wait", "cancel", "close",
             "ret", "done"}
ManagerPc == {"idle", "pick", "drain", "closing", "remove", "tclose", "start", "done"}
Outcome == {"none", "reply", "noconn", "refused", "send", "ctx", "closed",
            "cancelled"}

ClientTypeOK ==
  /\ conns \in [Server -> Conn \cup {Nil}]
  /\ gen \in 0 .. MaxId
  /\ registry \in [Kind -> [Server -> Listing \cup {Nil}]]
  /\ stale \in [Kind -> BOOLEAN]

ConnTypeOK ==
  /\ tclosed \in [Conn -> BOOLEAN]
  /\ broken \in [Conn -> BOOLEAN]
  /\ wire \in [Conn -> SUBSET Id]
  /\ inbox \in [Conn -> Seq(Message)]
  /\ ver \in [Conn -> [Kind -> 0 .. MaxVersion]]

ReaderTypeOK ==
  /\ reader \in [Conn -> ReaderPc]
  /\ rcancel \in [Conn -> BOOLEAN]
  /\ held \in [Conn -> Reply \cup {Nil}]
  /\ closing \in [Closer -> SUBSET Id]

CallTypeOK ==
  /\ pc \in [Thread -> ThreadPc]
  /\ tconn \in [Thread -> Conn \cup {Nil}]
  /\ tid \in [Thread -> 0 .. MaxId]
  /\ cancelled \in [Thread -> BOOLEAN]
  /\ outcome \in [Thread -> Outcome]
  /\ result \in [Thread -> Reply \cup {Nil}]

DiscoverTypeOK ==
  /\ kind \in [Discoverer -> Kind \cup {Nil}]
  /\ todo \in [Discoverer -> SUBSET Server]
  /\ asked \in [Discoverer -> Server \cup {Nil}]
  /\ errs \in [Discoverer -> BOOLEAN]

ManagerTypeOK ==
  /\ mpc \in [Manager -> ManagerPc]
  /\ mnew \in [Manager -> Conn \cup {Nil}]
  /\ mold \in [Manager -> Conn \cup {Nil}]
  /\ mserver \in [Manager -> Server \cup {Nil}]
  /\ mtodo \in [Manager -> SUBSET Server]

TypeOK ==
  /\ RegistryTypeOK /\ ClientTypeOK /\ ConnTypeOK /\ ReaderTypeOK
  /\ CallTypeOK /\ DiscoverTypeOK /\ ManagerTypeOK

(* NewClient, before any goroutine has started. *)
Init ==
  /\ RegistryInit
  /\ conns = [s \in Server |-> Nil]
  /\ gen = 0
  /\ registry = [k \in Kind |-> [s \in Server |-> Nil]]
  /\ stale = [k \in Kind |-> FALSE]
  /\ tclosed = [c \in Conn |-> FALSE]
  /\ broken = [c \in Conn |-> FALSE]
  /\ wire = [c \in Conn |-> {}]
  /\ inbox = [c \in Conn |-> <<>>]
  /\ ver = [c \in Conn |-> [k \in Kind |-> 0]]
  /\ reader = [c \in Conn |-> "none"]
  /\ rcancel = [c \in Conn |-> FALSE]
  /\ held = [c \in Conn |-> Nil]
  /\ pc = [t \in Thread |-> "idle"]
  /\ tconn = [t \in Thread |-> Nil]
  /\ tid = [t \in Thread |-> 0]
  /\ cancelled = [t \in Thread |-> FALSE]
  /\ outcome = [t \in Thread |-> "none"]
  /\ result = [t \in Thread |-> Nil]
  /\ kind = [d \in Discoverer |-> Nil]
  /\ asked = [d \in Discoverer |-> Nil]
  /\ todo = [d \in Discoverer |-> {}]
  /\ errs = [d \in Discoverer |-> FALSE]
  /\ mpc = [m \in Manager |-> "idle"]
  /\ mnew = [m \in Manager |-> Nil]
  /\ mold = [m \in Manager |-> Nil]
  /\ mserver = [m \in Manager |-> Nil]
  /\ mtodo = [m \in Manager |-> {}]
  /\ closing = [x \in Closer |-> {}]

Connected == {s \in Server : conns[s] # Nil}

-----------------------------------------------------------------------------
(***************************************************************************)
(* call.  Its context may be cancelled at any time: past the select of its  *)
(* last call that changes nothing.  A goroutine that ends drops its locals: *)
(* they are reset, so that "done" is one state.                             *)
(***************************************************************************)

Started ==
  Cardinality({t \in Thread : pc[t] # "idle"})
    + Cardinality({m \in Manager : mpc[m] # "idle"})

CancelContext(t) ==
  /\ pc[t] \in {"next", "register", "send", "wait"} /\ ~cancelled[t]
  /\ cancelled' = [cancelled EXCEPT ![t] = TRUE]
  /\ UNCHANGED <<registryVars, clientVars, connVars, readerVars, callVars, discVars,
                 managerVars, closing>>

(* The connection is read under the client's mutex and used after it: it    *)
(* may be torn down at any later point of the call.                         *)
Lookup(t, s) ==
  /\ tconn' = [tconn EXCEPT ![t] = conns[s]]
  /\ IF conns[s] = Nil
       THEN /\ outcome' = [outcome EXCEPT ![t] = "noconn"]
            /\ pc' = [pc EXCEPT ![t] = "ret"]
       ELSE /\ pc' = [pc EXCEPT ![t] = "register"]
            /\ outcome' = [outcome EXCEPT ![t] = "none"]
  /\ result' = [result EXCEPT ![t] = Nil]
  /\ UNCHANGED <<registryVars, clientVars, connVars, readerVars, tid, cancelled,
                 managerVars, closing>>

CallLookup(t, s) ==
  /\ t \in Caller /\ pc[t] = "idle"
  /\ Lookup(t, s)
  /\ UNCHANGED discVars

(* The counter is atomic, and nothing but the registry uses the new id i.    *)
RegisterAs(t, i) ==
  /\ pc[t] = "register" /\ gen < MaxId
  /\ gen' = gen + 1
  /\ tid' = [tid EXCEPT ![t] = i]
  /\ \/ /\ RegisterFails(tconn[t], i)
        /\ pc' = [pc EXCEPT ![t] = "ret"]
        /\ outcome' = [outcome EXCEPT ![t] = "refused"]
        /\ UNCHANGED registryVars
     \/ /\ Register(tconn[t], i)
        /\ pc' = [pc EXCEPT ![t] = "send"]
        /\ UNCHANGED outcome
  /\ UNCHANGED <<conns, listVars, connVars, readerVars, tconn, cancelled, result,
                 discVars, managerVars, closing>>

CallRegister(t) == RegisterAs(t, gen + 1)

(* Send succeeds on a transport that is not closed.                         *)
CallSend(t) ==
  /\ pc[t] = "send" /\ ~cancelled[t] /\ ~tclosed[tconn[t]]
  /\ wire' = [wire EXCEPT ![tconn[t]] = @ \cup {tid[t]}]
  /\ pc' = [pc EXCEPT ![t] = "wait"]
  /\ UNCHANGED <<registryVars, clientVars, tclosed, broken, inbox, ver, readerVars,
                 tconn, tid, outcome, result, cancelled, discVars, managerVars,
                 closing>>

(* Send fails on a closed or broken transport and under a cancelled context. *)
(* A context cancelled during the write closes the transport; the request    *)
(* may have reached the server all the same.                                 *)
SendFails(t, next) ==
  LET c == tconn[t]
  IN /\ pc[t] = "send" /\ (cancelled[t] \/ tclosed[c] \/ broken[c])
     /\ \/ UNCHANGED <<wire, tclosed>>
        \/ /\ cancelled[t] /\ ~tclosed[c]
           /\ wire' \in {wire, [wire EXCEPT ![c] = @ \cup {tid[t]}]}
           /\ tclosed' \in {tclosed, [tclosed EXCEPT ![c] = TRUE]}
     /\ pc' = [pc EXCEPT ![t] = next]
     /\ outcome' = [outcome EXCEPT ![t] = "send"]
     /\ UNCHANGED <<registryVars, clientVars, broken, inbox, ver, readerVars, tconn,
                    tid, result, cancelled, discVars, managerVars, closing>>

(* Mutation: Cancel is deferred only after Send has succeeded.               *)
SendFailsEarly(t) == SendFails(t, "ret")

CallSendFails(t) == SendFails(t, "cancel")

(* The select of call: any ready case may be taken.  A channel closed while   *)
(* it holds a response still yields the response.                             *)
CallSelect(t) ==
  LET i == tid[t]
  IN /\ pc[t] = "wait"
     /\ \/ /\ cancelled[t]
           /\ outcome' = [outcome EXCEPT ![t] = "ctx"]
           /\ UNCHANGED <<result, buf>>
        \/ /\ buf[i] # Nil
           /\ outcome' = [outcome EXCEPT ![t] = "reply"]
           /\ result' = [result EXCEPT ![t] = buf[i]]
           /\ buf' = [buf EXCEPT ![i] = Nil]
        \/ /\ buf[i] = Nil /\ i \notin open
           /\ outcome' = [outcome EXCEPT ![t] =
                            IF closeErr[tconn[t]] THEN "closed" ELSE "cancelled"]
           /\ UNCHANGED <<result, buf>>
     /\ pc' = [pc EXCEPT ![t] = "cancel"]
     /\ UNCHANGED <<pending, closeErr, open, clientVars, connVars, readerVars,
                    tconn, tid, cancelled, discVars, managerVars, closing>>

(* The deferred Cancel. *)
CallCancel(t) ==
  /\ pc[t] = "cancel"
  /\ \/ /\ Take(tconn[t], tid[t])
        /\ pc' = [pc EXCEPT ![t] = "close"]
     \/ /\ tid[t] \notin pending[tconn[t]]
        /\ pc' = [pc EXCEPT ![t] = "ret"]
        /\ UNCHANGED registryVars
  /\ UNCHANGED <<clientVars, connVars, readerVars, tconn, tid, outcome, result,
                 cancelled, discVars, managerVars, closing>>

CallClose(t) ==
  /\ pc[t] = "close"
  /\ CloseChan(tid[t])
  /\ pc' = [pc EXCEPT ![t] = "ret"]
  /\ UNCHANGED <<clientVars, connVars, readerVars, tconn, tid, outcome, result,
                 cancelled, discVars, managerVars, closing>>

Leave(t) ==
  /\ pc' = [pc EXCEPT ![t] = "done"]
  /\ tconn' = [tconn EXCEPT ![t] = Nil]
  /\ tid' = [tid EXCEPT ![t] = 0]
  /\ cancelled' = [cancelled EXCEPT ![t] = FALSE]
  /\ outcome' = [outcome EXCEPT ![t] = "none"]
  /\ result' = [result EXCEPT ![t] = Nil]

CallReturn(t) ==
  /\ t \in Caller /\ pc[t] = "ret"
  /\ Leave(t)
  /\ UNCHANGED <<registryVars, clientVars, connVars, readerVars, discVars,
                 managerVars, closing>>

-----------------------------------------------------------------------------
(***************************************************************************)
(* DiscoverTools and DiscoverResources: the names are a snapshot, and each  *)
(* server of it is asked and its answer stored in turn.                     *)
(***************************************************************************)

DiscoverStart(d, k) ==
  /\ d \in Discoverer /\ pc[d] = "idle"
  /\ kind' = [kind EXCEPT ![d] = k]
  /\ todo' = [todo EXCEPT ![d] = Connected]
  /\ pc' = [pc EXCEPT ![d] = "next"]
  /\ UNCHANGED <<registryVars, clientVars, connVars, readerVars, tconn, tid,
                 outcome, result, cancelled, asked, errs, managerVars, closing>>

DiscoverNext(d, s) ==
  /\ d \in Discoverer /\ pc[d] = "next" /\ s \in todo[d]
  /\ todo' = [todo EXCEPT ![d] = @ \ {s}]
  /\ asked' = [asked EXCEPT ![d] = s]
  /\ Lookup(d, s)
  /\ UNCHANGED <<kind, errs>>

(* A failed call, an error response and a result that does not decode are    *)
(* remembered, and the discovery goes on.                                    *)
DiscoverError(d) ==
  /\ d \in Discoverer /\ pc[d] = "ret"
  /\ outcome[d] = "reply" => ~result[d].ok
  /\ errs' = [errs EXCEPT ![d] = TRUE]
  /\ pc' = [pc EXCEPT ![d] = "next"]
  /\ UNCHANGED <<registryVars, clientVars, connVars, readerVars, tconn, tid,
                 outcome, result, cancelled, kind, todo, asked, managerVars,
                 closing>>

(* ReplaceServerTools or ReplaceServerResources.                             *)
DiscoverStore(d) ==
  /\ d \in Discoverer /\ pc[d] = "ret"
  /\ outcome[d] = "reply" /\ result[d].ok
  /\ registry' = [registry EXCEPT ![kind[d]][asked[d]] =
                     [conn |-> tconn[d], ver |-> result[d].ver[kind[d]]]]
  /\ pc' = [pc EXCEPT ![d] = "next"]
  /\ UNCHANGED <<registryVars, conns, gen, stale, connVars, readerVars, tconn, tid,
                 outcome, result, cancelled, discVars, managerVars, closing>>

DiscoverEnd(d) ==
  /\ d \in Discoverer /\ pc[d] = "next" /\ todo[d] = {}
  /\ stale' = IF errs[d] THEN stale ELSE [stale EXCEPT ![kind[d]] = FALSE]
  /\ Leave(d)
  /\ UNCHANGED <<registryVars, conns, gen, registry, connVars, readerVars, discVars,
                 managerVars, closing>>

-----------------------------------------------------------------------------
(***************************************************************************)
(* readLoop.                                                               *)
(***************************************************************************)

(* Receive checks its context and the transport, then waits for a message.   *)
ReaderReceive(c) ==
  /\ reader[c] = "loop" /\ ~rcancel[c] /\ ~tclosed[c]
  /\ reader' = [reader EXCEPT ![c] = "recv"]
  /\ UNCHANGED <<registryVars, clientVars, connVars, rcancel, held, threadVars,
                 managerVars, closing>>

(* A cancelled context closes the transport under a Receive that waits.      *)
ReceiveCancelled(c) ==
  /\ reader[c] = "recv" /\ rcancel[c] /\ ~tclosed[c]
  /\ tclosed' = [tclosed EXCEPT ![c] = TRUE]
  /\ UNCHANGED <<registryVars, clientVars, broken, wire, inbox, ver, readerVars,
                 threadVars, managerVars, closing>>

(* Receive fails, on entry or while it waits.  What the server sent and      *)
(* nobody has read is lost when our end is closed; the end of the server's   *)
(* output is met only after it.                                              *)
ReceiveFails(c, next) ==
  /\ \/ reader[c] = "loop" /\ (rcancel[c] \/ tclosed[c])
     \/ reader[c] = "recv" /\ (tclosed[c] \/ (broken[c] /\ inbox[c] = <<>>))
  /\ reader' = [reader EXCEPT ![c] = next]
  /\ inbox' = [inbox EXCEPT ![c] = <<>>]
  /\ UNCHANGED <<registryVars, clientVars, tclosed, broken, wire, ver, rcancel,
                 held, threadVars, managerVars, closing>>

(* Mutation: readLoop returns without CloseAll.                              *)
ReaderReturns(c) == ReceiveFails(c, "exited")

ReaderFails(c) == ReceiveFails(c, "drain")

(* A message arrives.  A response goes to Resolve, which discards one nobody *)
(* waits for; a notification to the built-in handler that marks its kind     *)
(* stale; a malformed message is skipped.                                    *)
ReaderMessage(c) ==
  /\ reader[c] = "recv" /\ inbox[c] # <<>>
  /\ inbox' = [inbox EXCEPT ![c] = Tail(@)]
  /\ LET m == Head(inbox[c])
     IN \/ /\ m.type = "reply" /\ m.reply.id \in pending[c]
           /\ Take(c, m.reply.id)
           /\ held' = [held EXCEPT ![c] = m.reply]
           /\ reader' = [reader EXCEPT ![c] = "send"]
           /\ UNCHANGED stale
        \/ /\ m.type = "note"
           /\ stale' = [stale EXCEPT ![m.kind] = TRUE]
           /\ reader' = [reader EXCEPT ![c] = "loop"]
           /\ UNCHANGED <<registryVars, held>>
        \/ /\ m.type = "junk" \/ (m.type = "reply" /\ m.reply.id \notin pending[c])
           /\ reader' = [reader EXCEPT ![c] = "loop"]
           /\ UNCHANGED <<registryVars, held, stale>>
  /\ UNCHANGED <<conns, gen, registry, tclosed, broken, wire, ver, rcancel,
                 threadVars, managerVars, closing>>

ReaderSend(c) ==
  /\ reader[c] = "send"
  /\ Deliver(held[c])
  /\ held' = [held EXCEPT ![c] = Nil]
  /\ reader' = [reader EXCEPT ![c] = "loop"]
  /\ UNCHANGED <<clientVars, connVars, rcancel, threadVars, managerVars, closing>>

(* CloseAll of goroutine x on the registry of connection c: what it drains   *)
(* it closes after unlocking, in any order.                                  *)
CloseAll(x, c) ==
  \/ /\ closeErr[c]
     /\ closing' = [closing EXCEPT ![x] = {}]
     /\ UNCHANGED registryVars
  \/ /\ ~closeErr[c]
     /\ closing' = [closing EXCEPT ![x] = pending[c]]
     /\ Drain(c)

(* The deferred CloseAll of readLoop. *)
ReaderDrain(c) ==
  /\ reader[c] = "drain"
  /\ CloseAll(c, c)
  /\ reader' = [reader EXCEPT ![c] = "closing"]
  /\ UNCHANGED <<clientVars, connVars, rcancel, held, threadVars, managerVars>>

ReaderExit(c) ==
  /\ reader[c] = "closing" /\ closing[c] = {}
  /\ reader' = [reader EXCEPT ![c] = "exited"]
  /\ UNCHANGED <<registryVars, clientVars, connVars, rcancel, held, threadVars,
                 managerVars, closing>>

CloseDrained(x) ==
  \E i \in closing[x] :
    /\ CloseChan(i)
    /\ closing' = [closing EXCEPT ![x] = @ \ {i}]
    /\ UNCHANGED <<clientVars, connVars, readerVars, threadVars, managerVars>>

-----------------------------------------------------------------------------
(***************************************************************************)
(* Connect, Disconnect and Close.  The connection is taken out of conns     *)
(* under the mutex, and torn down after it.                                 *)
(***************************************************************************)

(* Connection c becomes that of server s.                                   *)
Swap(m, s, c, readerAt, next) ==
  /\ mpc[m] = "idle" /\ reader[c] = "none"
  /\ conns' = [conns EXCEPT ![s] = c]
  /\ reader' = [reader EXCEPT ![c] = readerAt]
  /\ mnew' = [mnew EXCEPT ![m] = c]
  /\ mold' = [mold EXCEPT ![m] = conns[s]]
  /\ mserver' = [mserver EXCEPT ![m] = s]
  /\ mpc' = [mpc EXCEPT ![m] = next]
  /\ UNCHANGED <<registryVars, gen, listVars, connVars, rcancel, held, threadVars,
                 mtodo, closing>>

(* Mutation: readLoop is started before the old connection is torn down.    *)
ConnectReadsFirst(m, s, c) ==
  Swap(m, s, c, "loop", IF conns[s] = Nil THEN "start" ELSE "drain")

(* Mutation: the connection replaced is not torn down.                      *)
ConnectForgetsOld(m, s, c) == Swap(m, s, c, "new", "start")

ConnectSwap(m, s, c) ==
  Swap(m, s, c, "new", IF conns[s] = Nil THEN "start" ELSE "drain")

(* Disconnect visits one server, Close every one connected when it begins.  *)
DisconnectBegin(m) ==
  /\ mpc[m] = "idle"
  /\ \E S \in {{s} : s \in Server} \cup {Connected} :
       mtodo' = [mtodo EXCEPT ![m] = S]
  /\ mpc' = [mpc EXCEPT ![m] = "pick"]
  /\ UNCHANGED <<registryVars, clientVars, connVars, readerVars, threadVars, mnew,
                 mold, mserver, closing>>

DisconnectDelete(m, s) ==
  /\ mpc[m] = "pick" /\ s \in mtodo[m]
  /\ mtodo' = [mtodo EXCEPT ![m] = @ \ {s}]
  /\ conns' = [conns EXCEPT ![s] = Nil]
  /\ mold' = [mold EXCEPT ![m] = conns[s]]
  /\ mserver' = [mserver EXCEPT ![m] = s]
  /\ mpc' = [mpc EXCEPT ![m] = IF conns[s] = Nil THEN "pick" ELSE "drain"]
  /\ UNCHANGED <<registryVars, gen, listVars, connVars, readerVars, threadVars,
                 mnew, closing>>

ManagerLeave(m) ==
  /\ mpc' = [mpc EXCEPT ![m] = "done"]
  /\ mnew' = [mnew EXCEPT ![m] = Nil]
  /\ mold' = [mold EXCEPT ![m] = Nil]
  /\ mserver' = [mserver EXCEPT ![m] = Nil]

DisconnectEnd(m) ==
  /\ mpc[m] = "pick" /\ mtodo[m] = {}
  /\ ManagerLeave(m)
  /\ UNCHANGED <<registryVars, clientVars, connVars, readerVars, threadVars, mtodo,
                 closing>>

TeardownDrain(m) ==
  /\ mpc[m] = "drain"
  /\ CloseAll(m, mold[m])
  /\ mpc' = [mpc EXCEPT ![m] = "closing"]
  /\ UNCHANGED <<clientVars, connVars, readerVars, threadVars, mnew, mold, mserver,
                 mtodo>>

TeardownCancel(m) ==
  /\ mpc[m] = "closing" /\ closing[m] = {}
  /\ rcancel' = [rcancel EXCEPT ![mold[m]] = TRUE]
  /\ mpc' = [mpc EXCEPT ![m] = "remove"]
  /\ UNCHANGED <<registryVars, clientVars, connVars, reader, held, threadVars, mnew,
                 mold, mserver, mtodo, closing>>

(* RemoveServer of both listings.                                           *)
TeardownRemove(m) ==
  /\ mpc[m] = "remove"
  /\ registry' = [k \in Kind |-> [registry[k] EXCEPT ![mserver[m]] = Nil]]
  /\ mpc' = [mpc EXCEPT ![m] = "tclose"]
  /\ UNCHANGED <<registryVars, conns, gen, stale, connVars, readerVars, threadVars,
                 mnew, mold, mserver, mtodo, closing>>

TeardownClose(m) ==
  /\ mpc[m] = "tclose"
  /\ tclosed' = [tclosed EXCEPT ![mold[m]] = TRUE]
  /\ mpc' = [mpc EXCEPT ![m] = IF mnew[m] = Nil THEN "pick" ELSE "start"]
  /\ UNCHANGED <<registryVars, clientVars, broken, wire, inbox, ver, readerVars,
                 threadVars, mnew, mold, mserver, mtodo, closing>>

(* The last step of Connect: go conn.readLoop(ctx).                         *)
ConnectStart(m) ==
  /\ mpc[m] = "start"
  /\ reader' = [reader EXCEPT ![mnew[m]] = "loop"]
  /\ ManagerLeave(m)
  /\ UNCHANGED <<registryVars, clientVars, connVars, rcancel, held, threadVars,
                 mtodo, closing>>

-----------------------------------------------------------------------------
(***************************************************************************)
(* The servers, outside this code: they answer the requests they received  *)
(* in any order, late, more than once or not at all, change their listings *)
(* and say so, send what readLoop skips (a malformed message, one without  *)
(* id or method, a response to an id never issued), and exit.              *)
(***************************************************************************)

Alive(c) ==
  reader[c] \in {"new", "loop", "recv", "send"} /\ ~tclosed[c] /\ ~broken[c]

Post(c, m) ==
  /\ Alive(c)
  /\ Len(inbox[c]) < MaxInbox
  /\ inbox' = [inbox EXCEPT ![c] = Append(@, m)]
  /\ UNCHANGED <<registryVars, clientVars, tclosed, wire, readerVars, threadVars,
                 managerVars, closing, broken>>

ServerReply(c, i, ok) ==
  /\ i \in wire[c]
  /\ Post(c, [type |-> "reply", reply |-> [id |-> i, ok |-> ok, ver |-> ver[c]]])
  /\ UNCHANGED ver

ServerJunk(c) ==
  /\ Post(c, [type |-> "junk"])
  /\ UNCHANGED ver

ServerChange(c, k) ==
  /\ ver[c][k] < MaxVersion
  /\ ver' = [ver EXCEPT ![c][k] = @ + 1]
  /\ Post(c, [type |-> "note", kind |-> k])

ServerExit(c) ==
  /\ Alive(c)
  /\ broken' = [broken EXCEPT ![c] = TRUE]
  /\ UNCHANGED <<registryVars, clientVars, tclosed, wire, inbox, ver, readerVars,
                 threadVars, managerVars, closing>>

-----------------------------------------------------------------------------

(* What the goroutine t does once it has started, whatever the server does. *)
CallStep(t) ==
  \/ CallRegister(t) \/ CallSendFails(t) \/ CallSelect(t) \/ CallCancel(t)
  \/ CallClose(t) \/ CallReturn(t)

DiscoverStep(d) ==
  \/ \E s \in Server : DiscoverNext(d, s)
  \/ DiscoverError(d) \/ DiscoverStore(d) \/ DiscoverEnd(d)

ReaderStep(c) ==
  \/ ReaderReceive(c) \/ ReceiveCancelled(c) \/ ReaderFails(c) \/ ReaderMessage(c)
  \/ ReaderSend(c) \/ ReaderDrain(c) \/ ReaderExit(c)

ManagerStep(m) ==
  \/ \E s \in Server : DisconnectDelete(m, s)
  \/ DisconnectEnd(m) \/ TeardownDrain(m) \/ TeardownCancel(m)
  \/ TeardownRemove(m) \/ TeardownClose(m) \/ ConnectStart(m)

Start ==
  /\ Started < MaxStarted
  /\ \/ \E t \in Caller, s \in Server : CallLookup(t, s)
     \/ \E d \in Discoverer, k \in Kind : DiscoverStart(d, k)
     \/ \E m \in Manager, s \in Server, c \in Conn : ConnectSwap(m, s, c)
     \/ \E m \in Manager : DisconnectBegin(m)

Environment ==
  \/ \E t \in Thread : CancelContext(t)
  \/ \E c \in Conn, i \in Id, ok \in Oks : ServerReply(c, i, ok)
  \/ \E c \in Conn : ServerJunk(c)
  \/ \E c \in Conn, k \in Kind : ServerChange(c, k)
  \/ \E c \in Conn : ServerExit(c)

Next ==
  \/ Start
  \/ Environment
  \/ \E t \in Thread : CallSend(t) \/ CallStep(t)
  \/ \E d \in Discoverer : DiscoverStep(d)
  \/ \E c \in Conn : ReaderStep(c)
  \/ \E m \in Manager : ManagerStep(m)
  \/ \E x \in Closer : CloseDrained(x)

Spec == Init /\ [][Next]_vars

(***************************************************************************)
(* The goroutines of the client are scheduled.  Nothing is asked of the     *)
(* servers, of whoever starts operations and cancels contexts, or of a      *)
(* write that the server does not read (CallSend).                          *)
(***************************************************************************)
Fairness ==
  /\ \A t \in Thread : WF_vars(CallStep(t))
  /\ \A d \in Discoverer : WF_vars(DiscoverStep(d))
  /\ \A c \in Conn : WF_vars(ReaderStep(c))
  /\ \A m \in Manager : WF_vars(ManagerStep(m))
  /\ \A x \in Closer : WF_vars(CloseDrained(x))

FairSpec == Spec /\ Fairness

-----------------------------------------------------------------------------
(***************************************************************************)
(* Safety.                                                                  *)
(***************************************************************************)

(* Nobody sends on a closed channel, blocks the readLoop on a full one, or   *)
(* closes a channel twice: Resolve, CloseAll and Cancel act on a channel     *)
(* after they unlock, and only one of them ever gets to.                     *)
ChannelsSafe ==
  /\ \A c \in Conn : reader[c] = "send" =>
       held[c].id \in open /\ buf[held[c].id] = Nil
  /\ \A x \in Closer : closing[x] \subseteq open
  /\ \A t \in Thread : pc[t] = "close" => tid[t] \in open

(* Whatever happens to its connection, a call that waits is woken: its id is *)
(* registered with a registry that is still open, or its channel is ready, or *)
(* a goroutine is about to send on it or to close it.                         *)
NoLostWakeup ==
  \A t \in Thread : pc[t] = "wait" =>
    \/ tid[t] \in pending[tconn[t]] /\ ~closeErr[tconn[t]]
    \/ buf[tid[t]] # Nil \/ tid[t] \notin open
    \/ \E c \in Conn : reader[c] = "send" /\ held[c].id = tid[t]
    \/ \E x \in Closer : tid[t] \in closing[x]

(* The registries hold only requests of calls in progress: no way out of     *)
(* call, an early return included, leaves an entry behind.                   *)
NoLeak ==
  \A c \in Conn : \A i \in pending[c] :
    \E t \in Thread : /\ tid[t] = i /\ tconn[t] = c
                      /\ pc[t] \in {"send", "wait", "cancel"}

(* CloseErr is set by the time a caller wakes up on a closed channel: no call *)
(* ends with the fallback error "request cancelled".                          *)
CloseErrVisible == \A t \in Thread : outcome[t] # "cancelled"

(* The calls as their goroutines see them: open from Register to the end of    *)
(* the select, then what came of it until call returns.                        *)
Exchange ==
  [t \in Thread |->
     CASE pc[t] \in {"send", "wait"} ->
            [state |-> "open", id |-> tid[t], conn |-> tconn[t], reply |-> Nil]
       [] /\ pc[t] \in {"cancel", "close", "ret"}
          /\ outcome[t] \notin {"noconn", "refused"} ->
            [state |-> outcome[t], id |-> tid[t], conn |-> tconn[t],
             reply |-> IF outcome[t] = "reply" THEN result[t] ELSE Nil]
       [] OTHER -> [state |-> "none", id |-> 0, conn |-> Nil, reply |-> Nil]]

Remote ==
  INSTANCE RemoteCall WITH
    issued <- gen, call <- Exchange, received <- wire, lost <- closeErr

(* The client keeps what RemoteCall promises of a call: the answer it returns  *)
(* is the one to its own request, whatever the server repeats, delays or makes *)
(* up and whoever tears the connection down (call, PendingRegistry).           *)
CallRefinement == Remote!CallsSpec

(* What the client has been told: notifications of kind k it has handled.     *)
Told(c, k) ==
  ver[c][k] - Cardinality({n \in 1 .. Len(inbox[c]) :
                             inbox[c][n] = [type |-> "note", kind |-> k]})

Discovering(k) ==
  \E d \in Discoverer : pc[d] \notin {"idle", "done"} /\ kind[d] = k

(* ToolsStale and ResourcesStale: the flag is up when the listing of a server *)
(* that is connected is older than a change it has notified, unless a         *)
(* discovery is under way.                                                    *)
StaleWhenOutdated ==
  \A k \in Kind, s \in Server :
    LET l == registry[k][s]
    IN /\ l # Nil /\ l.conn = conns[s] /\ Alive(l.conn)
       /\ l.ver < Told(l.conn, k)
       => stale[k] \/ Discovering(k)

(* RemoveServer: once nothing is under way, nothing is listed for a server    *)
(* that is not connected.                                                     *)
DisconnectedNotListed ==
  \A k \in Kind, s \in Server :
    /\ conns[s] = Nil
    /\ \A m \in Manager : mpc[m] \in {"idle", "done"}
    /\ ~Discovering(k)
    => registry[k][s] = Nil

(* Connect starts to read its connection only when the listings of the one it *)
(* replaces are gone: it never removes a listing of its own connection.       *)
ConnectKeepsNew ==
  \A m \in Manager : mpc[m] \in {"drain", "closing", "remove"} /\ mnew[m] # Nil =>
    \A k \in Kind, s \in Server :
      registry[k][s] # Nil => registry[k][s].conn # mnew[m]

-----------------------------------------------------------------------------
(***************************************************************************)
(* Liveness.                                                                *)
(***************************************************************************)

(* A connection that is going or gone: replaced or disconnected, closed, or  *)
(* left by its server.                                                       *)
Down(c) ==
  \/ c \notin {conns[s] : s \in Server}
  \/ tclosed[c] \/ broken[c]

InCall(t) == pc[t] \in {"register", "send", "wait", "cancel", "close"}

Answered(t) ==
  \E n \in 1 .. Len(inbox[tconn[t]]) :
    LET m == inbox[tconn[t]][n] IN m.type = "reply" /\ m.reply.id = tid[t]

(* A call does not block indefinitely: it returns once its context is        *)
(* cancelled, its connection goes down, or its answer has arrived.           *)
CallEnds ==
  \A t \in Thread :
    (InCall(t) /\ (cancelled[t] \/ Down(tconn[t]) \/ Answered(t))) ~> ~InCall(t)

(* DiscoverTools: a server that does not respond does not block the discovery *)
(* of the others.                                                             *)
OthersDiscovered ==
  \A d \in Discoverer, s \in Server : s \in todo[d] ~> s \notin todo[d]

(* The readLoop of a connection that goes down exits: no goroutine is leaked. *)
ReaderEnds ==
  \A c \in Conn : (reader[c] # "none" /\ Down(c)) ~> reader[c] = "exited"

=============================================================================
