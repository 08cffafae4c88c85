----------------------------- MODULE RemoteCall -----------------------------
(***************************************************************************)
(* What a call of the MCP client promises to the goroutine that makes it:  *)
(* every request has an id of its own and one end.  It reaches the server  *)
(* of its connection at most once; an answer is the server's to this very  *)
(* request; an error says whether the request may have been lost, and that *)
(* the connection is gone only where it is.                                *)
(***************************************************************************)
EXTENDS Naturals

CONSTANTS
    Thread,   \* goroutines that make calls, one at a time
    Conn,     \* connections
    Reply,    \* responses, each with the id it echoes
    Nil       \* no connection or response

VARIABLES
    issued,    \* requests made so far; the last one's id
    call,      \* call[t]: the call of goroutine t
    received,  \* received[c]: ids of the requests the server of c has received
    lost       \* lost[c]: connection c has been given up

remoteVars == <<issued, call, received, lost>>

NoCall == [state |-> "none", id |-> 0, conn |-> Nil, reply |-> Nil]

CallsInit ==
    /\ issued = 0
    /\ call = [t \in Thread |-> NoCall]
    /\ received = [c \in Conn |-> {}]
    /\ lost = [c \in Conn |-> FALSE]

Open(t) == call[t].state = "open"
Arrived(t) == call[t].id \in received[call[t].conn]

Arrives(t) ==
    received' = [received EXCEPT ![call[t].conn] = @ \cup {call[t].id}]

Ends(t, state, reply) ==
    /\ call' = [call EXCEPT ![t] =
                  [state |-> state, id |-> @.id, conn |-> @.conn, reply |-> reply]]
    /\ UNCHANGED <<issued, lost>>

Request(t, c) ==
    /\ issued' = issued + 1
    /\ call[t] = NoCall /\ ~lost[c]
    /\ call' = [call EXCEPT ![t] =
                  [state |-> "open", id |-> issued + 1, conn |-> c, reply |-> Nil]]
    /\ UNCHANGED <<received, lost>>

(* No request is made on a connection that was given up. *)
Refuse(c) ==
    /\ lost[c]
    /\ issued' = issued + 1
    /\ UNCHANGED <<call, received, lost>>

Receive(t) ==
    /\ ~Arrived(t)
    /\ Arrives(t)
    /\ UNCHANGED <<issued, call, lost>>

Answer(t) ==
    /\ Arrived(t)
    /\ \E r \in Reply : r.id = call[t].id /\ Ends(t, "reply", r)
    /\ UNCHANGED received

(* Sending fails: the request may have arrived all the same. *)
SendingFails(t) ==
    /\ ~Arrived(t)
    /\ Ends(t, "send", Nil)
    /\ Arrives(t) \/ UNCHANGED received

(* The caller does not wait any longer for the answer. *)
GiveUp(t) ==
    /\ Arrived(t)
    /\ \/ Ends(t, "ctx", Nil)
       \/ lost[call[t].conn] /\ Ends(t, "closed", Nil)
    /\ UNCHANGED received

Return(t) ==
    /\ call[t].state \notin {"none", "open"}
    /\ call' = [call EXCEPT ![t] = NoCall]
    /\ UNCHANGED <<issued, received, lost>>

Lose(c) ==
    /\ ~lost[c]
    /\ lost' = [lost EXCEPT ![c] = TRUE]
    /\ UNCHANGED <<issued, call, received>>

(* Most steps of an implementation are of no call: that is tried first.      *)
CallsNext ==
    \/ UNCHANGED remoteVars
    \/ \E t \in Thread :
          \/ \E c \in Conn : Request(t, c)
          \/ Open(t) /\ (Receive(t) \/ SendingFails(t) \/ Answer(t) \/ GiveUp(t))
          \/ Return(t)
    \/ \E c \in Conn : Refuse(c) \/ Lose(c)

CallsSpec == CallsInit /\ [][CallsNext]_remoteVars
=============================================================================
