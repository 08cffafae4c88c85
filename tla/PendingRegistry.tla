--------------------------- MODULE PendingRegistry ---------------------------
(***************************************************************************)
(* The registry of in-flight JSON-RPC requests of one server connection    *)
(* (internal/mcp/jsonrpc.go, PendingRegistry): a map from request ids to   *)
(* channels of capacity one, guarded by a mutex, and the error CloseAll    *)
(* leaves behind.                                                          *)
(*                                                                         *)
(* Request ids come from one counter shared by all connections, so a       *)
(* channel is named by the id it was made for.  The operators below are    *)
(* the critical sections: each is one step of the goroutine that calls it. *)
(* What Resolve, CloseAll and Cancel do after they unlock (send on the     *)
(* channel, close it) is a step of its own.                                *)
(***************************************************************************)
EXTENDS Integers, FiniteSets

CONSTANTS
  Conn,     \* connections: one per serverConn ever made by Connect
  Kind,     \* kinds of listings a server keeps: tools, resources
  MaxId,    \* bound: request ids issued by the shared counter
  MaxVersion, \* bound: changes a server makes to each of its listings
  Nil       \* no connection, server, listing or response

ASSUME RegistryAssumption ==
  /\ MaxId \in Nat
  /\ MaxVersion \in Nat
  /\ Nil \notin [id : 1 .. MaxId, ok : BOOLEAN, ver : [Kind -> 0 .. MaxVersion]]

VARIABLES
  pending,  \* pending[c]: the ids registered with connection c's registry
  closeErr, \* closeErr[c]: CloseAll has run on connection c's registry
  open,     \* the ids whose channel was made and is not closed
  buf       \* buf[i]: what the channel of id i holds, at most one response

registryVars == <<pending, closeErr, open, buf>>

Id == 1 .. MaxId

(* A response: the id it echoes, a result or an error, and the listings as  *)
(* the server had them when it answered.                                    *)
Reply == [id : Id, ok : BOOLEAN, ver : [Kind -> 0 .. MaxVersion]]

RegistryTypeOK ==
  /\ pending \in [Conn -> SUBSET Id]
  /\ closeErr \in [Conn -> BOOLEAN]
  /\ open \subseteq Id
  /\ buf \in [Id -> Reply \cup {Nil}]

RegistryInit ==
  /\ pending = [c \in Conn |-> {}]
  /\ closeErr = [c \in Conn |-> FALSE]
  /\ open = {}
  /\ buf = [i \in Id |-> Nil]

-----------------------------------------------------------------------------

(* Plausible bugs, each the mutation of an operator below. *)

RegisterIgnoresClose(c, i) ==
  /\ pending' = [pending EXCEPT ![c] = @ \cup {i}]
  /\ open' = open \cup {i}
  /\ UNCHANGED <<closeErr, buf>>

TakeKeepsEntry(c, i) ==
  /\ i \in pending[c]
  /\ UNCHANGED registryVars

DrainForgetsErr(c) ==
  /\ pending' = [pending EXCEPT ![c] = {}]
  /\ UNCHANGED <<closeErr, open, buf>>

DeliverToNewest(r) ==
  /\ buf' = [buf EXCEPT ![CHOOSE i \in open : \A j \in open : j <= i] = r]
  /\ UNCHANGED <<pending, closeErr, open>>

-----------------------------------------------------------------------------

(* Register fails once the registry is closed, or for an id that is already *)
(* pending.                                                                 *)
RegisterFails(c, i) == closeErr[c] \/ i \in pending[c]

Register(c, i) ==
  /\ ~RegisterFails(c, i)
  /\ pending' = [pending EXCEPT ![c] = @ \cup {i}]
  /\ open' = open \cup {i}
  /\ UNCHANGED <<closeErr, buf>>

(* The critical section of Resolve and of Cancel: whoever removes the entry *)
(* is the one to send on, or to close, its channel.                         *)
Take(c, i) ==
  /\ i \in pending[c]
  /\ pending' = [pending EXCEPT ![c] = @ \ {i}]
  /\ UNCHANGED <<closeErr, open, buf>>

(* The critical section of CloseAll when the registry is not closed yet: the *)
(* error is recorded and the map swapped for an empty one.                   *)
Drain(c) ==
  /\ closeErr' = [closeErr EXCEPT ![c] = TRUE]
  /\ pending' = [pending EXCEPT ![c] = {}]
  /\ UNCHANGED <<open, buf>>

(* ch <- resp of Resolve. *)
Deliver(r) ==
  /\ buf' = [buf EXCEPT ![r.id] = r]
  /\ UNCHANGED <<pending, closeErr, open>>

(* close(ch) of CloseAll and of Cancel. *)
CloseChan(i) ==
  /\ open' = open \ {i}
  /\ UNCHANGED <<pending, closeErr, buf>>

=============================================================================
