----------------------------- MODULE ToolTable -----------------------------
(***************************************************************************)
(* What the registry of MCP tools promises: which tools each server        *)
(* offers, one server's change leaving the others alone, and an answer to  *)
(* a look-up by a tool's name whenever some server offers it.              *)
(***************************************************************************)
CONSTANTS
    Server,
    Tool,       \* names of tools
    NoServer    \* the answer of a look-up that finds nothing

VARIABLES
    offered,   \* server -> tools it offers
    answer     \* tool -> server a look-up by name alone finds

tableVars == <<offered, answer>>

TableInit ==
    /\ offered = [s \in Server |-> {}]
    /\ answer = [t \in Tool |-> NoServer]

(* A look-up by name finds a server that offers the tool, and goes on      *)
(* finding the same one as long as it does; listed by s, it finds s.       *)
Answers(s, listed) ==
    \A t \in Tool :
        /\ answer'[t] = NoServer => \A r \in Server : t \notin offered'[r]
        /\ answer'[t] # NoServer => answer'[t] \in Server /\ t \in offered'[answer'[t]]
        /\ t \in listed => answer'[t] = s
        /\ t \notin listed /\ answer[t] # NoServer /\ t \in offered'[answer[t]]
              => answer'[t] = answer[t]

Offer(s, T) ==
    /\ offered' = [offered EXCEPT ![s] = @ \cup T]
    /\ Answers(s, T)

Replace(s, T) ==
    /\ offered' = [offered EXCEPT ![s] = T]
    /\ Answers(s, T)

Empty ==
    /\ offered' = [s \in Server |-> {}]
    /\ answer' = [t \in Tool |-> NoServer]

TableNext ==
    \/ \E s \in Server, T \in SUBSET Tool : Offer(s, T) \/ Replace(s, T)
    \/ Empty

TableSpec == TableInit /\ [][TableNext]_tableVars
=============================================================================
