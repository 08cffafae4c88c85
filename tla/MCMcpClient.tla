----------------------------- MODULE MCMcpClient -----------------------------
(***************************************************************************)
(* Instances of McpClient for TLC.                                          *)
(***************************************************************************)
EXTENDS McpClient, TLC

CONSTANTS c1, c2, m1, m2

(* Connections and managers are interchangeable; not with liveness. *)
Symmetry == Permutations({c1, c2}) \cup Permutations({m1, m2})

(* Every server but that of connection c1 answers, and reads what it is sent. *)
OneMuteSpec ==
  /\ FairSpec
  /\ \A t \in Thread : WF_vars(CallSend(t))
  /\ \A c \in Conn \ {c1} : WF_vars(\E i \in Id : ServerReply(c, i, TRUE))

=============================================================================
