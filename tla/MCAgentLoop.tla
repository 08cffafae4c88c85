----------------------------- MODULE MCAgentLoop -----------------------------
(* The agent loop for the model checker.                                    *)
EXTENDS AgentLoop

AllModes == ApprovalModes
AllMCPModes == ApprovalModes \cup {""}
BothApprovers == {"cli", "tui"}
=============================================================================
