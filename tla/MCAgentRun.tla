----------------------------- MODULE MCAgentRun -----------------------------
(* Small instances of AgentRun for TLC: runs r1 to r3 and one request q1.       *)
EXTENDS AgentRun, TLC

CONSTANTS r1, r2, r3, q1
=============================================================================
