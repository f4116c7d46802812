--------------------------- MODULE MCAgentService ---------------------------
(***************************************************************************)
(* AgentService for TLC.                                                   *)
(***************************************************************************)
EXTENDS AgentService, TLC

CONSTANTS t1, t2, t3, h1, h2

\* Turns differ only by their names; so do hosts, where all or none may be
\* written.
AnyTurn == Permutations(Turns)
AnyTurnAnyHost == Permutations(Turns) \cup Permutations(Hosts)
=============================================================================
