------------------------- MODULE MCActionCoordinator -------------------------
(***************************************************************************)
(* ActionCoordinator for TLC: two proposals, each of a kind of its own,    *)
(* that meet on one host.                                                  *)
(***************************************************************************)
EXTENDS ActionCoordinator, TLC

CONSTANTS p1, p2, h1, w1, w2, c1, c2

OneHost == [p \in Proposals |-> h1]

TypedAndReboot     == [p \in Proposals |-> IF p = p1 THEN "typed" ELSE "reboot"]
OperationAndReboot == [p \in Proposals |-> IF p = p1 THEN "operation" ELSE "reboot"]

\* w2 rules the first proposal out; for the second it is only a change
BlockedIn == [p \in Proposals |-> IF p = p1 THEN {w2} \cap Worlds ELSE {}]

Threads == Permutations(Calls)

OnOrOff  == {[enabled |-> b, reboot |-> TRUE] : b \in BOOLEAN}
NoReboot == {[enabled |-> TRUE, reboot |-> FALSE]}
=============================================================================
