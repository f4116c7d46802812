-------------------------- MODULE SingleUseApproval --------------------------
(***************************************************************************)
(* What the approval ledger promises, whatever the order of clicks, reads, *)
(* timeouts and process deaths: an approval is good for at most one        *)
(* command, it never comes back once it is used or void, and the commands  *)
(* the agent runs on one host run one at a time.  ActionCoordinator keeps  *)
(* the promise.                                                            *)
(***************************************************************************)
CONSTANTS Proposals,
          HostOf      \* the host a proposal acts on

VARIABLES authority,  \* what a proposal entitles the agent to do
          executing   \* proposals whose command is on its way

vars == <<authority, executing>>

Authority == {"none", "offered", "granted", "spent", "void"}

Idle(h) == \A p \in executing : HostOf[p] # h
-----------------------------------------------------------------------------
Init ==
  /\ authority = [p \in Proposals |-> "none"]
  /\ executing = {}

\* A proposal is shown to the owner, or blocked from the start.
Offer(p) ==
  /\ authority[p] = "none"
  /\ \E a \in {"offered", "void"} : authority' = [authority EXCEPT ![p] = a]
  /\ UNCHANGED executing

Grant(p) ==
  /\ authority[p] = "offered"
  /\ authority' = [authority EXCEPT ![p] = "granted"]
  /\ UNCHANGED executing

\* The only way to use an approval.
Spend(p) ==
  /\ authority[p] = "granted"
  /\ Idle(HostOf[p])
  /\ authority' = [authority EXCEPT ![p] = "spent"]
  /\ executing' = executing \cup {p}

Complete(p) ==
  /\ p \in executing
  /\ executing' = executing \ {p}
  /\ UNCHANGED authority

\* Rejected, expired, invalidated.
Revoke(p) ==
  /\ authority[p] \in {"offered", "granted"}
  /\ authority' = [authority EXCEPT ![p] = "void"]
  /\ UNCHANGED executing

\* The process dies: nothing is executing on its behalf any more.
Halt == executing' = {} /\ UNCHANGED authority

\* A new process honours no approval and no offer of the old one.
Renounce ==
  /\ authority' = [p \in Proposals |->
                     IF authority[p] \in {"offered", "granted"} THEN "void" ELSE authority[p]]
  /\ UNCHANGED executing

Next == \/ \E p \in Proposals : Offer(p) \/ Grant(p) \/ Spend(p) \/ Complete(p) \/ Revoke(p)
        \/ Halt \/ Renounce

Spec == Init /\ [][Next]_vars
=============================================================================
