---------------------------- MODULE TypedAction -----------------------------
(***************************************************************************)
(* One typed action from its request to its result, against a host that    *)
(* changes meanwhile and answers not every probe: propose and _consume of  *)
(* actions/coordinator.py with the preflight, the policy, the verifier and *)
(* the reboot monitor at work.  ActionCoordinator takes these as data and  *)
(* models what this module leaves out: clicks, threads, ledger, restarts.  *)
(*                                                                         *)
(* A preflight is one step here, but its probes are not at one moment: a   *)
(* host may change between any two of them, and answers may be lost.       *)
(***************************************************************************)
EXTENDS ActionPolicy, SoftwareGap

CONSTANTS Scenes,    \* what is asked of which host: see SceneType
          Losses,    \* sets of probes whose answers are lost together
          Cuts,      \* moments of a preflight at which the host may change
          MaxRecords \* READs that an investigation makes

Changes == {"vm", "work", "odd", "procs", "unbind", "stuck", "ssh", "service", "disk",
            "locked", "package", "program", "fault"}

\* A scene: an action, its setting, a host, what may happen to the host,
\* whether an investigation asks for it (gap) and in whose words (consent).
ASSUME ScenesAssumption ==
  \A s \in Scenes : /\ s.action \in ActionTypes /\ s.setting \in Setting
                    /\ DOMAIN s.host = DOMAIN Blank /\ s.changes \subseteq Changes
                    /\ s.gap \in BOOLEAN /\ s.consent \in BOOLEAN
ASSUME BoundsAssumption ==
  Losses \subseteq SUBSET Probes /\ Cuts \subseteq Nat /\ MaxRecords \in Nat

VARIABLES scene,    \* constant: the scene that is played
          world,    \* the host
          power,    \* "on", "going" (a reboot was taken), "down"
          pc,       \* where propose, _consume or execute_approved stands
          evidence, \* the records of the investigation
          verdict,  \* what it says of the capability
          read,     \* history: the hosts that it read
          shown,    \* the snapshot of the proposal, then that of the recheck
          watched,  \* history: the recheck, the hosts it looked at and Witnesses it heard
          reply,    \* of the command
          down,     \* execute_approved: the host was seen unreachable
          proof,    \* history: the verification, the hosts it looked at
          outcome
vars == <<scene, world, power, pc, evidence, verdict, read, shown, watched, reply, down,
          proof, outcome>>

investigation == <<evidence, verdict, read>>

Nothing == [none |-> TRUE]
NoEvidence == [q \in Queries |-> <<>>]
NoProof == [worlds |-> {}, complete |-> FALSE]
Unwatched == [worlds |-> {}, heard |-> {}]
action  == scene.action
setting == scene.setting
-----------------------------------------------------------------------------
\* What can happen to a host at any moment.
Flip(x, a, b) == IF x = a THEN b ELSE a

Turn(w, change) ==
  CASE change = "vm"      -> [w EXCEPT !.vm = ~@]
    [] change = "work"    -> [w EXCEPT !.rows = [c \in DOMAIN @ |-> Flip(@[c], "up", "exited")]]
    [] change = "odd"     -> [w EXCEPT !.rows = [c \in DOMAIN @ |-> Flip(@[c], "odd", "exited")]]
    [] change = "procs"   -> [w EXCEPT !.procs = ~@]
    [] change = "unbind"  -> [w EXCEPT !.driver[1] = Flip(@, "none", "nvidia")]
    [] change = "stuck"   -> [w EXCEPT !.stuck = ~@]
    [] change = "ssh"     -> [w EXCEPT !.ssh = ~@]
    [] change = "service" -> [w EXCEPT !.units = [u \in Services |-> Flip(@[u], "active", "failed")]]
    [] change = "disk"    -> [w EXCEPT !.disk = Flip(@, "full", "healthy")]
    [] change = "locked"  -> [w EXCEPT !.locked = ~@]
    [] change = "package" -> [w EXCEPT !.package = Flip(@, "installed", "absent")]
    [] change = "program" -> [w EXCEPT !.program = Flip(@, "local", "absent")]
    [] change = "fault"   -> [w EXCEPT !.fault = ~@]

Later(w) == {w} \cup {Turn(w, change) : change \in scene.changes}

\* The moments of a host while a preflight looks at it, and what it sees.
View(before, after, cut) == [p \in Probes |-> IF Place[p] < cut THEN before ELSE after]

Remains(view, lost) ==
  {rest \in [lost -> UNION {Leftovers(p, view[p]) : p \in lost}] :
     \A p \in lost : rest[p] \in Leftovers(p, view[p])}

\* ProductionPreflightProvider.collect while the host goes from world to
\* after: one way for it to change and for answers to be lost, the replies and
\* the snapshot it leads to.  (Bound: a host that changes under a preflight
\* loses no answer of it.)
Looks(after) ==
  UNION {{[cut |-> cut, rest |-> rest] : rest \in Remains(View(world, after, cut), lost)} :
           cut \in IF after # world THEN Cuts ELSE {0},
           lost \in IF after # world THEN {{}} ELSE Losses}

Replies(after, look) == Inspect(setting.caps, View(world, after, look.cut), look.rest)
Collect(after, look) == Snapshot(action, setting, Replies(after, look))

\* Probes that policies.py goes by for a change of VM mode, and that
\* _required_tools does not, or not always, ask an answer of.
Witnesses == {"get_docker_status", "get_gpu_processes"}
Heard(res) == {p \in Witnesses : Ok(res, p)}

\* What a command may leave behind, whatever its answer.
OnVfio(w, G)   == [w EXCEPT !.driver = [g \in DOMAIN @ |-> IF g \in G THEN "vfio-pci" ELSE @[g]],
                            !.procs = FALSE]
OnNvidia(w, G) == [w EXCEPT !.driver = [g \in DOMAIN @ |-> IF g \in G THEN "nvidia" ELSE @[g]]]
Effects(w) ==
  {w} \cup
  CASE action \in ServiceActions ->
         {[w EXCEPT !.units[RestartOf[action]] = state] : state \in {"active", "failed"}}
    [] action = "RESTART_VAST_CONTAINER" ->
         {[w EXCEPT !.rows = [c \in DOMAIN @ |-> IF c = setting.container THEN state ELSE @[c]]] :
            state \in {"up", "exited"}}
    [] action = "GPU_RESET"       -> {[w EXCEPT !.fault = FALSE], [w EXCEPT !.driver[1] = "none"]}
    [] action = "VM_MODE_ENABLE"  -> {OnVfio(w, G) : G \in SUBSET DOMAIN w.driver}
    [] action = "VM_MODE_DISABLE" -> {OnNvidia(w, G) : G \in SUBSET DOMAIN w.driver}
    [] action = "PACKAGE_INSTALL" -> {[w EXCEPT !.package = "installed", !.program = "path"],
                                      [w EXCEPT !.package = "residual"]}
    [] OTHER -> {}

\* A host after its boot: no VM runs, and the fault is gone or not.
Booted(w) == {[w EXCEPT !.ssh = TRUE, !.vm = FALSE, !.stuck = FALSE, !.fault = f] :
                f \in {FALSE, w.fault}}
-----------------------------------------------------------------------------
Init ==
  /\ scene \in Scenes
  /\ world = scene.host
  /\ power = "on"
  /\ pc = IF scene.gap THEN "reading" ELSE "asked"
  /\ evidence = NoEvidence /\ verdict = "unknown" /\ read = {}
  /\ shown = Nothing /\ watched = Unwatched
  /\ reply = "none" /\ down = FALSE
  /\ proof = NoProof /\ outcome = "none"

Records == Len(evidence["query_package"]) + Len(evidence["query_executable"])
           + Len(evidence["query_service"])

\* A READ of the investigation.
ReadHost ==
  /\ pc = "reading"
  /\ Records < MaxRecords
  /\ \E q \in Queries, lost \in SUBSET {"dpkg_query", "which", "candidates", "show"} :
       /\ evidence' = [evidence EXCEPT ![q] = Append(@, Query(q, world, lost))]
  /\ read' = read \cup {world}
  /\ UNCHANGED <<scene, world, power, pc, verdict, shown, watched, reply, down, proof, outcome>>

\* The end of the investigation: ground_capability_gap, request_for_gap.
Ground ==
  /\ pc = "reading"
  /\ verdict' = Gap(evidence, setting.needs)
  /\ \E sure \in BOOLEAN :
       pc' = IF RequestForGap(evidence, scene.consent, sure) THEN "asked" ELSE "done"
  /\ outcome' = IF pc' = "done" THEN "NO_REQUEST" ELSE "none"
  /\ evidence' = NoEvidence
  /\ UNCHANGED <<scene, world, power, read, shown, watched, reply, down, proof>>

\* ActionCoordinator.propose
Propose ==
  /\ pc = "asked" /\ pc' \in {"offered", "done"}
  /\ world' \in Later(world)
  /\ \E look \in Looks(world') : \E f \in {Collect(world', look)} :
       IF Blocks(action, setting, f, FALSE)
       THEN pc' = "done" /\ outcome' = "BLOCKED" /\ shown' = Nothing
       ELSE pc' = "offered" /\ shown' = f /\ UNCHANGED outcome
  /\ UNCHANGED <<scene, power, investigation, watched, reply, down, proof>>

Approve ==
  /\ pc = "offered" /\ pc' = "approved"
  /\ UNCHANGED <<scene, world, power, investigation, shown, watched, reply, down, proof, outcome>>

\* The preflight of _consume, under the WRITE lock.
Recheck ==
  /\ pc = "approved" /\ pc' \in {"command", "done"}
  /\ world' \in Later(world)
  /\ \E look \in Looks(world') : \E fresh \in {Collect(world', look)} :
       IF Blocks(action, setting, fresh, TRUE) \/ fresh # shown
       THEN pc' = "done" /\ outcome' = "INVALIDATED" /\ UNCHANGED watched
       ELSE /\ pc' = "command" /\ UNCHANGED outcome
            /\ watched' = [worlds |-> {world, world'}, heard |-> Heard(Replies(world', look))]
  /\ UNCHANGED <<scene, power, investigation, shown, reply, down, proof>>

\* TypedActionExecutor.execute: one command; a timeout tells nothing of it.
Execute ==
  /\ pc = "command" /\ action # "HOST_REBOOT"
  /\ world' \in IF world.ssh THEN Effects(world) ELSE {world}
  /\ reply' \in IF world.ssh THEN {"ok", "failed", "timeout"} ELSE {"failed", "timeout"}
  /\ pc' = "verify"
  /\ UNCHANGED <<scene, power, investigation, shown, watched, down, proof, outcome>>

\* ProductionActionVerifier.verify, and what _consume makes of it.
Verify ==
  /\ pc = "verify" /\ pc' = "done"
  /\ world' \in Later(world)
  /\ \E look \in Looks(world') : \E f \in {Collect(world', look)} :
       /\ proof' = [worlds |-> {world, world'}, complete |-> f.complete]
       /\ outcome' = CASE reply = "ok" /\ Verifies(action, setting, f) -> "SUCCEEDED"
                       [] reply = "timeout" -> "UNKNOWN_AFTER_TIMEOUT"
                       [] reply = "ok"      -> "FAILED_VERIFY"
                       [] OTHER             -> "FAILED"
  /\ UNCHANGED <<scene, power, investigation, shown, watched, reply, down>>

\* RebootCoordinator.execute_approved: the dispatch, once.  "refused" is an
\* answer that _definitely_not_dispatched takes for one; such words may also
\* come from a host that took the reboot.
Dispatch ==
  /\ pc = "command" /\ action = "HOST_REBOOT"
  /\ power' \in IF world.ssh THEN {"on", "going"} ELSE {"on"}
  /\ reply' \in {"lost", "refused"} \cup (IF power' = "going" THEN {"ok"} ELSE {})
  /\ IF reply' = "refused"
     THEN pc' = "done" /\ outcome' = "DISPATCH_FAILED"
     ELSE pc' = "monitor" /\ UNCHANGED outcome
  /\ UNCHANGED <<scene, world, investigation, shown, watched, down, proof>>

\* One round of the loop; the answer of a ping may be lost.
Poll ==
  /\ pc = "monitor"
  /\ \E reachable \in IF world.ssh THEN BOOLEAN ELSE {FALSE} :
       /\ down' = (down \/ ~reachable)
       /\ pc' = IF reachable /\ down THEN "postcheck" ELSE "monitor"
  /\ UNCHANGED <<scene, world, power, investigation, shown, watched, reply, proof, outcome>>

\* seeded fault: the monitor waits for the host as long as it takes
DeadlineOnlyWhenUp ==
  /\ pc = "monitor" /\ ~down
  /\ pc' = "done" /\ outcome' = "REBOOT_NOT_OBSERVED"
  /\ UNCHANGED <<scene, world, power, investigation, shown, watched, reply, down, proof>>

Deadline ==
  /\ pc = "monitor"
  /\ pc' = "done"
  /\ outcome' = IF down THEN "REBOOT_RECOVERY_FAILED" ELSE "REBOOT_NOT_OBSERVED"
  /\ UNCHANGED <<scene, world, power, investigation, shown, watched, reply, down, proof>>

Postcheck ==
  /\ pc = "postcheck" /\ pc' = "done"
  /\ world' \in Later(world)
  /\ \E look \in Looks(world') : \E f \in {Collect(world', look)} :
       /\ proof' = [worlds |-> {world, world'}, complete |-> f.complete]
       /\ outcome' = IF Recovered(shown, f) THEN "SUCCEEDED" ELSE "FAULT_REMAINS"
  /\ UNCHANGED <<scene, power, investigation, shown, watched, reply, down>>

\* The host by itself: it changes, goes down for a reboot, and comes up.
Drift ==
  /\ pc # "done" /\ power # "down"
  /\ world' \in Later(world)
  /\ UNCHANGED <<scene, power, pc, investigation, shown, watched, reply, down, proof, outcome>>

GoDown ==
  /\ power = "going" /\ power' = "down"
  /\ world' = [world EXCEPT !.ssh = FALSE]
  /\ UNCHANGED <<scene, pc, investigation, shown, watched, reply, down, proof, outcome>>

ComeUp ==
  /\ power = "down" /\ power' = "on"
  /\ world' \in Booted(world)
  /\ UNCHANGED <<scene, pc, investigation, shown, watched, reply, down, proof, outcome>>

Agent == \/ ReadHost \/ Ground \/ Propose \/ Approve \/ Recheck \/ Execute \/ Verify
         \/ Dispatch \/ Poll \/ Deadline \/ Postcheck
Host  == Drift \/ GoDown \/ ComeUp
Next  == Agent \/ Host

\* The thread that serves an approval runs on: every command and probe has a
\* timeout, and the monitor a deadline.  Neither the owner nor the host has to.
Fairness == WF_vars(Recheck) /\ WF_vars(Execute) /\ WF_vars(Verify) /\ WF_vars(Dispatch)
            /\ WF_vars(Deadline) /\ WF_vars(Postcheck)
Spec == Init /\ [][Next]_vars /\ Fairness
-----------------------------------------------------------------------------
Points   == {"reading", "asked", "offered", "approved", "command", "verify", "monitor",
             "postcheck", "done"}
Outcomes == {"none", "NO_REQUEST", "BLOCKED", "INVALIDATED", "SUCCEEDED", "FAILED", "FAILED_VERIFY",
             "UNKNOWN_AFTER_TIMEOUT", "DISPATCH_FAILED", "REBOOT_NOT_OBSERVED",
             "REBOOT_RECOVERY_FAILED", "FAULT_REMAINS"}

\* Types; and there is an outcome when, and only when, the thread has returned,
\* and the reply of a command only after a recheck.
TypeOK ==
  /\ scene \in Scenes
  /\ power \in {"on", "going", "down"} /\ pc \in Points /\ outcome \in Outcomes
  /\ evidence \in [Queries -> Seq(Facts)]
  /\ verdict \in {"available", "degraded", "missing", "unknown"}
  /\ reply \in {"none", "ok", "failed", "timeout", "lost", "refused"} /\ down \in BOOLEAN
  /\ (pc = "done") <=> (outcome # "none")
  /\ reply # "none" => watched.worlds # {}

\* What policies.py blocks an action on, of what is on a host: a VM and a
\* container where the host declares the means to see them.  A change of VM mode
\* asks for no answer of docker, and VM_MODE_DISABLE for none of nvidia-smi once
\* lspci shows every GPU on vfio-pci (preflight.py:97-103, 250-254): it is
\* blocked by what such a probe tells, if it answers.
Dangers(a, caps, heard) ==
  (IF \/ a \in VmActions \cup {"RESTART_LIBVIRT_SERVICE"}
      \/ /\ a \in {"GPU_RESET", "RESTART_VAST_SERVICE", "HOST_REBOOT", "PACKAGE_INSTALL"}
         /\ "libvirt" \in caps
   THEN {"vm"} ELSE {})
  \cup (IF \/ a \in VmActions /\ "get_docker_status" \in heard
           \/ a \in {"RESTART_VAST_SERVICE", "HOST_REBOOT", "PACKAGE_INSTALL"} /\ "docker" \in caps
        THEN {"work"} ELSE {})
  \cup (IF \/ a \in {"GPU_RESET", "VM_MODE_ENABLE"}
           \/ a = "VM_MODE_DISABLE" /\ "get_gpu_processes" \in heard
        THEN {"procs"} ELSE {})
  \cup (IF a = "HOST_REBOOT" THEN {"disk"} ELSE {})
  \cup (IF a = "PACKAGE_INSTALL" THEN {"locked"} ELSE {})

On(danger, w) ==
  CASE danger = "vm"     -> w.vm
    [] danger = "work"   -> \E c \in DOMAIN w.rows : w.rows[c] # "exited"
    [] danger = "procs"  -> w.procs
    [] danger = "disk"   -> w.disk # "healthy"
    [] danger = "locked" -> w.locked

\* A host that had, all through the recheck, what policies.py blocks the action
\* on (a running VM, a container not known to be stopped, a process on its GPUs,
\* a full disk, a locked package manager) gets no command, whichever answers
\* were lost; but for a change of VM mode whose docker answer was lost, which
\* is no reason to wait for the code (see WorkloadBlocks).
QuietHost ==
  watched.worlds # {} =>
    \A danger \in Dangers(action, setting.caps, watched.heard) :
      \E w \in watched.worlds : ~On(danger, w)

\* README.md:156: a GPU reset and a host reboot are blocked by an active workload,
\* and a change of VM mode by policies.py:45.  A host that declares docker and had
\* a container not known to be stopped all through the recheck gets none of them.
WorkloadBlocks ==
  /\ watched.worlds # {} /\ "docker" \in setting.caps
  /\ action \in VmActions \cup {"GPU_RESET", "HOST_REBOOT"}
  => \E w \in watched.worlds : ~On("work", w)

\* What an action is for, said of a host.
Claims(a, s) ==
  CASE a \in ServiceActions           -> {"active"}
    [] a = "RESTART_VAST_CONTAINER"   -> {"container up"}
    [] a = "PACKAGE_INSTALL"          -> {"installed"}
    [] a = "GPU_RESET"                -> {"gpu back", "no process"}
    [] a = "VM_MODE_ENABLE"           -> {"all vfio"}
    [] a = "VM_MODE_DISABLE"          -> {"all nvidia", "no vm"}
    [] a = "HOST_REBOOT"              -> {"not stuck"} \cup
         (IF "nvidia" \in s.caps THEN {"no fault", "none unbound"} ELSE {})

Holds(claim, w) ==
  CASE claim = "active"       -> w.units[RestartOf[action]] = "active"
    [] claim = "container up" -> setting.container \in DOMAIN w.rows /\ w.rows[setting.container] = "up"
    [] claim = "installed"    -> w.package = "installed"
    [] claim = "gpu back"     -> Indexed(Bound(w, {"nvidia"}), setting.index) # {}
    [] claim = "no process"   -> ~w.procs
    [] claim = "all vfio"     -> Bound(w, {"vfio-pci"}) = DOMAIN w.driver
    [] claim = "all nvidia"   -> Bound(w, {"nvidia"}) = DOMAIN w.driver
    [] claim = "no vm"        -> ~w.vm
    [] claim = "not stuck"    -> ~w.stuck
    [] claim = "no fault"     -> ~w.fault
    [] claim = "none unbound" -> Bound(w, {"none"}) = {}

Achieved == \A claim \in Claims(action, setting) : \E w \in proof.worlds : Holds(claim, w)

\* A success was there to be seen while the verification looked at the host.
\* (For a GPU reset and a change of VM mode: if the evidence was complete.)
SuccessWasSeen ==
  outcome = "SUCCEEDED" /\ (proof.complete \/ action \notin VmActions \cup {"GPU_RESET"}) => Achieved

\* verifier.py:19: "READ-only post-action verification; inability to observe
\* is never success."
NothingUnseenSucceeds == outcome = "SUCCEEDED" => Achieved

\* What an investigation says of a capability was so on a host that it read,
\* and a package is requested only if the owner asked for it and it was missing.
GapTruthful ==
  /\ verdict = "missing" =>
       /\ \E w \in read : w.package # "installed"
       /\ \E w \in read : w.program # "path"
  /\ verdict \in {"available", "degraded"} =>
       /\ \E w \in read : w.package = "installed"
       /\ \E w \in read : w.program # "absent"
  /\ verdict = "available" /\ setting.needs = "ACTIVE" =>
       \E w \in read : w.collector \notin {"absent", "inactive"}
  /\ scene.gap /\ pc \notin {"reading", "done"} => scene.consent /\ verdict = "missing"

\* Every approved action comes to an outcome.
Concludes == (pc = "approved") ~> (pc = "done")
=============================================================================
