------------------------- MODULE TypedActionProofs --------------------------
(***************************************************************************)
(* What the recheck rules out, what a success and a gap are worth, for     *)
(* every host, setting, loss of answers and change under the preflight.    *)
(***************************************************************************)
EXTENDS TypedAction, TLAPS

\* An answer with status 0 shows the host of the moment the probe ran.
LEMMA Answered ==
  ASSUME NEW caps, NEW view, NEW lost, NEW p \in Probes,
         Ok(Inspect(caps, view, lost), p)
  PROVE  Saw(Inspect(caps, view, lost), p) = view[p] /\ Succeeds(p, view[p])
<1> DEFINE res == Inspect(caps, view, lost)
<1>1. res[p].end = "ok"
  BY DEF Ok
<1>2. res[p] = NotRun \/ res[p] = Reply("lost", lost[p]) \/ res[p] = Run(p, view[p])
  BY DEF Inspect
<1>3. res[p] = Run(p, view[p])
  BY <1>1, <1>2 DEF NotRun, Reply
<1>4. Succeeds(p, view[p]) /\ res[p] = Reply("ok", view[p])
  BY <1>1, <1>3 DEF Run, Reply
<1> QED
  BY <1>4 DEF Saw, Reply

\* Nothing that blocks an action can be overlooked: each danger was absent
\* when the probe that shows it ran.
LEMMA Unblocked ==
  ASSUME NEW a \in ActionTypes, NEW s, NEW view, NEW lost,
         ~Blocks(a, s, Snapshot(a, s, Inspect(s.caps, view, lost)), TRUE),
         NEW danger \in Dangers(a, s.caps, Heard(Inspect(s.caps, view, lost)))
  PROVE  \E p \in Probes : ~On(danger, view[p])
<1> DEFINE res == Inspect(s.caps, view, lost)
<1> DEFINE f == Snapshot(a, s, res)
<1>1. f.complete /\ ~BlockedByAction(a, s, f)
  BY DEF Blocks
<1>2. \A t \in RequiredTools(a, s.caps) \ Tolerated(a, res, s.expected) : Ok(res, t)
  BY <1>1 DEF Snapshot, Evidence
<1>3. /\ f.vm = (Ok(res, "get_vm_status") /\ Saw(res, "get_vm_status").vm)
      /\ f.workload = (\E c \in DOMAIN Statuses(res) : Statuses(res)[c] # "exited")
      /\ f.procs = Saw(res, "get_gpu_processes").procs
      /\ f.disk = Saw(res, "get_system_health").disk
      /\ a = "PACKAGE_INSTALL" => f.busy = Busy(res)
  BY DEF Snapshot
<1>4. danger \in Dangers(a, s.caps, Heard(res)) /\ danger \in {"vm", "work", "procs", "disk", "locked"}
  BY DEF Dangers
<1>5. Tolerated(a, res, s.expected) \subseteq {"get_gpu_processes"}
      /\ (a # "VM_MODE_DISABLE" => Tolerated(a, res, s.expected) = {})
  BY DEF Tolerated
<1> HIDE DEF f, res
<1>6. CASE danger = "vm"
  <2>1. "get_vm_status" \in RequiredTools(a, s.caps)
    BY <1>4, <1>6 DEF Dangers, RequiredTools, WhenDeclared, VmActions, ActionTypes
  <2>2. f.vm = FALSE
    BY <1>1, <1>3, <1>4, <1>6 DEF BlockedByAction, Dangers, VmActions
  <2>3. Ok(res, "get_vm_status")
    BY <1>2, <1>5, <2>1
  <2>4. ~(Ok(res, "get_vm_status") /\ Saw(res, "get_vm_status").vm)
    BY <1>3, <2>2
  <2>5. ~Saw(res, "get_vm_status").vm
    BY <2>3, <2>4
  <2> QED
    BY <1>6, <2>3, <2>5, Answered DEF res, On, Probes, Tools
<1>7. CASE danger = "work"
  <2>1. a \in VmActions => Ok(res, "get_docker_status")
    BY <1>4, <1>7 DEF Dangers, Heard, VmActions
  <2>2. a \notin VmActions => Ok(res, "get_docker_status")
    <3> SUFFICES ASSUME a \notin VmActions PROVE Ok(res, "get_docker_status")
      OBVIOUS
    <3>1. a \in {"RESTART_VAST_SERVICE", "HOST_REBOOT", "PACKAGE_INSTALL"} /\ "docker" \in s.caps
      BY <1>4, <1>7 DEF Dangers
    <3>2. "get_docker_status" \in WhenDeclared(s.caps)
      BY <3>1 DEF WhenDeclared
    <3>3. "get_docker_status" \in RequiredTools(a, s.caps)
      BY <3>1, <3>2 DEF RequiredTools, VmActions
    <3> QED
      BY <1>2, <1>5, <3>3
  <2>3. Ok(res, "get_docker_status") /\ ~f.workload
    <3>1. a \in VmActions \cup {"RESTART_VAST_SERVICE", "HOST_REBOOT", "PACKAGE_INSTALL"}
      BY <1>4, <1>7 DEF Dangers
    <3>2. ~f.workload
      BY <1>1, <1>3, <3>1 DEF BlockedByAction, VmActions
    <3> QED
      BY <2>1, <2>2, <3>2
  <2>4. /\ Saw(res, "get_docker_status") = view["get_docker_status"]
        /\ view["get_docker_status"].units["docker"] = "active"
    BY <2>3, Answered DEF res, Succeeds, Probes, Tools
  <2>5. Statuses(res) = view["get_docker_status"].rows
    BY <2>3, <2>4 DEF Statuses, Rows
  <2> QED
    BY <1>3, <1>7, <2>3, <2>5 DEF On, Probes, Tools
<1>8. CASE danger = "procs"
  <2>1. a = "VM_MODE_DISABLE" => Ok(res, "get_gpu_processes")
    BY <1>4, <1>8 DEF Dangers, Heard, VmActions
  <2>2. a # "VM_MODE_DISABLE" => Ok(res, "get_gpu_processes")
    <3> SUFFICES ASSUME a # "VM_MODE_DISABLE" PROVE Ok(res, "get_gpu_processes")
      OBVIOUS
    <3>1. a \in {"GPU_RESET", "VM_MODE_ENABLE"}
      BY <1>4, <1>8 DEF Dangers
    <3>2. "get_gpu_processes" \in RequiredTools(a, s.caps)
      BY <3>1 DEF RequiredTools, VmActions, NvidiaTools
    <3> QED
      BY <1>2, <1>5, <3>2
  <2>3. Ok(res, "get_gpu_processes") /\ ~Saw(res, "get_gpu_processes").procs
    <3>1. a \in VmActions \cup {"GPU_RESET"}
      BY <1>4, <1>8 DEF Dangers, VmActions
    <3>2. ~f.procs
      BY <1>1, <1>3, <3>1 DEF BlockedByAction, VmActions
    <3> QED
      BY <1>3, <2>1, <2>2, <3>2
  <2> QED
    BY <1>8, <2>3, Answered DEF res, On, Probes, Tools, NvidiaTools
<1>9. CASE danger = "disk"
  <2>1. a = "HOST_REBOOT" /\ "get_system_health" \in RequiredTools(a, s.caps)
    BY <1>4, <1>9 DEF Dangers, RequiredTools, VmActions
  <2>2. Saw(res, "get_system_health").disk = "healthy"
    BY <1>1, <1>3, <2>1 DEF BlockedByAction, VmActions
  <2> QED
    BY <1>2, <1>5, <1>9, <2>1, <2>2, Answered DEF res, On, Probes, Tools
<1>10. CASE danger = "locked"
  <2>1. a = "PACKAGE_INSTALL"
    BY <1>4, <1>10 DEF Dangers
  <2>2. Busy(res) = "idle"
    BY <1>1, <1>3, <2>1 DEF BlockedByAction, VmActions
  <2>3. res["fuser"].end = "no"
    BY <2>2 DEF Busy
  <2>4. res["fuser"] \in {NotRun, Reply("lost", lost["fuser"]), Run("fuser", view["fuser"])}
    BY DEF res, Inspect, Probes, Extras
  <2>5. ~view["fuser"].locked
    BY <2>3, <2>4 DEF NotRun, Reply, Run, Succeeds
  <2> QED
    BY <1>10, <2>5 DEF On, Probes, Extras
<1> QED
  BY <1>4, <1>6, <1>7, <1>8, <1>9, <1>10

Quiet == scene \in Scenes /\ QuietHost

\* The only step that lets a command go looks at the host again.
LEMMA RecheckKeeps == ASSUME Quiet, Recheck PROVE QuietHost'
<1>1. CASE watched' = watched
  BY <1>1 DEF Quiet, QuietHost, Recheck, action, setting, Dangers
<1>2. CASE watched' # watched
  <2>1. scene' = scene /\ action \in ActionTypes
    BY ScenesAssumption DEF Recheck, Quiet, action
  <2>2. PICK look \in Looks(world') :
          /\ ~Blocks(action, setting, Collect(world', look), TRUE)
          /\ watched' = [worlds |-> {world, world'}, heard |-> Heard(Replies(world', look))]
    BY <1>2 DEF Recheck
  <2> DEFINE view == View(world, world', look.cut)
  <2>3. \A p \in Probes : view[p] \in {world, world'}
    BY DEF View
  <2>4. ~Blocks(action, setting,
                Snapshot(action, setting, Inspect(setting.caps, view, look.rest)), TRUE)
    BY <2>2 DEF Collect, Replies
  <2> DEFINE heard == Heard(Inspect(setting.caps, view, look.rest))
  <2>5. watched' = [worlds |-> {world, world'}, heard |-> heard]
    BY <2>2 DEF Replies
  <2> HIDE DEF view
  <2>6. \A danger \in Dangers(action, setting.caps, heard) : \E p \in Probes : ~On(danger, view[p])
    BY <2>1, <2>4, Unblocked
  <2> HIDE DEF heard
  <2>7. \A danger \in Dangers(action, setting.caps, heard) : \E w \in {world, world'} : ~On(danger, w)
    BY <2>3, <2>6
  <2> QED
    BY <2>1, <2>5, <2>7 DEF QuietHost, action, setting
<1> QED
  BY <1>1, <1>2

\* QuietHost: no command goes to a host that had all through the recheck what
\* policies.py blocks the action on, whatever else the host does and whichever
\* answers are lost; except that a container does not block a change of VM mode
\* whose docker answer was lost, nor a GPU reset at all.
THEOREM BusyHostsSpared == Spec => []QuietHost
<1>1. Init => Quiet
  BY DEF Init, Quiet, QuietHost, Unwatched
<1>2. Quiet /\ [Next]_vars => Quiet'
  <2> SUFFICES ASSUME Quiet, [Next]_vars PROVE Quiet'
    OBVIOUS
  <2>1. scene' = scene
    BY DEF Next, Agent, Host, ReadHost, Ground, Propose, Approve, Recheck, Execute, Verify,
           Dispatch, Poll, Deadline, Postcheck, Drift, GoDown, ComeUp, vars
  <2>2. CASE Recheck
    BY <2>1, <2>2, RecheckKeeps DEF Quiet
  <2>3. CASE ~Recheck
    <3>1. watched' = watched
      BY <2>3 DEF Next, Agent, Host, ReadHost, Ground, Propose, Approve, Execute, Verify,
             Dispatch, Poll, Deadline, Postcheck, Drift, GoDown, ComeUp, vars
    <3> QED
      BY <2>1, <3>1 DEF Quiet, QuietHost, action, setting
  <2> QED
    BY <2>2, <2>3
<1>3. Quiet => QuietHost
  BY DEF Quiet
<1> QED
  BY <1>1, <1>2, <1>3, PTL DEF Spec
-----------------------------------------------------------------------------
\* A query answers yes, no, inactive or nothing.
LEMMA QueryFacts ==
  ASSUME NEW q \in Queries, NEW w, NEW lost
  PROVE  Query(q, w, lost) \in Facts
BY DEF Queries, Query, QueryPackage, QueryExecutable, QueryService, Facts

\* And so of a capability.
LEMMA GapVerdict ==
  ASSUME NEW e, NEW needs
  PROVE  Gap(e, needs) \in {"available", "degraded", "missing", "unknown"}
BY DEF Gap, Overall

\* The answers that a READ of the investigation may lose.
Lost == SUBSET {"dpkg_query", "which", "candidates", "show"}

\* The records of an investigation are the answers of the hosts that it read.
Grounded ==
  /\ evidence \in [Queries -> Seq(Facts)]
  /\ \A q \in Queries : \A n \in 1..Len(evidence[q]) :
       \E w \in read, lost \in Lost : evidence[q][n] = Query(q, w, lost)

\* A record that counts was read from a host.
LEMMA SoleRead ==
  ASSUME Grounded, NEW q \in Queries, Sole(evidence, q) # "unknown"
  PROVE  \E w \in read, lost \in Lost : Sole(evidence, q) = Query(q, w, lost)
BY DEF Grounded, Sole

\* The inductive invariant of the investigation.
GapInv ==
  /\ scene \in Scenes
  /\ Grounded
  /\ pc = "reading" => verdict = "unknown"
  /\ GapTruthful

\* What ground_capability_gap concludes holds of hosts that were read.
LEMMA Truth ==
  ASSUME Grounded, NEW needs \in {"NONE", "INSTALLED", "ACTIVE"}
  PROVE  /\ Gap(evidence, needs) = "missing" =>
              /\ \E w \in read : w.package # "installed"
              /\ \E w \in read : w.program # "path"
         /\ Gap(evidence, needs) \in {"available", "degraded"} =>
              /\ \E w \in read : w.package = "installed"
              /\ \E w \in read : w.program # "absent"
         /\ Gap(evidence, needs) = "available" /\ needs = "ACTIVE" =>
              \E w \in read : w.collector \notin {"absent", "inactive"}
<1> DEFINE pkg == Sole(evidence, "query_package")
           prg == Sole(evidence, "query_executable")
           svc == Sole(evidence, "query_service")
<1>1. pkg = "no" => \E w \in read : w.package # "installed"
  <2>1. SUFFICES ASSUME pkg = "no" PROVE \E w \in read : w.package # "installed"
    OBVIOUS
  <2>2. PICK w \in read, lost \in Lost : QueryPackage(w, lost) = "no"
    BY <2>1, SoleRead DEF Queries, Query
  <2> QED
    BY <2>2 DEF QueryPackage, Probe, Answers
<1>2. pkg = "yes" => \E w \in read : w.package = "installed"
  <2>1. SUFFICES ASSUME pkg = "yes" PROVE \E w \in read : w.package = "installed"
    OBVIOUS
  <2>2. PICK w \in read, lost \in Lost : QueryPackage(w, lost) = "yes"
    BY <2>1, SoleRead DEF Queries, Query
  <2> QED
    BY <2>2 DEF QueryPackage
<1>3. prg = "no" => \E w \in read : w.program # "path"
  <2>1. SUFFICES ASSUME prg = "no" PROVE \E w \in read : w.program # "path"
    OBVIOUS
  <2>2. PICK w \in read, lost \in Lost : QueryExecutable(w, lost) = "no"
    BY <2>1, SoleRead DEF Queries, Query
  <2>3. Probe("which", w, lost) = "no"
    BY <2>2 DEF QueryExecutable
  <2> QED
    BY <2>3 DEF Probe, Answers
<1>4. prg = "yes" => \E w \in read : w.program # "absent"
  <2>1. SUFFICES ASSUME prg = "yes" PROVE \E w \in read : w.program # "absent"
    OBVIOUS
  <2>2. PICK w \in read, lost \in Lost : QueryExecutable(w, lost) = "yes"
    BY <2>1, SoleRead DEF Queries, Query
  <2>3. Probe("which", w, lost) = "ok" \/ Probe("candidates", w, lost) = "ok"
    BY <2>2 DEF QueryExecutable
  <2> QED
    BY <2>3 DEF Probe, Answers
<1>5. svc = "yes" => \E w \in read : w.collector \notin {"absent", "inactive"}
  <2>1. SUFFICES ASSUME svc = "yes" PROVE \E w \in read : w.collector \notin {"absent", "inactive"}
    OBVIOUS
  <2>2. PICK w \in read, lost \in Lost : QueryService(w, lost) = "yes"
    BY <2>1, SoleRead DEF Queries, Query
  <2> QED
    BY <2>2 DEF QueryService, Probe
<1>6. Software(evidence) = "missing" => pkg = "no" /\ prg = "no"
  BY DEF Software
<1>7. Software(evidence) = "available" => pkg = "yes" /\ prg = "yes"
  BY DEF Software
<1>8. Service(evidence, "ACTIVE") = "active" => svc = "yes"
  BY DEF Service
<1>9. Service(evidence, "ACTIVE") \in {"active", "inactive", "unavailable", "unknown"}
  BY DEF Service
<1>10. Software(evidence) \in {"missing", "available", "unknown"}
  BY DEF Software
<1>11. Gap(evidence, needs) = "missing" => Software(evidence) = "missing"
  BY <1>10 DEF Gap, Overall
<1>12. Gap(evidence, needs) \in {"available", "degraded"} => Software(evidence) = "available"
  BY <1>10 DEF Gap, Overall
<1>13. Gap(evidence, "ACTIVE") = "available" => Service(evidence, "ACTIVE") = "active"
  BY <1>9, <1>10 DEF Gap, Overall
<1> QED
  BY <1>1, <1>2, <1>3, <1>4, <1>5, <1>6, <1>7, <1>8, <1>11, <1>12, <1>13

\* Only ReadHost and Ground touch what GapTruthful is about.
LEMMA GapStep == ASSUME GapInv, [Next]_vars PROVE GapInv'
<1>1. scene' = scene
  BY DEF Next, Agent, Host, ReadHost, Ground, Propose, Approve, Recheck, Execute, Verify,
         Dispatch, Poll, Deadline, Postcheck, Drift, GoDown, ComeUp, vars
<1>2. CASE ReadHost
  <2>1. PICK q \in Queries, lost \in Lost :
          evidence' = [evidence EXCEPT ![q] = Append(@, Query(q, world, lost))]
    BY <1>2 DEF ReadHost, Lost
  <2>2. Query(q, world, lost) \in Facts
    BY QueryFacts
  <2>3. evidence' \in [Queries -> Seq(Facts)]
    BY <2>1, <2>2 DEF GapInv, Grounded
  <2>4. ASSUME NEW r \in Queries, NEW n \in 1..Len(evidence'[r])
        PROVE  \E w \in read', l \in Lost : evidence'[r][n] = Query(r, w, l)
    <3>1. read' = read \cup {world}
      BY <1>2 DEF ReadHost
    <3>2. CASE r = q /\ n = Len(evidence[q]) + 1
      <4>1. evidence'[r][n] = Query(q, world, lost)
        BY <2>1, <2>2, <3>2 DEF GapInv, Grounded
      <4> QED
        BY <3>1, <3>2, <4>1
    <3>3. CASE ~(r = q /\ n = Len(evidence[q]) + 1)
      <4>1. n \in 1..Len(evidence[r]) /\ evidence'[r][n] = evidence[r][n]
        BY <2>1, <2>2, <2>4, <3>3 DEF GapInv, Grounded
      <4> QED
        BY <3>1, <4>1 DEF GapInv, Grounded
    <3> QED
      BY <3>2, <3>3
  <2>5. pc' = "reading" /\ verdict' = "unknown"
    BY <1>2 DEF ReadHost, GapInv
  <2> QED
    BY <1>1, <2>3, <2>4, <2>5 DEF GapInv, Grounded, GapTruthful, setting
<1>3. CASE Ground
  <2>1. verdict' = Gap(evidence, setting.needs) /\ read' = read /\ setting' = setting
    BY <1>1, <1>3 DEF Ground, setting
  <2>2. setting.needs \in {"NONE", "INSTALLED", "ACTIVE"}
    BY ScenesAssumption DEF GapInv, setting, Setting
  <2>3. pc' # "done" => scene.consent /\ Software(evidence) = "missing"
    BY <1>3 DEF Ground, RequestForGap
  <2>4. pc' # "done" => verdict' = "missing"
    BY <2>1, <2>3 DEF Gap, Overall
  <2>5. pc' # "reading" /\ Grounded'
    <3>1. evidence' = NoEvidence
      BY <1>3 DEF Ground
    <3>2. evidence' \in [Queries -> Seq(Facts)] /\ \A q \in Queries : Len(evidence'[q]) = 0
      BY <3>1 DEF NoEvidence
    <3> QED
      BY <1>3, <3>2 DEF Grounded, Ground
  <2> QED
    BY <1>1, <2>1, <2>2, <2>3, <2>4, <2>5, Truth DEF GapInv, GapTruthful
<1>4. CASE ~ReadHost /\ ~Ground
  <2>1. UNCHANGED investigation /\ (pc' = "reading" => pc = "reading")
        /\ (pc' \notin {"reading", "done"} => pc \notin {"reading", "done"})
    BY <1>4 DEF Next, Agent, Host, Propose, Approve, Recheck, Execute, Verify,
       Dispatch, Poll, Deadline, Postcheck, Drift, GoDown, ComeUp, vars, investigation
  <2> QED
    BY <1>1, <2>1 DEF GapInv, Grounded, GapTruthful, setting, investigation
<1> QED
  BY <1>2, <1>3, <1>4

\* GapTruthful: what an investigation says of a capability was so on a host
\* that it read, however many READs it makes and whichever answers are lost.
THEOREM GapSound == Spec => []GapTruthful
<1>1. Init => GapInv
  <2> SUFFICES ASSUME Init PROVE GapInv
    OBVIOUS
  <2>1. evidence \in [Queries -> Seq(Facts)] /\ \A q \in Queries : Len(evidence[q]) = 0
    BY DEF Init, NoEvidence
  <2> QED
    BY <2>1 DEF Init, GapInv, Grounded, GapTruthful
<1>2. GapInv /\ [Next]_vars => GapInv'
  BY GapStep
<1>3. GapInv => GapTruthful
  BY DEF GapInv
<1> QED
  BY <1>1, <1>2, <1>3, PTL DEF Spec
-----------------------------------------------------------------------------
\* No command without a recheck.
Looked == pc \in {"command", "verify", "monitor", "postcheck"} => watched.worlds # {}

TypeInv == TypeOK /\ Looked /\ DOMAIN world = DOMAIN Blank

\* Whatever happens to a host, it keeps its fields.
LEMMA SameFields ==
  ASSUME scene \in Scenes, NEW w, DOMAIN w = DOMAIN Blank
  PROVE  /\ \A v \in Later(w) : DOMAIN v = DOMAIN Blank
         /\ \A v \in Effects(w) : DOMAIN v = DOMAIN Blank
         /\ \A v \in Booted(w) : DOMAIN v = DOMAIN Blank
<1>1. ASSUME NEW change \in scene.changes PROVE DOMAIN Turn(w, change) = DOMAIN Blank
  BY ScenesAssumption, <1>1 DEF Changes, Turn
<1>2. \A v \in Later(w) : DOMAIN v = DOMAIN Blank
  BY <1>1 DEF Later
<1>3. \A v \in Booted(w) : DOMAIN v = DOMAIN Blank
  BY DEF Booted
<1>4. ASSUME NEW v \in Effects(w) PROVE DOMAIN v = DOMAIN Blank
  <2>1. \A G : DOMAIN OnVfio(w, G) = DOMAIN Blank /\ DOMAIN OnNvidia(w, G) = DOMAIN Blank
    BY DEF OnVfio, OnNvidia
  <2>2. CASE v = w
    BY <2>2
  <2>3. ServiceActions =
          {"RESTART_VAST_SERVICE", "RESTART_DOCKER_SERVICE", "RESTART_LIBVIRT_SERVICE"}
    BY DEF ServiceActions, RestartOf
  <2>4. CASE v # w /\ action \in ServiceActions
    BY <1>4, <2>3, <2>4 DEF Effects
  <2>5. CASE v # w /\ action \notin ServiceActions
    BY <1>4, <2>1, <2>3, <2>5 DEF Effects
  <2> QED
    BY <2>2, <2>4, <2>5
<1> QED
  BY <1>2, <1>3, <1>4

\* Each step keeps the types, action by action in Rest.
LEMMA TypeStep == ASSUME TypeInv, GapInv, [Next]_vars PROVE TypeInv'
<1>1. scene' = scene
  BY DEF Next, Agent, Host, ReadHost, Ground, Propose, Approve, Recheck, Execute, Verify,
         Dispatch, Poll, Deadline, Postcheck, Drift, GoDown, ComeUp, vars
<1>2. evidence' \in [Queries -> Seq(Facts)]
  BY GapStep DEF GapInv, Grounded
<1>3. verdict' \in {"available", "degraded", "missing", "unknown"}
  <2>1. CASE Ground
    BY <2>1, GapVerdict DEF Ground
  <2>2. CASE ~Ground
    <3>1. verdict' = verdict
      BY <2>2 DEF Next, Agent, Host, ReadHost, Propose, Approve, Recheck, Execute, Verify,
         Dispatch, Poll, Deadline, Postcheck, Drift, GoDown, ComeUp, vars, investigation
    <3> QED
      BY <3>1 DEF TypeInv, TypeOK
  <2> QED
    BY <2>1, <2>2
<1>4. DOMAIN world' = DOMAIN Blank
  BY SameFields DEF TypeInv, TypeOK, Next, Agent, Host, ReadHost, Ground, Propose, Approve, Recheck,
     Execute, Verify, Dispatch, Poll, Deadline, Postcheck, Drift, GoDown, ComeUp, vars
<1> DEFINE Rest == /\ power \in {"on", "going", "down"} /\ pc \in Points /\ outcome \in Outcomes
                   /\ reply \in {"none", "ok", "failed", "timeout", "lost", "refused"}
                   /\ down \in BOOLEAN
                   /\ (pc = "done") <=> (outcome # "none")
                   /\ reply # "none" => watched.worlds # {}
                   /\ Looked
<1>5. Rest
  BY DEF TypeInv, TypeOK
<1>6. Rest'
  <2> USE <1>5 DEF Points, Outcomes, Looked
  <2>1. CASE ReadHost
    BY <2>1 DEF ReadHost
  <2>2. CASE Ground
    BY <2>2 DEF Ground
  <2>3. CASE Propose
    BY <2>3 DEF Propose
  <2>4. CASE Approve
    BY <2>4 DEF Approve
  <2>5. CASE Recheck
    <3>1. CASE pc' = "done"
      BY <2>5, <3>1 DEF Recheck
    <3>2. CASE pc' = "command"
      <4>1. PICK heard : watched' = [worlds |-> {world, world'}, heard |-> heard]
        BY <2>5, <3>2 DEF Recheck
      <4>2. watched'.worlds # {}
        BY <4>1
      <4> QED
        BY <2>5, <3>2, <4>2 DEF Recheck
    <3> QED
      BY <2>5, <3>1, <3>2 DEF Recheck
  <2>6. CASE Execute
    BY <2>6 DEF Execute
  <2>7. CASE Verify
    BY <2>7 DEF Verify
  <2>8. CASE Dispatch
    BY <2>8 DEF Dispatch
  <2>9. CASE Poll
    BY <2>9 DEF Poll
  <2>10. CASE Deadline
    BY <2>10 DEF Deadline
  <2>11. CASE Postcheck
    BY <2>11 DEF Postcheck
  <2>12. CASE Host \/ UNCHANGED vars
    BY <2>12 DEF Host, Drift, GoDown, ComeUp, vars
  <2> QED
    BY <2>1, <2>2, <2>3, <2>4, <2>5, <2>6, <2>7, <2>8, <2>9, <2>10, <2>11, <2>12 DEF Next, Agent
<1>7. scene' \in Scenes
  BY <1>1 DEF TypeInv, TypeOK
<1> HIDE DEF Rest
<1>8. TypeOK' /\ Looked'
  BY <1>2, <1>3, <1>6, <1>7 DEF TypeOK, Rest
<1> QED
  BY <1>4, <1>8 DEF TypeInv

\* The beginning.
LEMMA TypeStart == Init => TypeInv /\ GapInv
<1> SUFFICES ASSUME Init PROVE TypeInv /\ GapInv
  OBVIOUS
<1>1. evidence \in [Queries -> Seq(Facts)] /\ \A q \in Queries : Len(evidence[q]) = 0
  BY DEF Init, NoEvidence
<1>2. GapInv
  BY <1>1 DEF Init, GapInv, Grounded, GapTruthful
<1>3. DOMAIN world = DOMAIN Blank
  BY ScenesAssumption DEF Init
<1> QED
  BY <1>1, <1>2, <1>3 DEF Init, TypeInv, TypeOK, Looked, Points, Outcomes

\* TypeOK: types, an outcome when and only when propose, _consume or
\* execute_approved has returned, and no reply without a recheck.
THEOREM TypeCorrect == Spec => []TypeOK
<1>1. TypeInv /\ GapInv /\ [Next]_vars => (TypeInv /\ GapInv)'
  BY TypeStep, GapStep
<1>2. TypeInv => TypeOK
  BY DEF TypeInv
<1> QED
  BY <1>1, <1>2, TypeStart, PTL DEF Spec
-----------------------------------------------------------------------------
\* A reply shows nothing, the host of the moment, or the rest of an answer.
LEMMA Shows ==
  ASSUME NEW caps, NEW view, NEW lost, NEW rest \in Remains(view, lost), NEW p \in Probes
  PROVE  \/ Saw(Inspect(caps, view, rest), p) = Blank
         \/ Saw(Inspect(caps, view, rest), p) = view[p]
         \/ Saw(Inspect(caps, view, rest), p) \in Leftovers(p, view[p])
<1> DEFINE res == Inspect(caps, view, rest)
<1>1. \/ res[p] = NotRun
      \/ p \in DOMAIN rest /\ res[p] = Reply("lost", rest[p])
      \/ res[p] = Run(p, view[p])
  BY DEF Inspect
<1>2. DOMAIN rest = lost /\ \A q \in lost : rest[q] \in Leftovers(q, view[q])
  BY DEF Remains
<1> QED
  BY <1>1, <1>2 DEF NotRun, Reply, Run, Saw

\* The verifier's word for a success was true of the host of some probe.
LEMMA VerifiedSeen ==
  ASSUME scene \in Scenes,
         NEW view, \A p \in Probes : DOMAIN view[p] = DOMAIN Blank,
         NEW lost, NEW rest \in Remains(view, lost),
         NEW f, f = Snapshot(action, setting, Inspect(setting.caps, view, rest)),
         Verifies(action, setting, f),
         f.complete \/ action \notin VmActions \cup {"GPU_RESET"},
         NEW claim \in Claims(action, setting)
  PROVE  \E p \in Probes : Holds(claim, view[p])
<1> DEFINE res == Inspect(setting.caps, view, rest)
<1>1. action \in ActionTypes
  BY ScenesAssumption DEF action
<1>2. f.complete =>
        \A t \in RequiredTools(action, setting.caps) \ Tolerated(action, res, setting.expected) :
          Ok(res, t)
  BY DEF Snapshot, Evidence
<1>3. action # "VM_MODE_DISABLE" => Tolerated(action, res, setting.expected) = {}
  BY DEF Tolerated
<1>4. Tolerated(action, res, setting.expected) \subseteq {"get_gpu_processes"}
  BY DEF Tolerated
<1>5. f.target = Target(action, setting, res) /\ f.binding = Binding(action, setting, res)
  BY DEF Snapshot
<1>6. /\ f.procs = Saw(res, "get_gpu_processes").procs
      /\ f.installed = IF action = "PACKAGE_INSTALL" THEN Installed(res) ELSE "unknown"
      /\ f.vm = (Ok(res, "get_vm_status") /\ Saw(res, "get_vm_status").vm)
  BY DEF Snapshot
<1>7. \A p \in Probes : Ok(res, p) => Saw(res, p) = view[p] /\ Succeeds(p, view[p])
  BY Answered
<1>8. \A p \in Probes : \/ Saw(res, p) = Blank
                        \/ Saw(res, p) = view[p]
                        \/ Saw(res, p) \in Leftovers(p, view[p])
  BY Shows
<1>9. ServiceActions =
         {"RESTART_VAST_SERVICE", "RESTART_DOCKER_SERVICE", "RESTART_LIBVIRT_SERVICE"}
  BY DEF ServiceActions, RestartOf
<1> HIDE DEF res
<1>10. CASE action \in ServiceActions
  <2>1. claim = "active"
    BY <1>9, <1>10 DEF Claims
  <2> DEFINE s == RestartOf[action]
             o == Owner(s)
  <2>2. s \in Services /\ o \in {"get_vast_status", "get_docker_status", "get_service_status"}
    BY <1>10 DEF ServiceActions, RestartOf, Services, Owner
  <2>3. ServiceState(res, s) = "active"
    <3>1. f.target.current = "active"
      BY <1>9, <1>10 DEF Verifies
    <3>2. \E there : f.target = [exists |-> there, current |-> ServiceState(res, s)]
      BY <1>5, <1>9, <1>10 DEF Target, VmActions
    <3> QED
      BY <3>1, <3>2
  <2>4. \A q \in {"get_vast_status", "get_docker_status", "get_service_status"} :
          Saw(res, q).units[s] # "unknown" => Saw(res, q).units[s] = view[q].units[s]
    <3> SUFFICES ASSUME NEW q \in {"get_vast_status", "get_docker_status", "get_service_status"}
                 PROVE  Saw(res, q).units[s] # "unknown" => Saw(res, q).units[s] = view[q].units[s]
      OBVIOUS
    <3>1. q \in Probes
      BY DEF Probes, Tools, VastTools
    <3>2. "units" \in DOMAIN view[q]
      BY <3>1 DEF Blank
    <3>3. Blank.units[s] = "unknown"
      BY <2>2 DEF Blank
    <3>4. \A left \in Leftovers(q, view[q]) : left = Blank \/ left.units = view[q].units
      BY <3>2 DEF Leftovers
    <3> QED
      BY <1>8, <3>1, <3>3, <3>4
  <2>5. \E q \in {"get_vast_status", "get_docker_status", "get_service_status"} :
          Saw(res, q).units[s] = "active"
    BY <2>2, <2>3 DEF ServiceState
  <2>6. \E q \in {"get_vast_status", "get_docker_status", "get_service_status"} :
          view[q].units[s] = "active"
    BY <2>4, <2>5
  <2> QED
    BY <2>1, <2>6 DEF Holds, Probes, Tools, VastTools
<1>11. CASE action = "RESTART_VAST_CONTAINER"
  <2>1. claim = "container up"
    BY <1>11 DEF Claims, ServiceActions, RestartOf
  <2> DEFINE v == view["get_docker_status"]
             c == setting.container
  <2>2. c \in DOMAIN Rows(res) /\ Rows(res)[c] = "up"
    BY <1>5, <1>11 DEF Verifies, Target, ServiceActions, RestartOf
  <2>3. "get_docker_status" \in Probes
    BY DEF Probes, Tools
  <2>4. "rows" \in DOMAIN v
    BY <2>3 DEF Blank
  <2>5. Rows(res) = Saw(res, "get_docker_status").rows /\ Saw(res, "get_docker_status") # Blank
    BY <2>2 DEF Rows, Blank, Services
  <2>6. CASE Saw(res, "get_docker_status") = v
    BY <2>1, <2>2, <2>3, <2>5, <2>6 DEF Holds
  <2>7. CASE Saw(res, "get_docker_status") \in Leftovers("get_docker_status", v)
    <3>1. PICK C \in SUBSET DOMAIN v.rows :
            Saw(res, "get_docker_status") = [v EXCEPT !.rows = [x \in C |-> v.rows[x]]]
      BY <2>5, <2>7 DEF Leftovers
    <3>2. Rows(res) = [x \in C |-> v.rows[x]]
      BY <2>4, <2>5, <3>1
    <3> QED
      BY <2>1, <2>2, <2>3, <3>2 DEF Holds
  <2> QED
    BY <1>8, <2>3, <2>5, <2>6, <2>7
<1>12. CASE action = "PACKAGE_INSTALL"
  <2>1. claim = "installed"
    BY <1>12 DEF Claims, ServiceActions, RestartOf
  <2>2. Installed(res) = "yes"
    <3>1. f.installed = "yes"
      BY <1>9, <1>12 DEF Verifies
    <3> QED
      BY <1>6, <1>12, <3>1
  <2>3. Ok(res, "dpkg_query") /\ Saw(res, "dpkg_query").package = "installed"
    BY <2>2 DEF Installed
  <2> QED
    BY <1>7, <2>1, <2>3 DEF Holds, Probes, Extras
<1>13. CASE action = "GPU_RESET"
  <2>1. claim \in {"gpu back", "no process"}
    BY <1>13 DEF Claims, ServiceActions, RestartOf
  <2>2. Indexed(Devices(res), setting.index) # {}
    <3>1. f.target.exists
      BY <1>9, <1>13 DEF Verifies
    <3>2. Indexed(Devices(res), setting.index) = {} =>
            f.target = [exists |-> FALSE, current |-> "missing"]
      BY <1>5, <1>9, <1>13 DEF Target, VmActions
    <3> QED
      BY <3>1, <3>2
  <2>3. CASE claim = "gpu back"
    <3>1. Devices(res) # {}
      BY <2>2 DEF Indexed
    <3>2. Devices(res) = Bound(view["get_gpu_status"], {"nvidia"})
      BY <1>7, <3>1 DEF Devices, Probes, Tools, NvidiaTools
    <3> QED
      BY <2>2, <2>3, <3>2 DEF Holds, Probes, Tools, NvidiaTools
  <2>4. CASE claim = "no process"
    <3>1. ~Saw(res, "get_gpu_processes").procs
      BY <1>6, <1>13 DEF Verifies, ServiceActions, RestartOf
    <3>2. Ok(res, "get_gpu_processes")
      BY <1>2, <1>3, <1>13 DEF RequiredTools, NvidiaTools, VmActions
    <3> QED
      BY <1>7, <2>4, <3>1, <3>2 DEF Holds, Probes, Tools, NvidiaTools
  <2> QED
    BY <2>1, <2>3, <2>4
<1>14. CASE action \in VmActions
  <2>1. /\ "get_pci_status" \in RequiredTools(action, setting.caps)
        /\ "get_vm_status" \in RequiredTools(action, setting.caps)
    BY <1>14 DEF VmActions, RequiredTools
  <2>2. Ok(res, "get_pci_status") /\ Ok(res, "get_vm_status")
    BY <1>2, <1>4, <1>14, <2>1
  <2>3. Pci(res) = view["get_pci_status"] /\ Saw(res, "get_vm_status") = view["get_vm_status"]
    BY <1>7, <2>2 DEF Pci, Probes, Tools
  <2>4. f.binding.by = "vfio-pci" => Bound(Pci(res), {"vfio-pci"}) = DOMAIN Pci(res).driver
    BY <1>5, <1>14 DEF Binding, VmActions
  <2>5. f.binding.by = "nvidia" => Bound(Pci(res), {"nvidia"}) = DOMAIN Pci(res).driver
    BY <1>5, <1>14 DEF Binding, VmActions
  <2>6. "get_pci_status" \in Probes /\ "get_vm_status" \in Probes
    BY DEF Probes, Tools
  <2>7. CASE action = "VM_MODE_ENABLE"
    <3>1. claim = "all vfio"
      BY <2>7 DEF Claims, ServiceActions, RestartOf
    <3>2. f.binding.by = "vfio-pci"
      BY <2>7 DEF Verifies, ServiceActions, RestartOf
    <3> QED
      BY <2>3, <2>4, <2>6, <3>1, <3>2 DEF Holds
  <2>8. CASE action = "VM_MODE_DISABLE"
    <3>1. claim \in {"all nvidia", "no vm"}
      BY <2>8 DEF Claims, ServiceActions, RestartOf
    <3>2. f.binding.by = "nvidia" /\ ~f.vm
      BY <2>8 DEF Verifies, ServiceActions, RestartOf
    <3>3. ~view["get_vm_status"].vm
      BY <1>6, <2>2, <2>3, <3>2
    <3>4. Bound(view["get_pci_status"], {"nvidia"}) = DOMAIN view["get_pci_status"].driver
      BY <2>3, <2>5, <3>2
    <3> QED
      BY <2>6, <3>1, <3>3, <3>4 DEF Holds
  <2> QED
    BY <1>14, <2>7, <2>8 DEF VmActions
<1>15. CASE action = "HOST_REBOOT"
  BY <1>15 DEF Verifies, ServiceActions, RestartOf, VmActions
<1> QED
  BY <1>1, <1>10, <1>11, <1>12, <1>13, <1>14, <1>15 DEF ActionTypes

\* And so was that of the reboot monitor.
LEMMA RecoverySeen ==
  ASSUME action = "HOST_REBOOT",
         NEW view, NEW rest, NEW before,
         NEW f, f = Snapshot(action, setting, Inspect(setting.caps, view, rest)),
         Recovered(before, f),
         NEW claim \in Claims(action, setting)
  PROVE  \E p \in Probes : Holds(claim, view[p])
<1> DEFINE res == Inspect(setting.caps, view, rest)
<1>1. \A t \in RequiredTools(action, setting.caps) : Ok(res, t)
  <2>1. f.complete
    BY DEF Recovered
  <2>2. Tolerated(action, res, setting.expected) = {}
    BY DEF Tolerated
  <2> QED
    BY <2>1, <2>2 DEF Snapshot, Evidence
<1>2. ~Saw(res, "get_d_state_processes").stuck /\ Signatures(res, setting.expected) = {}
  BY DEF Recovered, Snapshot
<1>3. \A p \in Probes : Ok(res, p) => Saw(res, p) = view[p] /\ Succeeds(p, view[p])
  BY Answered
<1> HIDE DEF res
<1>4. claim \in {"not stuck", "no fault", "none unbound"}
      /\ (claim # "not stuck" => "nvidia" \in setting.caps)
  BY DEF Claims, ServiceActions, RestartOf
<1>5. CASE claim = "not stuck"
  <2>1. "get_d_state_processes" \in RequiredTools(action, setting.caps)
    BY DEF RequiredTools, VmActions
  <2> QED
    BY <1>1, <1>2, <1>3, <1>5, <2>1 DEF Holds, Probes, Tools
<1>6. CASE claim = "no fault"
  <2>1. "get_kernel_gpu_errors" \in RequiredTools(action, setting.caps)
    BY <1>4, <1>6 DEF RequiredTools, VmActions, NvidiaTools
  <2>2. ~Saw(res, "get_kernel_gpu_errors").fault
    BY <1>2 DEF Signatures
  <2> QED
    BY <1>1, <1>3, <1>6, <2>1, <2>2 DEF Holds, Probes, Tools, NvidiaTools
<1>7. CASE claim = "none unbound"
  <2>1. "get_pci_status" \in RequiredTools(action, setting.caps)
    BY <1>4, <1>7 DEF RequiredTools, VmActions
  <2>2. Bound(Pci(res), {"none"}) = {}
    BY <1>2 DEF Signatures
  <2> QED
    BY <1>1, <1>3, <1>7, <2>1, <2>2 DEF Holds, Pci, Probes, Tools
<1> QED
  BY <1>4, <1>5, <1>6, <1>7

\* What a preflight shows is of the host before or after.
LEMMA LookSees ==
  ASSUME NEW after, NEW look \in Looks(after)
  PROVE  /\ \E lost : look.rest \in Remains(View(world, after, look.cut), lost)
         /\ \A p \in Probes : View(world, after, look.cut)[p] \in {world, after}
<1>1. PICK cut, lost : \E rest \in Remains(View(world, after, cut), lost) :
                         look = [cut |-> cut, rest |-> rest]
  BY DEF Looks
<1>2. look.rest \in Remains(View(world, after, look.cut), lost)
  BY <1>1
<1>3. \A p \in Probes : View(world, after, look.cut)[p] \in {world, after}
  BY DEF View
<1> QED
  BY <1>2, <1>3

\* The inductive invariant of the verification.
Seen == /\ TypeInv /\ GapInv /\ SuccessWasSeen
        /\ pc \in {"monitor", "postcheck"} => action = "HOST_REBOOT"

\* The two steps that may report a success.
LEMMA VerifyKeeps == ASSUME Seen, Verify PROVE SuccessWasSeen'
<1>1. /\ scene' = scene /\ scene \in Scenes
      /\ DOMAIN world = DOMAIN Blank /\ DOMAIN world' = DOMAIN Blank
  BY SameFields DEF Verify, Seen, TypeInv, TypeOK
<1>2. SUFFICES ASSUME outcome' = "SUCCEEDED",
                      proof'.complete \/ action \notin VmActions \cup {"GPU_RESET"},
                      NEW claim \in Claims(action, setting)
               PROVE  \E w \in proof'.worlds : Holds(claim, w)
  BY <1>1 DEF SuccessWasSeen, Achieved, Holds, action, setting, Claims
<1>3. PICK look \in Looks(world') :
        /\ proof' = [worlds |-> {world, world'}, complete |-> Collect(world', look).complete]
        /\ Verifies(action, setting, Collect(world', look))
  BY <1>2 DEF Verify
<1> DEFINE view == View(world, world', look.cut)
           f == Collect(world', look)
<1>4. PICK lost : look.rest \in Remains(view, lost)
  BY LookSees
<1>5. \A p \in Probes : view[p] \in {world, world'}
  BY LookSees
<1>6. f = Snapshot(action, setting, Inspect(setting.caps, view, look.rest))
  BY DEF Collect, Replies
<1>7. f.complete \/ action \notin VmActions \cup {"GPU_RESET"}
  BY <1>2, <1>3
<1> HIDE DEF view, f
<1>8. Verifies(action, setting, f)
  BY <1>3 DEF f
<1>9. PICK p \in Probes : Holds(claim, view[p])
  BY <1>1, <1>4, <1>5, <1>6, <1>7, <1>8, VerifiedSeen
<1> QED
  BY <1>3, <1>5, <1>9

LEMMA PostcheckKeeps == ASSUME Seen, Postcheck PROVE SuccessWasSeen'
<1>1. scene' = scene /\ action = "HOST_REBOOT"
  BY DEF Postcheck, Seen
<1>2. SUFFICES ASSUME outcome' = "SUCCEEDED", NEW claim \in Claims(action, setting)
               PROVE  \E w \in proof'.worlds : Holds(claim, w)
  BY <1>1 DEF SuccessWasSeen, Achieved, Holds, action, setting, Claims
<1>3. PICK look \in Looks(world') :
        proof'.worlds = {world, world'} /\ Recovered(shown, Collect(world', look))
  BY <1>2 DEF Postcheck
<1> DEFINE view == View(world, world', look.cut)
           f == Collect(world', look)
<1>4. \A p \in Probes : view[p] \in {world, world'}
  BY LookSees
<1>5. f = Snapshot(action, setting, Inspect(setting.caps, view, look.rest))
  BY DEF Collect, Replies
<1> HIDE DEF view, f
<1>6. Recovered(shown, f)
  BY <1>3 DEF f
<1>7. PICK p \in Probes : Holds(claim, view[p])
  BY <1>1, <1>5, <1>6, RecoverySeen
<1> QED
  BY <1>3, <1>4, <1>7

\* SuccessWasSeen: a success that ProductionActionVerifier or the reboot monitor
\* reports was there to be seen, whichever answers are lost; for a GPU reset
\* and the VM modes, if the evidence was complete.
THEOREM SuccessSeen == Spec => []SuccessWasSeen
<1>1. Init => Seen
  BY TypeStart DEF Init, Seen, SuccessWasSeen
<1>2. Seen /\ [Next]_vars => Seen'
  <2> SUFFICES ASSUME Seen, [Next]_vars PROVE Seen'
    OBVIOUS
  <2>1. TypeInv' /\ GapInv'
    BY TypeStep, GapStep DEF Seen
  <2>2. scene' = scene /\ (pc' \in {"monitor", "postcheck"} => action' = "HOST_REBOOT")
    BY DEF Seen, action, Next, Agent, Host, ReadHost, Ground, Propose, Approve, Recheck, Execute,
           Verify, Dispatch, Poll, Deadline, Postcheck, Drift, GoDown, ComeUp, vars
  <2>3. CASE Verify \/ Postcheck
    BY <2>1, <2>2, <2>3, VerifyKeeps, PostcheckKeeps DEF Seen
  <2>4. CASE ~Verify /\ ~Postcheck
    <3>1. outcome' = "SUCCEEDED" => outcome = "SUCCEEDED" /\ proof' = proof
      BY <2>4 DEF Next, Agent, Host, ReadHost, Ground, Propose, Approve, Recheck, Execute,
             Dispatch, Poll, Deadline, Drift, GoDown, ComeUp, vars
    <3> QED
      BY <2>1, <2>2, <3>1 DEF Seen, SuccessWasSeen, Achieved, Claims, Holds, action, setting
  <2> QED
    BY <2>3, <2>4
<1>3. Seen => SuccessWasSeen
  BY DEF Seen
<1> QED
  BY <1>1, <1>2, <1>3, PTL DEF Spec
=============================================================================
