---------------------------- MODULE ActionPolicy ----------------------------
(***************************************************************************)
(* From the replies of the probes to a decision: the snapshot that         *)
(* actions/preflight.py draws up, the reasons for which policies.py        *)
(* blocks, and what verifier.py and reboot.py call a success.              *)
(***************************************************************************)
EXTENDS HostProbes

RestartOf == [RESTART_VAST_SERVICE |-> "vastai", RESTART_DOCKER_SERVICE |-> "docker",
              RESTART_LIBVIRT_SERVICE |-> "libvirtd"]
ServiceActions == DOMAIN RestartOf
VmActions   == {"VM_MODE_ENABLE", "VM_MODE_DISABLE"}
ActionTypes == ServiceActions \cup VmActions \cup
               {"PACKAGE_INSTALL", "RESTART_VAST_CONTAINER", "GPU_RESET", "HOST_REBOOT"}

\* The host as hosts.yaml has it, the settings, and what the request names:
\* a GPU by its index, a container; needs is the service_requirement of the
\* capability that a package is to provide.
Setting == [caps : SUBSET Capabilities, expected : Nat, script : BOOLEAN,
            enabled : BOOLEAN, index : Nat, container : STRING,
            needs : {"NONE", "INSTALLED", "ACTIVE"}]

\* seeded fault: a lost get_vm_status is no reason to wait
WhenDeclaredDocker(caps) == IF "docker" \in caps THEN {"get_docker_status"} ELSE {}

WhenDeclared(caps) ==
  (IF "docker" \in caps THEN {"get_docker_status"} ELSE {}) \cup
  (IF "libvirt" \in caps THEN {"get_vm_status"} ELSE {})

RequiredTools(action, caps) ==
  {"host_ping"} \cup
  CASE action = "PACKAGE_INSTALL" -> {"get_system_health"} \cup WhenDeclared(caps)
    [] action = "RESTART_VAST_SERVICE" ->
         {"get_vast_status", "get_service_status", "get_system_health"} \cup WhenDeclared(caps)
    [] action = "RESTART_DOCKER_SERVICE" -> {"get_service_status", "get_docker_status"}
    [] action = "RESTART_LIBVIRT_SERVICE" -> {"get_service_status", "get_vm_status"}
    [] action = "RESTART_VAST_CONTAINER" -> {"get_docker_status"}
    [] action = "GPU_RESET" ->
         NvidiaTools \cup {"get_pci_status", "get_d_state_processes"} \cup WhenDeclared(caps)
    [] action \in VmActions ->
         {"get_vm_status", "get_pci_status", "get_gpu_processes", "get_d_state_processes"}
    [] action = "HOST_REBOOT" ->
         {"get_system_health", "get_d_state_processes", "get_service_status", "get_journal_errors"}
         \cup (IF "nvidia" \in caps THEN NvidiaTools \cup {"get_pci_status"} ELSE {})
         \cup (IF "vast" \in caps THEN VastTools ELSE {}) \cup WhenDeclared(caps)

\* nvidia-smi has no processes to list once every GPU has left its driver.
Tolerated(action, res, expected) ==
  IF action = "VM_MODE_DISABLE" /\ AllBoundToVfio(res, expected) THEN {"get_gpu_processes"} ELSE {}

Evidence(action, s, res) ==
  /\ Ok(res, "sudo")
  /\ \A t \in RequiredTools(action, s.caps) \ Tolerated(action, res, s.expected) : Ok(res, t)

\* dpkg-query: status 1 is the answer that no package matches.
Installed(res) == CASE Ok(res, "dpkg_query") /\ Saw(res, "dpkg_query").package = "installed" -> "yes"
                    [] res["dpkg_query"].end = "no" -> "no"
                    [] OTHER -> "unknown"
Busy(res) == CASE Ok(res, "fuser") -> "busy" [] res["fuser"].end = "no" -> "idle" [] OTHER -> "unknown"
PackageEvidence(res) ==
  Ok(res, "apt_cache") /\ Ok(res, "which") /\ Installed(res) # "unknown" /\ Busy(res) # "unknown"

Target(action, s, res) ==
  LET listed == Devices(res)
      service == RestartOf[action]
  IN CASE action \in ServiceActions ->
            [exists |-> /\ [vastai |-> "vast", docker |-> "docker", libvirtd |-> "libvirt"][service] \in s.caps
                        /\ Ok(res, "get_service_status"),
             current |-> ServiceState(res, service)]
       [] action = "RESTART_VAST_CONTAINER" ->
            LET there == "docker" \in s.caps /\ s.container \in DOMAIN Rows(res)
            IN  [exists |-> there, current |-> IF there THEN Rows(res)[s.container] ELSE "missing"]
       [] action = "GPU_RESET" ->
            LET there == Indexed(listed, s.index) # {}
            IN  [exists |-> there, current |-> IF there THEN "power state" ELSE "missing"]
       [] action \in VmActions ->
            LET there == s.script /\ Ok(res, "script")
            IN  [exists |-> there, current |-> IF there THEN "configured" ELSE "missing"]
       [] action = "PACKAGE_INSTALL" -> [exists |-> TRUE, current |-> Installed(res)]
       [] action = "HOST_REBOOT" ->
            [exists |-> TRUE, current |-> IF Ok(res, "host_ping") THEN "up" ELSE "unknown"]

\* Which driver has the GPU of a reset (its index leads over the PCI address
\* to a device of lspci), or all GPUs of a change of VM mode.
Binding(action, s, res) ==
  LET pci == Pci(res).driver
      reset == Indexed(Devices(res), s.index) \cap DOMAIN pci
  IN CASE action = "GPU_RESET" /\ reset # {} ->
            LET d == pci[CHOOSE g \in reset : TRUE]
            IN  [resolved |-> TRUE,
                 by |-> IF d \in {"nvidia", "vfio-pci"} THEN d ELSE "unbound"]
       [] action = "GPU_RESET" /\ reset = {} -> [resolved |-> FALSE, by |-> "unknown"]
       [] action \in VmActions ->
            LET resolved == DOMAIN pci # {} /\ Bound(Pci(res), {"none", "other"}) = {}
            IN  [resolved |-> resolved,
                 by |-> IF resolved /\ Bound(Pci(res), {"vfio-pci"}) = DOMAIN pci THEN "vfio-pci"
                        ELSE IF resolved /\ Bound(Pci(res), {"nvidia"}) = DOMAIN pci THEN "nvidia"
                        ELSE "unknown"]
       [] OTHER -> [resolved |-> TRUE, by |-> "none"]

Statuses(res) == IF Ok(res, "get_docker_status") THEN Rows(res) ELSE <<>>

\* docker_workload_summary: the containers by their status, not by their name.
Tally(statuses, status) == Cardinality({c \in DOMAIN statuses : statuses[c] = status})

Snapshot(action, s, res) ==
  [ssh       |-> Ok(res, "host_ping"),
   sudo      |-> Ok(res, "sudo"),
   target    |-> Target(action, s, res),
   complete  |-> Evidence(action, s, res) /\ (action = "PACKAGE_INSTALL" => PackageEvidence(res)),
   workload  |-> \E c \in DOMAIN Statuses(res) : Statuses(res)[c] # "exited",
   total     |-> Cardinality(DOMAIN Statuses(res)),
   running   |-> Tally(Statuses(res), "up"),
   odd       |-> Tally(Statuses(res), "odd"),
   vm        |-> Ok(res, "get_vm_status") /\ Saw(res, "get_vm_status").vm,
   installed |-> IF action = "PACKAGE_INSTALL" THEN Installed(res) ELSE "unknown",
   candidate |-> Ok(res, "apt_cache") /\ Saw(res, "apt_cache").package # "nowhere",
   busy      |-> IF action = "PACKAGE_INSTALL" THEN Busy(res) ELSE "unknown",
   stuck     |-> Saw(res, "get_d_state_processes").stuck,
   disk      |-> Saw(res, "get_system_health").disk,
   failed    |-> Saw(res, "get_system_health").failed,
   binding   |-> Binding(action, s, res),
   procs     |-> Saw(res, "get_gpu_processes").procs,
   nvml      |-> Ok(res, "get_gpu_status"),
   present   |-> IF Ok(res, "get_pci_status") THEN DOMAIN Pci(res).driver # {} ELSE Devices(res) # {},
   nvidia    |-> Cardinality(Bound(Pci(res), {"nvidia"})),
   vfio      |-> Cardinality(Bound(Pci(res), {"vfio-pci"})),
   unbound   |-> Cardinality(Bound(Pci(res), {"none", "other"})),
   vast      |-> ServiceState(res, "vastai"),
   faults    |-> Signatures(res, s.expected)]
-----------------------------------------------------------------------------
\* PolicyEngine.evaluate, as far as it depends on the action.
BlockedByAction(action, s, f) ==
  CASE action = "GPU_RESET" ->
         ~f.binding.resolved \/ f.binding.by # "nvidia" \/ f.procs \/ f.vm
    [] action \in VmActions ->
         \/ ~s.script \/ ~f.binding.resolved
         \/ f.binding.by # (IF action = "VM_MODE_ENABLE" THEN "nvidia" ELSE "vfio-pci")
         \/ f.vm \/ f.procs \/ f.workload
    [] action = "RESTART_LIBVIRT_SERVICE" -> f.vm
    [] action = "RESTART_VAST_SERVICE" -> f.workload \/ f.vm
    [] action = "HOST_REBOOT" -> f.vm \/ f.workload \/ f.disk # "healthy"
    [] action = "PACKAGE_INSTALL" ->
         f.installed = "yes" \/ ~f.candidate \/ f.busy # "idle" \/ f.workload \/ f.vm
    [] OTHER -> FALSE

Blocks(action, s, f, execution) ==
  \/ execution /\ ~s.enabled
  \/ ~f.ssh \/ ~f.sudo \/ ~f.target.exists \/ ~f.complete
  \/ BlockedByAction(action, s, f)

\* seeded fault: a GPU back from a reset is not asked for its driver
VerifiesAnyBinding(action, s, f) == f.ssh /\ f.target.exists

\* ProductionActionVerifier.verify
Verifies(action, s, f) ==
  /\ f.ssh
  /\ CASE action = "PACKAGE_INSTALL" -> f.installed = "yes"
       [] action \in ServiceActions -> f.target.exists /\ f.target.current = "active"
       [] action = "RESTART_VAST_CONTAINER" -> f.target.exists /\ f.target.current = "up"
       [] action = "GPU_RESET" ->
            f.target.exists /\ f.binding.resolved /\ f.binding.by = "nvidia" /\ ~f.procs
       [] action = "VM_MODE_ENABLE" ->
            f.target.exists /\ f.binding.resolved /\ f.unbound = 0
            /\ f.binding.by = "vfio-pci" /\ f.nvidia = 0
       [] action = "VM_MODE_DISABLE" ->
            f.target.exists /\ f.binding.resolved /\ f.unbound = 0
            /\ ~f.vm /\ f.binding.by = "nvidia" /\ f.vfio = 0
       [] OTHER -> FALSE

\* RebootCoordinator._recovered
Recovered(before, after) ==
  /\ after.complete /\ after.ssh /\ ~after.stuck
  /\ after.failed <= before.failed
  /\ after.vast \in {"unknown", "active"}
  /\ after.faults = {}
  /\ before.faults = {} \/ (after.nvml /\ after.present /\ after.nvidia > 0 /\ after.unbound = 0)
=============================================================================
