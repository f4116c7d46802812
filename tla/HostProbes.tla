----------------------------- MODULE HostProbes -----------------------------
(***************************************************************************)
(* What the agent can see of a host.  A probe is one command over ssh: it  *)
(* ends with status 0, with status 1 as its way of saying no, or it is     *)
(* lost (a timeout, a broken connection), and then its output may hold     *)
(* the first part of an answer.  tools/registry.py names the probes,       *)
(* services/inspection.py runs them one after the other, so each sees the  *)
(* host at a moment of its own, and diagnostics/parser.py reads them.      *)
(*                                                                         *)
(* A reply keeps the host as the output shows it; text and its parsing are *)
(* left out.                                                               *)
(***************************************************************************)
EXTENDS Naturals, FiniteSets, TLC

Capabilities == {"nvidia", "vast", "docker", "libvirt"}
Services     == {"vastai", "docker", "libvirtd"}
Drivers      == {"nvidia", "vfio-pci", "none", "other"}

NvidiaTools == {"get_gpu_status", "get_gpu_processes", "get_kernel_gpu_errors"}
VastTools   == {"get_vast_status", "get_vast_logs"}
Tools == {"host_ping", "get_system_health", "get_pci_status", "get_d_state_processes",
          "get_service_status", "get_journal_errors", "get_docker_status", "get_vm_status"}
         \cup NvidiaTools \cup VastTools
\* what preflight.py and verifier.py run beside the inspection
Extras == {"sudo", "script", "dpkg_query", "apt_cache", "fuser", "which"}
Probes == Tools \cup Extras

\* FULL of inspector.py, then what follows the inspection.
Place == ("host_ping" :> 0 @@ "get_gpu_status" :> 1 @@ "get_gpu_processes" :> 2 @@
  "get_pci_status" :> 3 @@ "get_kernel_gpu_errors" :> 4 @@ "get_vast_status" :> 5 @@
  "get_vast_logs" :> 6 @@ "get_docker_status" :> 7 @@ "get_vm_status" :> 8 @@
  "get_system_health" :> 9 @@ "get_d_state_processes" :> 10 @@ "get_service_status" :> 11 @@
  "get_journal_errors" :> 12 @@ "sudo" :> 13 @@ "script" :> 14 @@ "dpkg_query" :> 15 @@
  "apt_cache" :> 16 @@ "fuser" :> 17 @@ "which" :> 18)

\* A host: driver maps its GPUs, in PCI order, to the driver each is bound to;
\* procs says whether get_gpu_processes prints anything; rows maps the
\* containers to "up", "exited" or "odd" (a status the summary does not know);
\* package is "nowhere" if apt knows no candidate, "residual" if only its
\* configuration is left; program is where its executable is: nowhere, on the
\* PATH, or in one of the places tried after it; collector is its service.
Blank == [ssh |-> FALSE, driver |-> <<>>, procs |-> FALSE, rows |-> <<>>,
          units |-> [s \in Services |-> "unknown"], vm |-> FALSE, stuck |-> FALSE,
          disk |-> "unknown", failed |-> 0, fault |-> FALSE,
          package |-> "unknown", program |-> "unknown",
          collector |-> "unknown", locked |-> FALSE]

Bound(w, drivers) == {g \in DOMAIN w.driver : w.driver[g] \in drivers}

Unsupported(caps, t) ==
  \/ t \in NvidiaTools /\ "nvidia" \notin caps
  \/ t \in VastTools /\ "vast" \notin caps
  \/ t = "get_docker_status" /\ "docker" \notin caps
  \/ t = "get_vm_status" /\ "libvirt" \notin caps

\* The command ends with status 0.  virsh may fail: `|| true` follows it.
Succeeds(t, w) ==
  CASE t \in {"get_gpu_status", "get_gpu_processes"} -> Bound(w, {"nvidia"}) # {}
    [] t = "get_docker_status" -> w.units["docker"] = "active"
    [] t = "dpkg_query"        -> w.package \in {"installed", "residual"}
    [] t = "fuser"             -> w.locked
    [] OTHER                   -> TRUE

Reply(end, w) == [end |-> end, saw |-> w]
NotRun == Reply("notrun", Blank)

\* What the output of a lost command may still show: nothing, or the first
\* part of a listing; nvidia-smi reports its own failure on stdout.
Leftovers(p, w) ==
  {Blank} \cup
  CASE p = "get_pci_status" ->
         {[w EXCEPT !.driver = [g \in G |-> w.driver[g]]] : G \in SUBSET DOMAIN w.driver}
    [] p = "get_docker_status" ->
         {[w EXCEPT !.rows = [c \in C |-> w.rows[c]]] : C \in SUBSET DOMAIN w.rows}
    [] p = "get_gpu_processes" -> {[Blank EXCEPT !.procs = TRUE]}
    [] OTHER -> {}

Run(p, w) ==
  IF ~w.ssh THEN Reply("lost", Blank)
  ELSE IF Succeeds(p, w) THEN Reply("ok", w) ELSE Reply("no", w)

\* The replies of one inspection: view[p] is the host when p ran, lost maps
\* the probes whose answer was lost to what remained of it.
Inspect(caps, view, lost) ==
  LET alive == "host_ping" \notin DOMAIN lost /\ view["host_ping"].ssh
  IN  [p \in Probes |->
         IF p \in Tools \ {"host_ping"} /\ (~alive \/ Unsupported(caps, p)) THEN NotRun
         ELSE IF p \in DOMAIN lost THEN Reply("lost", lost[p])
         ELSE Run(p, view[p])]
-----------------------------------------------------------------------------
Ok(res, p)  == res[p].end = "ok"
Ran(res, p) == res[p].end # "notrun"
Saw(res, p) == res[p].saw

\* parse_gpu, parse_pci: nvidia-smi lists, in PCI order, the GPUs that the
\* nvidia driver has; lspci lists all of them, whether or not it came to its end.
Devices(res) == IF Ok(res, "get_gpu_status") THEN Bound(Saw(res, "get_gpu_status"), {"nvidia"}) ELSE {}
Indexed(devices, n) == {g \in devices : Cardinality({d \in devices : d < g}) = n}
Pci(res) == Saw(res, "get_pci_status")
Rows(res) == IF Saw(res, "get_docker_status").units["docker"] = "active"
             THEN Saw(res, "get_docker_status").rows ELSE <<>>

\* The state of a service: get_vast_status and the first line of
\* get_docker_status come after get_service_status and replace its word.
Owner(s) == CASE s = "vastai" -> "get_vast_status" [] s = "docker" -> "get_docker_status"
              [] OTHER -> "get_service_status"
ServiceState(res, s) ==
  LET last == Saw(res, Owner(s)).units[s]
  IN  IF last # "unknown" THEN last ELSE Saw(res, "get_service_status").units[s]

AllBoundToVfio(res, expected) ==
  /\ Ok(res, "get_pci_status")
  /\ Cardinality(DOMAIN Pci(res).driver) = expected
  /\ expected > 0
  /\ Bound(Pci(res), {"vfio-pci"}) = DOMAIN Pci(res).driver

\* The faults that the reboot monitor calls major; "FAULT" stands for those
\* found in the kernel log.
Signatures(res, expected) ==
  {s \in {"NVML_UNAVAILABLE", "GPU_UNBOUND", "FAULT"} :
     \/ /\ s = "NVML_UNAVAILABLE"
        /\ Ok(res, "host_ping") /\ Ran(res, "get_gpu_status") /\ ~Ok(res, "get_gpu_status")
        /\ ~AllBoundToVfio(res, expected)
     \/ s = "GPU_UNBOUND" /\ Bound(Pci(res), {"none"}) # {}
     \/ s = "FAULT" /\ Saw(res, "get_kernel_gpu_errors").fault}
=============================================================================
