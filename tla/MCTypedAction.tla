--------------------------- MODULE MCTypedAction ----------------------------
(* One scene per action; in each, the few things that could go wrong.      *)
EXTENDS TypedAction

Calm == [ssh |-> TRUE, driver |-> <<"nvidia", "nvidia">>, procs |-> FALSE,
         rows |-> ("c1" :> "exited"), units |-> [s \in Services |-> "active"], vm |-> FALSE,
         stuck |-> FALSE, disk |-> "healthy", failed |-> 0, fault |-> FALSE, package |-> "absent",
         program |-> "absent", collector |-> "inactive", locked |-> FALSE]
Passed == [Calm EXCEPT !.driver = <<"vfio-pci", "vfio-pci">>]

Plain == [caps |-> Capabilities, expected |-> 2, script |-> TRUE, enabled |-> TRUE, index |-> 0,
          container |-> "c1", needs |-> "ACTIVE"]
Scene(a, setting_, host, changes) ==
  [action |-> a, setting |-> setting_, host |-> host, changes |-> changes, gap |-> FALSE,
   consent |-> FALSE]

MCScenes ==
  { Scene("RESTART_VAST_SERVICE", Plain, Calm, {"vm", "work", "service"}),
    Scene("RESTART_VAST_SERVICE", [Plain EXCEPT !.caps = {"vast", "docker"}], Calm, {"work", "odd"}),
    Scene("RESTART_DOCKER_SERVICE", Plain, Calm, {"work", "service"}),
    Scene("RESTART_LIBVIRT_SERVICE", Plain, Calm, {"vm", "service"}),
    Scene("RESTART_VAST_CONTAINER", Plain, Calm, {"work", "odd"}),
    Scene("GPU_RESET", Plain, [Calm EXCEPT !.fault = TRUE], {"procs", "unbind", "vm"}),
    Scene("GPU_RESET", [Plain EXCEPT !.index = 1, !.enabled = FALSE], Calm, {"unbind"}),
    Scene("GPU_RESET", Plain, Calm, {"work"}),
    Scene("VM_MODE_ENABLE", Plain, Calm, {"procs", "vm"}),
    Scene("VM_MODE_ENABLE", Plain, Calm, {"work"}),
    Scene("VM_MODE_DISABLE", Plain, Passed, {"vm", "work"}),
    Scene("VM_MODE_DISABLE", [Plain EXCEPT !.script = FALSE], Passed, {"unbind"}),
    Scene("HOST_REBOOT", Plain, [Calm EXCEPT !.fault = TRUE], {"vm", "unbind", "ssh"}),
    Scene("HOST_REBOOT", Plain, Calm, {"work", "disk", "stuck"}),
    Scene("PACKAGE_INSTALL", Plain, Calm, {"package", "locked", "work"}) }
  \cup
  { [action |-> "PACKAGE_INSTALL", setting |-> Plain, host |-> h, changes |-> {"program"},
     gap |-> TRUE, consent |-> TRUE] :
      h \in {Calm, [Calm EXCEPT !.package = "residual"],
             [Calm EXCEPT !.package = "installed", !.program = "path", !.collector = "active"]} }
  \cup
  { [action |-> "PACKAGE_INSTALL", setting |-> [Plain EXCEPT !.needs = "NONE"],
     host |-> [Calm EXCEPT !.package = "nowhere"], changes |-> {"package"}, gap |-> TRUE,
     consent |-> c] : c \in BOOLEAN }

MCVmScenes == {s \in MCScenes : s.action \in VmActions}

\* At most one answer is lost in a preflight, and the host changes in it
\* where a probe that matters has been and another has not.
MCLosses == {{}} \cup {{p} : p \in Probes}
MCCuts   == {2, 3, 7, 8, 10, 11, 15, 17}
=============================================================================
