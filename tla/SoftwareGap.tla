---------------------------- MODULE SoftwareGap -----------------------------
(***************************************************************************)
(* From the READs of an investigation to the request to install a package: *)
(* the answers of query_package, query_executable and query_service        *)
(* (agent/host_read.py), what capability_bridge.py makes of them, and the  *)
(* state machine of capability_state.py.                                   *)
(***************************************************************************)
EXTENDS HostProbes, Sequences

Queries == {"query_package", "query_executable", "query_service"}
Facts   == {"yes", "no", "inactive", "unknown"}

\* How a command ends that looks for w.package, w.program or its service;
\* "candidates" stands for the places tried when which has no answer.
Answers(command, w) ==
  CASE command = "dpkg_query" -> w.package \in {"installed", "residual"}
    [] command = "which"      -> w.program = "path"
    [] command = "candidates" -> w.program \in {"path", "local"}
    [] OTHER                  -> TRUE

Probe(command, w, lost) ==
  CASE ~w.ssh \/ command \in lost -> "lost"
    [] Answers(command, w)        -> "ok"
    [] OTHER                      -> "no"

QueryPackage(w, lost) ==
  CASE Probe("dpkg_query", w, lost) = "lost" -> "unknown"
    [] Probe("dpkg_query", w, lost) = "ok" /\ w.package = "installed" -> "yes"
    [] OTHER -> "no"

\* _resolve_executable: no to which, or nothing from the places after it
QueryExecutable(w, lost) ==
  CASE "ok" \in {Probe("which", w, lost), Probe("candidates", w, lost)} -> "yes"
    [] Probe("which", w, lost) = "no" -> "no"
    [] OTHER -> "unknown"

QueryService(w, lost) ==
  CASE Probe("show", w, lost) = "lost" -> "unknown"
    [] w.collector = "absent"   -> "no"
    [] w.collector = "inactive" -> "inactive"
    [] OTHER -> "yes"

Query(tool, w, lost) ==
  CASE tool = "query_package"    -> QueryPackage(w, lost)
    [] tool = "query_executable" -> QueryExecutable(w, lost)
    [] tool = "query_service"    -> QueryService(w, lost)
-----------------------------------------------------------------------------
\* ground_capability_gap: evidence maps each query to the records of the
\* session, in their order.  Only a record that is alone counts.
Sole(evidence, tool) ==
  IF Len(evidence[tool]) = 1 THEN evidence[tool][1] ELSE "unknown"

\* seeded fault: a package that is absent is reason enough
SoftwareByPackage(evidence) ==
  CASE Sole(evidence, "query_package") = "no"  -> "missing"
    [] Sole(evidence, "query_package") = "yes" -> "available"
    [] OTHER -> "unknown"

Software(evidence) ==
  LET package == Sole(evidence, "query_package")
      program == Sole(evidence, "query_executable")
  IN  CASE package = "no"  /\ program = "no"  -> "missing"
        [] package = "yes" /\ program = "yes" -> "available"
        [] OTHER -> "unknown"

Service(evidence, needs) ==
  IF needs = "NONE" THEN "not_required"
  ELSE CASE Sole(evidence, "query_service") = "yes"      -> "active"
         [] Sole(evidence, "query_service") = "inactive" -> "inactive"
         [] Sole(evidence, "query_service") = "no"       -> "unavailable"
         [] OTHER -> "unknown"

\* capability_state, with a READ tool that is there
Overall(software, service, needs) ==
  CASE software = "missing" -> "missing"
    [] software = "unknown" -> "unknown"
    [] software = "available" /\ service = "unknown" -> "unknown"
    [] software = "available" /\ needs = "ACTIVE" /\ service \in {"inactive", "unavailable"} -> "degraded"
    [] software = "available" /\ needs = "INSTALLED" /\ service = "unavailable" -> "degraded"
    [] OTHER -> "available"

Gap(evidence, needs) == Overall(Software(evidence), Service(evidence, needs), needs)

\* request_for_gap: consent is in the words of the owner, sure is the
\* confidence the model states.
RequestForGap(evidence, consent, sure) == consent /\ sure /\ Software(evidence) = "missing"
=============================================================================
