----------------------------- MODULE MCHostLock -----------------------------
(***************************************************************************)
(* Three threads on one host; the cfg names those that may ask for WRITE   *)
(* and those that may be cancelled.                                        *)
(***************************************************************************)
EXTENDS HostLock
=============================================================================
