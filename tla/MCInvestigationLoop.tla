------------------------ MODULE MCInvestigationLoop ------------------------
\* One executable, asked for in every way that matters to the continuation.
EXTENDS InvestigationLoop

Of(tool, path, argv, form) ==
  [tool |-> tool, exe |-> IF tool \in {"find", "run"} THEN "e" ELSE None, path |-> path,
   argv |-> argv, form |-> form]

MCAsked ==
  {Of("find", FALSE, None, "full"), Of("find", FALSE, None, "brief"),
   Of("find", FALSE, "a", "full"), Of("run", FALSE, "a", "full"), Of("run", TRUE, "a", "full"),
   Of("unknown", FALSE, None, "full")}
=============================================================================
