-------------------------- MODULE SchemaMigration ---------------------------
(***************************************************************************)
(* Database.migrate: every process that opens the database brings it to    *)
(* the last version, script by script (storage/migrations.py).  sqlite     *)
(* commits each statement of a script for itself, and the version after    *)
(* the whole script, so that processes interleave between statements and a *)
(* death leaves what was done.  No statement can be done twice: to create  *)
(* a table or to add a column that is there is an error, and ends the      *)
(* process.                                                                *)
(***************************************************************************)
EXTENDS Naturals, Sequences

CONSTANTS Processes,
          Statements \* the number of statements of each script

\* Script 1 creates schema_version and sets it to 1 before its other tables.
ASSUME StatementsAssumption ==
  /\ Statements \in Seq(Nat \ {0}) /\ Len(Statements) >= 1 /\ Statements[1] >= 2

VARIABLES version, \* the row of schema_version, 0 if there is none
          applied, \* how many statements of each script were executed
          hand,    \* what each process is at
          orderly  \* history: one process at a time, and none died in a script
schemaVars == <<version, applied, hand, orderly>>

Last     == Len(Statements)
Versions == 1..Last
At(at, script, done) == [at |-> at, script |-> script, done |-> done]
Script(p) == hand[p].script
InScript(p) == hand[p].at \in {"script", "bump"}
\* p has left its mark on the tables and not yet on the version
Torn(p) == hand[p].at = "bump" \/ (hand[p].at = "script" /\ hand[p].done > 0)

SchemaInit ==
  /\ version = 0 /\ applied = [k \in Versions |-> 0]
  /\ hand = [p \in Processes |-> At("off", 0, 0)] /\ orderly = TRUE

Place(p, at, script, done) == hand' = [hand EXCEPT ![p] = At(at, script, done)]
After(p, script) == IF script < Last THEN Place(p, "script", script + 1, 0)
                    ELSE Place(p, "migrated", 0, 0)
-----------------------------------------------------------------------------
Connect(p) ==
  /\ hand[p].at = "off"
  /\ Place(p, "reading", 0, 0)
  /\ UNCHANGED <<version, applied, orderly>>

\* A schema_version without its row is an error.
ReadVersion(p) ==
  /\ hand[p].at = "reading"
  /\ IF applied[1] = 1 THEN Place(p, "gone", 0, 0) ELSE After(p, version)
  /\ orderly' = (orderly /\ (version < Last => \A q \in Processes : ~InScript(q)))
  /\ UNCHANGED <<version, applied>>

Execute(p) ==
  LET k == Script(p)
      n == hand[p].done + 1
  IN  /\ hand[p].at = "script"
      /\ IF applied[k] >= n
         THEN Place(p, "gone", 0, 0) /\ UNCHANGED <<version, applied>>
         ELSE /\ applied' = [applied EXCEPT ![k] = n]
              /\ version' = IF k = 1 /\ n = 2 THEN 1 ELSE version
              /\ Place(p, IF n = Statements[k] THEN "bump" ELSE "script", k, n)
      /\ UNCHANGED orderly

\* seeded fault: the version that the loop will reach, not that of the script
BumpToLast(p) ==
  /\ hand[p].at = "bump"
  /\ version' = Last
  /\ After(p, Script(p))
  /\ UNCHANGED <<applied, orderly>>

\* UPDATE schema_version
Bump(p) ==
  /\ hand[p].at = "bump"
  /\ version' = Script(p)
  /\ After(p, Script(p))
  /\ UNCHANGED <<applied, orderly>>

Exit(p) ==
  /\ hand[p].at \notin {"off", "gone"}
  /\ Place(p, "gone", 0, 0)
  /\ orderly' = (orderly /\ ~Torn(p))
  /\ UNCHANGED <<version, applied>>

MigrationStep(p) == ReadVersion(p) \/ Execute(p) \/ Bump(p)
-----------------------------------------------------------------------------
Hands == [at : {"off", "reading", "script", "bump", "migrated", "gone"},
          script : 0..Last, done : Nat]

SchemaTypeOK ==
  /\ version \in 0..Last /\ applied \in [Versions -> Nat] /\ orderly \in BOOLEAN
  /\ \A k \in Versions : applied[k] <= Statements[k]
  /\ hand \in [Processes -> Hands]
  /\ \A p \in Processes : InScript(p) => Script(p) \in Versions /\ hand[p].done <= Statements[Script(p)]

Whole(k) == applied[k] = Statements[k]

\* The version never promises more than the tables hold, however processes
\* interleave and die, but for the tables of the first script, which sets the
\* version before it creates them.  And as long as processes migrate one at a
\* time and none dies in a script, the next one can go on from the version.
SchemaHonest ==
  /\ \A k \in 2..version : Whole(k)
  /\ version > 0 => applied[1] >= 2
  /\ orderly /\ (\A p \in Processes : ~InScript(p)) =>
       \A k \in Versions : IF k <= version THEN Whole(k) ELSE applied[k] = 0
=============================================================================
