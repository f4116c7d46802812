--------------------------- MODULE MCBotLifecycle ---------------------------
(* Two bots and an ask; two scripts stand for the eight of migrations.py. *)
EXTENDS BotLifecycle, FiniteSets, TLC

CONSTANTS b1, b2, ask, c1, c2, c3, p1, p2

MCBots       == {b1, b2}
MCProcesses  == {b1, b2, ask}
MCCommands   == {c1, c2, c3}
MCPids       == {p1, p2}
MCStatements == <<3, 2>>
Alike == Permutations(MCBots) \cup Permutations(MCCommands) \cup Permutations(MCPids)

\* Bounds: three commands, or two and an ask; one stranger at a time.
Few == /\ Cardinality({c \in Commands : cmd[c].pc # "idle"})
          + Cardinality({a \in Asks : hand[a].at # "off"}) <= 3
       /\ Cardinality(strangers) <= 1
=============================================================================
