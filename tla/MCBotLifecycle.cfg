SPECIFICATION Spec
CONSTANTS
  b1 = b1
  b2 = b2
  ask = ask
  c1 = c1
  c2 = c2
  c3 = c3
  p1 = p1
  p2 = p2
  Bots <- MCBots
  Processes <- MCProcesses
  Commands <- MCCommands
  Pids <- MCPids
  Statements <- MCStatements
SYMMETRY Alike
CONSTRAINT Few
INVARIANTS
  BotNamed
  SchemaHonest
  OnlyTheDeadInterrupted
CHECK_DEADLOCK FALSE
