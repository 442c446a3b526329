\* a short count, two restarts
SPECIFICATION FairSpec
CONSTANTS
  Min = 0
  Max = 5
  Top = 6
  Beats <- PlcBeat
  RestartBudget = 2
INVARIANTS TypeOK QuietTurnsBounded
PROPERTIES KeepsBeating SilenceNoticed
