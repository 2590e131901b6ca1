SPECIFICATION FairSpec
CONSTANTS
  Inputs = {i1}
  Events = {}
  States = {s1, s2}
  Wanted = {s1}
  StatusEvent = status
  Questions = {q1}
  Jobs = {j1}
  Requests = {r1}
  NoQuestion = noQuestion
  Capacity = 1
  RetainedReceipts = 1
  TerminalCapacity = 1
  PerTurnCapacity = 1
  InitialCycles = 1
  MaxCycles = 3
  MaxSequence = 3
INVARIANTS
  ExactlyOnce
  SleeperHasNothing
  BudgetIsExact
  CompletedSawEverything
  EverythingInstalledAtEnd
PROPERTIES
  InputGetsThrough
  TurnEnds
