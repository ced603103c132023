SPECIFICATION FairSpec
CONSTANTS
    RunKey = cli
    TurnKey = cli
    SystemKey = system
    MaxConcurrent = 1
    RawAfter = 2
    MaxIterations = 2
    MaxRuns = 3
    MaxSpawns = 2
    Plans <- MCPlans
CHECK_DEADLOCK FALSE
INVARIANTS
  HistoryWellFormed
  LastStepOnRecord
  ArchivedIsNoted
PROPERTIES
  SavedHistoryKept
  MessagesHandled
