\* Three requests, one of them a read, and three faults; up to one line of the
\* process's own, of three sorts, more than is skipped; a watchdog with two
\* resources over a timeline of two samples.
SPECIFICATION MCSpec
CONSTANTS
    Tools = {"exec", "read_file"}
    Candidates = 2
    SkipLimit = 2
    MaxStray = 3
    MaxCalls = 3
    MaxFaults = 3
    Resources = {"cpu", "rx"}
    Rates = {0, 1, 2}
    MaxSamples = 2
    Limits = {1, 3}
    StallMin = 2
    StallMax = 4
CHECK_DEADLOCK FALSE
INVARIANTS
  ContainerAsTold
  KilledForCause
PROPERTIES
  AnswersOwn
  CallsAndCommandsEnd
