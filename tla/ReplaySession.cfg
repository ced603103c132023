\* Traces of three actions, of an agent and a subagent, one fault.
SPECIFICATION Spec
CONSTANTS
    p = p
    q = q
    x = x
    Paths = {p, q}
    Contents = {x}
    Absent = Absent
    Image <- MCImage
    SourceActions <- MCSourceActions
    MaxActions = 3
    MaxFaults = 1
CHECK_DEADLOCK FALSE
INVARIANTS
  ComparedWithRecorded
  ContinuedIsRecorded
  ReportFaithful
