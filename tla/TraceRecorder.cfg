SPECIFICATION Spec
CONSTANTS
    Paths = {p, q}
    Modes = {"full", "delta"}
    Batches <- MCBatches
    MaxChanges = 2
    IterationLimits <- MCIterationLimits
    MaxFaults = 1
SYMMETRY MCSymmetry
INVARIANTS
  CheckpointsFaithful
  TraceComplete
