SPECIFICATION Spec
CONSTANTS
  Paths = {p, q}
  Contents = {a, b}
  RebaselineBytes = 1
  Recorders = {"host", "container"}
  Kinds = {"file", "link", "dir"}
  MaxActions = 3
  MaxChanges = 3
SYMMETRY PathSymmetry
INVARIANTS
  ChainFaithful
  FoldOfStableTypes
