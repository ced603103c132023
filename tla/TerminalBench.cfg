SPECIFICATION TbFairSpec
CONSTANTS
  HasDeadline = TRUE
  HasCompose = TRUE
INVARIANTS
  NothingLeft
PROPERTIES
  EndsCleaned
