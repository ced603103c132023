SPECIFICATION Spec
CONSTANTS
  a = a
  b = b
  c = c
  A = A
  B = B
  none = none
  NoImage = none
  Images <- MCImages
  ImageName <- MCImageName
  TaskLists <- MCTaskLists
  Concurrencies = {1, 2}
  MaxInvocations = 2
  MaxKills = 1
  MaxFaults = 1
INVARIANTS
  FinishedOnce
  ImagesInHand
PROPERTIES
  AttemptsKept
  ResultsFaithful
