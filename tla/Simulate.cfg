SPECIFICATION FairSimSpec
CONSTANTS
  NumSessions = 3
  Concurrency = 2
  HostSessions = {1}
  FaultKinds = {"prepare", "record", "replay", "stop", "write"}
  img1 = img1
  img2 = img2
  NoImage = NoImage
  Images <- MCImages
  ImageChoices <- MCImageChoices
  IdChoices <- MCIdChoices
  Faults = {"load", "pull", "build", "waves", "lost", "combine", "split", "sampler", "remove"}
INVARIANTS
  RecorderFollowsContainers
  ImagesAccounted
  RemovedAfterReplays
  FilesComplete
PROPERTIES
  SimulateEnds
