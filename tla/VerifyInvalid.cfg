CONSTANTS
  updater = updater
  boot = boot
  BootFile = boot
  VerifySeq <- MCVerifySeq
  Contents = {"m1", "m2"}
  Releases <- MCReleases
  Missing = Missing
  Garbage = Garbage
  Bad = Bad
  Records <- MCRecords
SPECIFICATION Spec
INVARIANTS InvalidFails
CHECK_DEADLOCK FALSE
