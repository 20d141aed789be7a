SPECIFICATION FairSpec
CONSTANTS
  f = f  v1 = v1  v2 = v2
  oldText = oldText  newText = newText
  Frameworks = {f}
  Versions = {v1, v2}
  FrameworkOf <- Two
  TextOf <- TwoTexts
  NoVersion = NoVersion  Torn = Torn
  PageSize = 2
  MaxFaults = 1
  MaxCrashes = 2
INVARIANTS
  NothingSkipped
  NewestIsHeld
  WithdrawnIsDropped
PROPERTIES
  UpgradeHasDelta
  CatchesUp
CHECK_DEADLOCK FALSE
