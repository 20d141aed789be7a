SPECIFICATION Spec
CONSTANTS
  f = f  v1 = v1  v2 = v2
  oldText = oldText  newText = newText
  Frameworks = {f}
  Versions = {v1, v2}
  FrameworkOf <- Two
  TextOf <- TwoTexts
  NoVersion = NoVersion  Torn = Torn
  PageSize = 2
  MaxFaults = 1
  MaxCrashes = 0
INVARIANTS
  FailedPullIsRetried
CHECK_DEADLOCK FALSE
