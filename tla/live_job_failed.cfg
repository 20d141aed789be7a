SPECIFICATION Spec
CONSTANTS
  i1 = i1  i2 = i2  f = f  gen = gen  tr1 = tr1  tr2 = tr2  qa = qa
  Instances = {i1, i2}
  Jobs = {tr1}
  Frameworks = {f}
  KindOf <- KindMC
  FrameworkOf <- OneFramework
  Ensured = {tr1}
  Unstorable = {}
  Slots = 1
  MaxCrashes = 1
  MaxFailures = 0
  NoInstance = NoInstance
INVARIANTS
  LiveJobNotFailed
CHECK_DEADLOCK FALSE
