SPECIFICATION Spec
CONSTANTS
  i1 = i1  i2 = i2  f = f  gen = gen  tr1 = tr1  tr2 = tr2  qa = qa
  Instances = {i1, i2}
  Jobs = {gen, tr1, qa}
  Frameworks = {f}
  KindOf <- KindMC
  FrameworkOf <- OneFramework
  Ensured = {tr1}
  Unstorable = {gen}
  Slots = 1
  MaxCrashes = 1
  MaxFailures = 1
  NoInstance = NoInstance
INVARIANTS
  TypeOK
  DoneHasEffect
  OutcomeKept
PROPERTIES
  DoneIsFinal
  JobsEnd
CHECK_DEADLOCK FALSE
