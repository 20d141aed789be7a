SPECIFICATION Spec
CONSTANTS
  i1 = i1  i2 = i2  f = f  gen = gen  tr1 = tr1  tr2 = tr2  qa = qa
  Instances = {i1}
  Jobs = {qa}
  Frameworks = {f}
  KindOf <- KindMC
  FrameworkOf <- OneFramework
  Ensured = {}
  Unstorable = {}
  Slots = 1
  MaxCrashes = 0
  MaxFailures = 1
  NoInstance = NoInstance
PROPERTIES
  AuditJobsEnd
CHECK_DEADLOCK FALSE
