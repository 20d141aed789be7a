SPECIFICATION Spec
CONSTANTS
  f1 = f1  v1 = v1  v2 = v2
  ann = ann  mod = mod  root = root
  c1 = c1  c2 = c2
  Frameworks = {f1}
  Versions = {v1}
  FrameworkOf <- OneFramework
  PublicFrameworks = {f1}
  Users = {ann, mod}
  Reviewers = {mod}
  Admins = {mod}
  Codes = {c1, c2}
  Texts = {A}
  Keys = {k1}
  AuditStatuses = {}
  Sessions = {s1, s2}
  NoUser = NoUser  NoVersion = NoVersion  NoText = NoText  NoKey = NoKey
  MaxFeed = 4
  MaxClock = 4
SYMMETRY Interchangeable
INVARIANTS
  ReviewedContentIsPublished
CHECK_DEADLOCK FALSE
