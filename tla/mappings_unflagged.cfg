SPECIFICATION Spec
CONSTANTS
  target = target  source = source
  t1 = t1  t2 = t2  t3 = t3  w = w  c = c
  Frameworks = {target, source}
  Versions = {t1, t2, t3, w}
  FrameworkOf <- TargetAndSource
  Codes = {c}
  Texts = {A, B}
  Links <- OneLink
  Overlap = FALSE
  MaxDeprecations = 0
  NoVersion = NoVersion  NoText = NoText  NoLink = NoLink
PROPERTIES
  ChangedTargetsFlagged
