CONSTANTS
  Count = 2
  Sections = {s}
  CategoryOf <- MCCategoryOf
  Shapes <- MCShapes
  Present <- MCPresent
  Editors = {e1, e2}
  Tasks = {t1, t2}
  MaxStarts = 3
  MaxEdits = 2
SPECIFICATION Spec
SYMMETRY Symmetry
INVARIANT FollowUpsResolve
CHECK_DEADLOCK FALSE
