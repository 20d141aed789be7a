CONSTANTS
  Count = 2
  Sections = {s}
  CategoryOf <- MCCategoryOf
  Shapes <- MCShapes
  Present <- MCPresent
  Editors = {e1}
  Tasks = {t1, t2}
  MaxStarts = 3
  MaxEdits = 1
SPECIFICATION Spec
SYMMETRY Symmetry
INVARIANTS TypeOK FollowUpsResolve
PROPERTIES EditHitsItsQuestion GenerationCovers
CHECK_DEADLOCK FALSE
