CONSTANTS
  Count = 2
  Sections = {s}
  CategoryOf <- MCCategoryOf
  Shapes <- MCShapes
  Present <- MCPresent
  Editors = {e1}
  Tasks = {t1, t2}
  MaxStarts = 3
  MaxEdits = 0
SPECIFICATION Spec
SYMMETRY Symmetry
INVARIANT PublishedTemplateReady
CHECK_DEADLOCK FALSE
