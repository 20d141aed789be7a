SPECIFICATION Spec
CONSTANTS
  a = a  b = b  x = x  r1 = r1  r2 = r2
  equivalent = equivalent  subset = subset
  Versions = {1, 2}
  Targets = {1, 2}
  Refs = {a}
  TargetRefs = {x}
  Invented = Invented
  Relations = {equivalent, subset}
  HandPins = {1}
  Runs = {r1}
  MaxEdits = 1
CONSTRAINT Narrow
SYMMETRY RelationsAlike
PROPERTIES
  DecisionKept
  LedgerLosesNothing
  AcceptedIsMapped
CHECK_DEADLOCK FALSE
