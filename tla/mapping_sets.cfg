SPECIFICATION Spec
CONSTANTS
  a = a  p1 = p1  p2 = p2
  Versions = {1, 2}
  Targets = {1, 2}
  Refs = {a}
  Pins = {0}
  Publishers = {p1}
  MaxEvents = 3
  NoRef = NoRef
  NoSet = NoSet
INVARIANTS
  FollowerHoldsLast
CHECK_DEADLOCK FALSE
