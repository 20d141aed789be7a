CONSTANTS
  NumberOf <- McNumberOf
  Lists <- Unknown
  Answers <- McAnswers
  Conditions <- McConditions
  MaxAnswers = 4
SPECIFICATION Spec
INVARIANT BranchNeverSinks
CHECK_DEADLOCK FALSE
