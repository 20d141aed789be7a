CONSTANTS
  NumberOf <- McNumberOf
  Lists <- Known
  Answers <- McAnswers
  Conditions <- McConditions
  MaxAnswers = 4
SPECIFICATION Spec
INVARIANTS VerdictFollowsRules BuiltAuditIsValid
CHECK_DEADLOCK FALSE
