SPECIFICATION Spec
CONSTANTS
  Vars <- MCVars
  Walked = "p"
  InputTexts <- MCInputTexts
  Code <- MCCode
  less <- less_by_segment
  MaxLen = 5
INVARIANT
  OrderAgreesWithEquality
