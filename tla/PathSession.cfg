SPECIFICATION Spec
CONSTANTS
  Vars <- MCVars
  Walked = "p"
  InputTexts <- MCInputTexts
  Code <- MCCode
  MaxLen = 5
INVARIANTS
  TypeOK
  WalkFollowsSegments
  CombineJoinsNames
  ChildIsLastSegment
