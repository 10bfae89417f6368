SPECIFICATION Spec
CHECK_DEADLOCK FALSE
CONSTANT
  Code <- ASCII
  less <- less_by_segment
INVARIANT
  SuitePasses
