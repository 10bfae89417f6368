SPECIFICATION Spec
CHECK_DEADLOCK FALSE
CONSTANT
  Code <- ASCII
INVARIANTS
  OnlyOrderBySegmentFails
