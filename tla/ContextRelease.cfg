SPECIFICATION Spec
INVARIANT Released
CHECK_DEADLOCK FALSE
