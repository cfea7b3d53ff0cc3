CONSTANT Null = Null
SPECIFICATION Spec
INVARIANT KeyMatchesCodec
CHECK_DEADLOCK FALSE
