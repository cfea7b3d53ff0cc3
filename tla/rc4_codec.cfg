CONSTANT Null = Null
SPECIFICATION Spec
INVARIANTS RoundTrip HeaderReadable
