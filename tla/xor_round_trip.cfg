CONSTANT Null = Null
SPECIFICATION Spec
INVARIANT RoundTrip
