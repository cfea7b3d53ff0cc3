CONSTANT Null = Null
SPECIFICATION TamperSpec
INVARIANTS RoundTrip HeaderReadable CodecInBounds ReadAuthentic
