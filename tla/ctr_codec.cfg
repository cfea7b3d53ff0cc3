CONSTANT Null = Null
CONSTANT MC_MallocOutcomes <- MC_MallocMayFail
SPECIFICATION Spec
INVARIANTS RoundTrip HeaderReadable
