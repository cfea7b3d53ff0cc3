CONSTANT Null = Null
CONSTANT MC_PageSizes <- MC_GrowPageSizes
SPECIFICATION Spec
INVARIANT CodecInBounds
