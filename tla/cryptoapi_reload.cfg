CONSTANTS c1 = c1  c2 = c2  c3 = c3  c4 = c4  p1 = p1  p2 = p2  d1 = d1
          k1 = k1  k2 = k2  Empty = Empty  NoCtx = NoCtx  NoProv = NoProv
SPECIFICATION Spec
INVARIANT RegisteredProvidersLive
