CONSTANTS
  h1 = h1
  h2 = h2
  g1 = g1
  s1 = s1
  s2 = s2
  n1 = n1
  n2 = n2
  r1 = r1
  Handlers = {h1, h2}
  Grants = {g1}
  SPs = {s1}
  GrantSP <- MCGrantSP
  Nonces = {}
  Lifetime = 1
  Window = 0
  Skew = 0
  NonceTTL = 1
  MaxTokens = 2
  MaxTime = 1
  Replicas = {}
SYMMETRY Symmetry
SPECIFICATION Spec
INVARIANT IssueBurstBounded
