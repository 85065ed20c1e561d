CONSTANTS
  h1 = h1
  h2 = h2
  h3 = h3
  p1 = p1
  p2 = p2
  a1 = a1
  a2 = a2
  Procs = {p1, p2}
  Handlers = {h1, h2, h3}
  Home <- MCHome
  Agents = {a1, a2}
  MaxEvents = 4
SPECIFICATION Spec
INVARIANT TypeOK
INVARIANT ChainsGrounded
INVARIANT QuietChainLinear
