CONSTANTS
  h1 = h1
  h2 = h2
  a1 = a1
  s1 = s1
  s2 = s2
  low = low
  high = high
  other = other
  read = read
  write = write
  r1 = r1
  Handlers = {h1, h2}
  Agents = {a1}
  SPs = {s1, s2}
  Caps = {low, high, other}
  Keys = {read, write}
  TypeKey <- MCTypeKey
  Lists <- OneList
  MaxPending = 1
  MaxGrants = 2
  Replicas = {}
SYMMETRY Symmetry
SPECIFICATION Spec
INVARIANT PendingOvershootBounded
