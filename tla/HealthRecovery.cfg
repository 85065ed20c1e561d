CONSTANTS
  HlProbes = {p1, p2}
SPECIFICATION HlSpec
PROPERTY HlRecovers
