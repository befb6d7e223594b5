SPECIFICATION Spec
CONSTANTS
  Sessions = {s1, s2}
  Methods = {"GET", "POST"}
  Targets = {"/health", "/metrics", "/x"}
  Upstreams = {"u1", "u2"}
  Word = 4
INVARIANTS CountersExact GaugeNeverWraps PageCoherent
SYMMETRY SessionSymmetry
