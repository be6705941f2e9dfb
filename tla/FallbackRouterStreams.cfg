SPECIFICATION Spec
CONSTANTS
  p1 = p1
  p2 = p2
  Requests = {r1, r2}
  Chain <- OneHop
  Skips <- NoSkip
  Kinds = {"stream"}
  Retries = 1
  FailureThreshold = 2
  Cooldown = 1
SYMMETRY RequestSymmetry
INVARIANT OutageTripsBreaker
