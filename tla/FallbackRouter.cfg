SPECIFICATION Spec
CONSTANTS
  p1 = p1
  p2 = p2
  Requests = {r1, r2}
  Chain <- TwoHops
  Skips <- MaybeFirst
  Kinds = {"chat", "stream"}
  Retries = 1
  FailureThreshold = 2
  Cooldown = 1
SYMMETRY RequestSymmetry
INVARIANT TypeOK
INVARIANT OneVoice
INVARIANT CallsFitTheClaim
PROPERTIES ImplementsCircuitBreakers TrialsAreSpaced
