\* Clients and administrators at buckets of one token, with and without
\* refill; stamps lag by up to a tick.
SPECIFICATION Spec
CONSTANTS
  Requests = {r1, r2, r3}
  EnvKeys = {env}
  DbKeys = {db}
  Strangers = {stranger}
  AdminApi = admin
  Capacity = 1
  Margin = 1
  IdleTime = 2
  MaxLag = 1
  Rates = {0, 1}
  LastTick = 3
  MaxFaults = 1
SYMMETRY RequestSymmetry
INVARIANTS TypeOK RateBound StrangersLeaveNoBucket AnswersCostTokens RevokedStaysOut TrailMatchesKeys
PROPERTIES ImplementsTokenBuckets WaitingPays
CHECK_DEADLOCK FALSE
