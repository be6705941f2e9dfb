\* Three requests: one can hold the probe, one report late, one ask meanwhile.
SPECIFICATION FairSpec
CONSTANTS
  Requests = {r1, r2, r3}
  FailureThreshold = 2
  Cooldown = 3
INVARIANTS TypeOK FieldsAgree
PROPERTIES ProbesAreSpaced NotWedged
