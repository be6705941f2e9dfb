SPECIFICATION Spec
CONSTANTS
  openai = openai
  anthropic = anthropic
  ollama = ollama
  Key = Key
  Nobody = Nobody
  Free = {ollama}
  Requests = {r1, r2}
  Chains <- OnlySmart
  Unpriced <- AllPriced
  Kinds = {"chat"}
  Worst = 1
  Retries = 1
  ProviderCap = 3
  KeyCap = 4
  MaxFaults = 0
  MaxCancels = 0
SYMMETRY RequestSymmetry
INVARIANTS
  BillsStayWithinTheCeiling
CHECK_DEADLOCK FALSE
