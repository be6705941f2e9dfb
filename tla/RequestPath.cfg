SPECIFICATION Spec
CONSTANTS
  openai = openai
  anthropic = anthropic
  ollama = ollama
  Key = Key
  Nobody = Nobody
  Free = {ollama}
  Requests = {r1, r2}
  Chains <- OnlySmart
  Unpriced <- AllPriced
  Kinds = {"chat", "stream"}
  Worst = 2
  Retries = 0
  ProviderCap = 3
  KeyCap = 4
  MaxFaults = 1
  MaxCancels = 1
SYMMETRY RequestSymmetry
INVARIANTS
  TypeOK
  SettledExactly
  CostsStayWithinTheCaps
PROPERTY ImplementsSpendLedgers
CHECK_DEADLOCK FALSE
