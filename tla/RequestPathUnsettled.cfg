SPECIFICATION Spec
CONSTANTS
  openai = openai
  anthropic = anthropic
  ollama = ollama
  Key = Key
  Nobody = Nobody
  Free = {ollama}
  Requests = {r1}
  Chains <- OnlySmart
  Unpriced <- AllPriced
  Kinds = {"chat"}
  Worst = 1
  Retries = 1
  ProviderCap = 3
  KeyCap = 4
  MaxFaults = 0
  MaxCancels = 1
INVARIANTS
  EveryReserveSettles
CHECK_DEADLOCK FALSE
