SPECIFICATION FairSpec
CONSTANTS
  openai = openai
  anthropic = anthropic
  ollama = ollama
  Key = Key
  Nobody = Nobody
  Free = {ollama}
  Requests = {r1}
  Chains <- BothChains
  Unpriced <- MaybeUnpriced
  Kinds = {"chat", "stream", "openai"}
  Worst = 1
  Retries = 1
  ProviderCap = 3
  KeyCap = 4
  MaxFaults = 2
  MaxCancels = 2
INVARIANTS
  OpenBillsAreClaimed
  CountedOnce
  KnownCostIsKept
PROPERTY EveryRequestEnds
CHECK_DEADLOCK FALSE
