\* One request that may write two rows, and no failure.
SPECIFICATION Spec
CONSTANTS
  OpenAI = openai
  Anthropic = anthropic
  Ollama = ollama
  InPrice = 1
  OutPrice = 1
  Chars = 3
  Prompts = {1}
  MaxOutput = 1
  Attempts = 1
  Spans = {3}
  Longest = 3
  Requests = {r1}
  MaxFaults = 0
INVARIANT NothingRemovedWithoutCopy
CHECK_DEADLOCK FALSE
