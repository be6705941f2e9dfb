\* Two requests and one failure; three characters that are one token, answers of
\* up to one token of three or six characters.
SPECIFICATION Spec
CONSTANTS
  OpenAI = openai
  Anthropic = anthropic
  Ollama = ollama
  InPrice = 1
  OutPrice = 1
  Chars = 3
  Prompts = {1}
  MaxOutput = 1
  Attempts = 1
  Spans = {3, 6}
  Longest = 6
  Requests = {r1, r2}
  MaxFaults = 1
VIEW WithoutGhosts
SYMMETRY RequestSymmetry
CONSTRAINT OneScriptAtATime
INVARIANTS TypeOK LowIsOnlyOverlap QuietBooksAgree OverrunsAreUnusual 
CHECK_DEADLOCK FALSE
