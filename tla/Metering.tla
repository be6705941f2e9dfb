------------------------------ MODULE Metering ------------------------------
(***************************************************************************)
(* What a request costs: the worst case reserved from its characters, the  *)
(* usage each provider adapter reports, the charge made from it, and the   *)
(* estimate that replaces it when a stream ends early.                     *)
(*                                                                         *)
(* The unit of money is a third of a price unit, so that a third of a      *)
(* token is a whole number.                                                *)
(***************************************************************************)
EXTENDS Integers

CONSTANTS OpenAI, Anthropic, Ollama,
          InPrice, OutPrice,      \* of a token of the hosted models
          Chars,                  \* the characters of a prompt
          Prompts,                \* the tokens such a prompt may have
          MaxOutput,              \* max_tokens
          Attempts,               \* provider_retry_attempts + 1
          Spans,                  \* the characters an output token may have
          Longest                 \* bound on Prompts and Spans

Hosted == {OpenAI, Anthropic}
Providers == Hosted \cup {Ollama}

CharsPerToken == 3

\* Nothing ties the tokens of a text to its characters: the code checks
\* neither, and every text may be as dense or as sparse as these sets say.
ASSUME MeteringAssumption ==
  /\ InPrice \in Nat /\ OutPrice \in Nat
  /\ Chars \in Nat /\ MaxOutput \in Nat \ {0} /\ Attempts \in Nat \ {0}
  /\ Longest \in Nat /\ Prompts \subseteq 1..Longest /\ Spans \subseteq 0..Longest

\* What a provider makes of a request: the tokens it counts in the prompt,
\* those it generates, and the characters of each.
Answers == [prompt : Prompts, tokens : 0..MaxOutput, span : Spans]

Characters(answer) == answer.tokens * answer.span

\* max(1, chars // _CHARS_PER_TOKEN)
EstimatedTokens(chars) == IF chars < CharsPerToken THEN 1 ELSE chars \div CharsPerToken

\* worst_case_cost_usd, times the attempts.
WorstCase(p) ==
  IF p = Ollama THEN 0
  ELSE (Chars * InPrice + CharsPerToken * MaxOutput * OutPrice) * Attempts

\* estimate_cost_usd
Cost(p, usage) ==
  IF p = Ollama THEN 0
  ELSE CharsPerToken * (usage.input * InPrice + usage.output * OutPrice)

\* What the tokens of an answer mean to the provider that counted them.
Usage(answer) == [input |-> answer.prompt, output |-> answer.tokens]

Bill(p, answer) == Cost(p, Usage(answer))

\* The usage of a completion.  OpenAI's may come without: the adapter then
\* estimates it from characters.
ChatUsages(p, answer) ==
  {Usage(answer)} \cup
    IF p = OpenAI
    THEN {[input |-> EstimatedTokens(Chars), output |-> EstimatedTokens(Characters(answer))]}
    ELSE {}

\* The usage of a stream that ran to its end.  OpenAI's may come without, and
\* the generators then keep the zeros they started with.
StreamUsages(p, answer) ==
  {Usage(answer)} \cup IF p = OpenAI THEN {[input |-> 0, output |-> 0]} ELSE {}

\* Faulty version: priced by the chain's name, which has no price.
AbortCostOfChainName(p, input, chars) == 0

\* Faulty version: a token for every character.
AbortCostOfCharacters(p, input, chars) == Cost(p, [input |-> input, output |-> chars])

\* _settle_stream_on_abort: the input tokens known so far, which are none
\* before the last chunk, and the output by its characters.
AbortCost(p, input, chars) ==
  Cost(p, [input |-> input, output |-> EstimatedTokens(chars)])

=============================================================================
