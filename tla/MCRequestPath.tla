----------------------------- MODULE MCRequestPath -----------------------------
(* Instances of RequestPath for TLC: the chains of model_map.py. *)
EXTENDS RequestPath, TLC

CONSTANTS openai, anthropic, ollama

\* "default" and "fast"
Default == <<openai, anthropic, ollama>>

\* "smart"
Smart == <<anthropic, openai>>

OnlyDefault == {Default}
OnlySmart == {Smart}
BothChains == {Default, Smart}

AllPriced == {{}}
MaybeUnpriced == {{}, {anthropic}}

RequestSymmetry == Permutations(Requests)

=============================================================================
