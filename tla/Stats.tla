------------------------------- MODULE Stats --------------------------------
(***************************************************************************)
(* What lim takes down of an answer (proxy/stats.go). llama-server reports *)
(* what it did in a `timings' object, in an OpenAI `usage' object or in    *)
(* both, in one JSON document or in any of the chunks of an event stream.  *)
(* A chunk is a record of the numbers in it: the three of `timings', all 0 *)
(* if it has none, and `usage'. The rates and the drafts go with them.     *)
(***************************************************************************)
EXTENDS Integers, Sequences, SequencesExt

CONSTANT NoUsage  \* a chunk without a `usage' object

Numbers == [cacheN : Nat, promptN : Nat, predictedN : Nat]
Usage   == [prompt : Nat, completion : Nat]
Chunk   == [cacheN : Nat, promptN : Nat, predictedN : Nat, usage : Usage \cup {NoUsage}]

ASSUME NoUsageIsNone == NoUsage \notin Usage

NoStats == [cacheN |-> 0, promptN |-> 0, predictedN |-> 0]

\* Mutant: usage is preferred to timings.
FromLlamaResp_UsageFirst(chunk) ==
  [cacheN     |-> chunk.cacheN,
   promptN    |-> IF chunk.usage # NoUsage THEN chunk.usage.prompt ELSE chunk.promptN,
   predictedN |-> chunk.predictedN]

\* timings; without prompt_n in it, the two numbers of usage
FromLlamaResp(chunk) ==
  LET fallback == chunk.promptN = 0 /\ chunk.usage # NoUsage IN
    [cacheN     |-> chunk.cacheN,
     promptN    |-> IF fallback THEN chunk.usage.prompt ELSE chunk.promptN,
     predictedN |-> IF fallback THEN chunk.usage.completion ELSE chunk.predictedN]

Carries(stats) == stats.predictedN > 0 \/ stats.promptN > 0 \/ stats.cacheN > 0

\* the last chunk that carries anything wins; [DONE] and others carry nothing
ExtractStreamStats(body) ==
  LET last == SelectLastInSeq(body, LAMBDA chunk : Carries(FromLlamaResp(chunk)))
  IN  IF last = 0 THEN NoStats ELSE FromLlamaResp(body[last])

\* What is made of the chunks that were captured whole. The rest of a chunk
\* is no JSON, and of a document that is not a stream there is only one.
ExtractStats(stream, body) ==
  CASE stream \/ body = <<>> -> ExtractStreamStats(body)
    [] OTHER -> FromLlamaResp(body[1])
=============================================================================
