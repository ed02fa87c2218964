------------------------------ MODULE MCProxy -------------------------------
(* The answers of llama-server to a request that has 3 of its 8 prompt     *)
(* tokens in the cache and generates 2.                                    *)
EXTENDS Proxy, TLC

MCSpent == [cacheN |-> 3, promptN |-> 5, predictedN |-> 2]

Nothing(usage)    == [cacheN |-> 0, promptN |-> 0, predictedN |-> 0, usage |-> usage]
Timings(n, usage) == [cacheN |-> 3, promptN |-> 5, predictedN |-> n, usage |-> usage]
Used == [prompt |-> 8, completion |-> 2]

Document(chunk) == [stream |-> FALSE, chunks |-> <<chunk>>]
Stream(chunks)  == [stream |-> TRUE, chunks |-> chunks]

MCAnswers ==
  {Document(Timings(2, Used)),
   Document(Nothing(Used)),
   Document(Nothing(NoUsage)),
   Stream(<<Timings(1, NoUsage), Timings(2, NoUsage)>>),
   Stream(<<Timings(2, NoUsage), Nothing(Used)>>),
   Stream(<<Nothing(Used), Timings(2, NoUsage)>>)}

Symmetry == Permutations(Requests) \cup Permutations(Tokens)
=============================================================================
