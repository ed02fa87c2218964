------------------------------ MODULE Relabel -------------------------------
(***************************************************************************)
(* What GET /metrics does to the metrics of the running llama-server       *)
(* before it appends them to lim's own: each sample gets a label           *)
(* model="..." (metrics.go relabel and injectLabel). A line is a sequence  *)
(* of characters: "open" and "close" (the braces), "comma", "sp" (a        *)
(* blank), "hash" (#), "eq" (=), "quote", and letters; the label is a      *)
(* character by itself.                                                    *)
(***************************************************************************)
EXTENDS Integers, Sequences, SequencesExt

CONSTANTS Values,     \* the label values in the samples
          MaxLabels,  \* how many labels a sample has (a bound of the model)
          MaxLines    \* how many lines an answer has (a bound of the model)

ASSUME BoundsAreNat == {MaxLabels, MaxLines} \subseteq Nat
ASSUME ValuesAreTexts == Values \subseteq Seq(STRING)

-----------------------------------------------------------------------------
(* What llama-server writes: samples and comments, by their parts.  This   *)
(* is the one layout its exporter uses; tabs, blanks before the brace or   *)
(* within the labels and a comma after the last one are not among them.    *)
Lines ==
  [kind : {"sample"}, labels : UNION {[1..k -> Values] : k \in 0..MaxLabels},
   braces : BOOLEAN]
  \cup [kind : {"comment", "blank"}]

Texts == UNION {[1..k -> Lines] : k \in 0..MaxLines}

Label(value) == <<"l", "eq", "quote">> \o value \o <<"quote">>

Joined(labels) ==
  FoldLeft(LAMBDA sofar, l : IF sofar = <<>> THEN l ELSE sofar \o <<"comma">> \o l,
           <<>>, labels)

\* the line of characters; a sample without labels may have empty braces
Written(line, extra) ==
  CASE line.kind = "blank"   -> <<>>
    [] line.kind = "comment" -> <<"hash", "sp", "n">>
    [] line.kind = "sample"  ->
         LET labels == [i \in DOMAIN line.labels |-> Label(line.labels[i])] \o extra
         IN  <<"n">>
             \o (IF labels # <<>> \/ line.braces
                 THEN <<"open">> \o Joined(labels) \o <<"close">> ELSE <<>>)
             \o <<"sp", "1">>

WrittenText(text) == [i \in DOMAIN text |-> Written(text[i], <<>>)]

\* which injectLabel takes for the end of the labels
BraceInValue(line) ==
  line.kind = "sample" /\ \E i \in DOMAIN line.labels : "close" \in ToSet(line.labels[i])

-----------------------------------------------------------------------------
\* strings.IndexAny: the first of the characters in cs, 0 if there is none
IndexAny(line, cs) == SelectInSeq(line, LAMBDA c : c \in cs)

From(line, i) == SubSeq(line, i, Len(line))

\* Mutant: the comma is written even between empty braces.
Join_Always(inner, label) == inner \o <<"comma", label>>

Join(inner, label) == IF inner = <<>> THEN <<label>> ELSE inner \o <<"comma", label>>

InjectLabel(line, label) ==
  LET i    == IndexAny(line, {"sp", "open"})
      name == IF i = 0 THEN line ELSE SubSeq(line, 1, i - 1)
      rest == From(line, Len(name) + 1)
      end  == IndexAny(rest, {"close"}) IN
    IF rest # <<>> /\ rest[1] = "open"
    THEN IF end = 0 THEN line
         ELSE name \o <<"open">> \o Join(SubSeq(rest, 2, end - 1), label) \o From(rest, end)
    ELSE name \o <<"open", label, "close">> \o rest

\* the line has more than blanks, and the first that is not one is no #
IsSample(line) ==
  \E i \in DOMAIN line :
    line[i] \notin {"sp", "hash"} /\ \A j \in 1..(i - 1) : line[j] = "sp"

RelabelText(text, label) ==
  [i \in DOMAIN text |->
     IF IsSample(text[i]) THEN InjectLabel(text[i], label) ELSE text[i]]
=============================================================================
