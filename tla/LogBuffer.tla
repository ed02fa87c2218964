----------------------------- MODULE LogBuffer ------------------------------
(***************************************************************************)
(* Where the output of llama-server goes when lim streams it (instance.go  *)
(* and startLocked): os/exec copies stdout and stderr, each in a goroutine *)
(* of its own, to an io.MultiWriter of the ring buffer they share and a    *)
(* prefixWriter of their own, which writes whole lines to the terminal.    *)
(* If the terminal fails the copying of that stream ends.                  *)
(*                                                                         *)
(* A byte is "nl" (\n), "cr" (\r), "sp" (a blank), "tab" or a visible one; *)
(* "prefix" stands for the prefix on the terminal.                         *)
(***************************************************************************)
EXTENDS Integers, Sequences, SequencesExt, FiniteSetsExt

CONSTANTS Bytes,     \* the bytes the process writes
          RingCap,   \* the ring buffer's maxBytes
          MaxChunk,  \* the longest single write (a bound of the model)
          MaxOutput  \* how much the process writes (a bound of the model)

ASSUME BoundsArePositive == {RingCap, MaxChunk, MaxOutput} \subseteq Nat \ {0}

Streams == {"stdout", "stderr"}

VARIABLES
  output,    \* all that was copied to the ring buffer, in that order
  produced,  \* what was copied from each stream
  ring,      \* ringBuffer.buf
  partial,   \* prefixWriter.buf of each stream
  terminal,  \* what each stream has on the terminal
  copying    \* the streams that are still copied

vars == <<output, produced, ring, partial, terminal, copying>>

Chunks == UNION {[1..k -> Bytes] : k \in 1..MaxChunk}

Init ==
  /\ output = <<>> /\ ring = <<>>
  /\ produced = [s \in Streams |-> <<>>]
  /\ partial = [s \in Streams |-> <<>>]
  /\ terminal = [s \in Streams |-> <<>>]
  /\ copying = Streams

-----------------------------------------------------------------------------
Newest(b, k) == SubSeq(b, Len(b) - k + 1, Len(b))

\* Mutant: only the new bytes are kept when the buffer is full.
RingWrite_DropsOld(b, chunk) ==
  IF Len(b \o chunk) > RingCap THEN chunk ELSE b \o chunk

\* ringBuffer.Write
RingWrite(b, chunk) ==
  LET all == b \o chunk IN IF Len(all) > RingCap THEN Newest(all, RingCap) ELSE all

Newlines(b) == {i \in DOMAIN b : b[i] = "nl"}

\* whole lines, each with its prefix
Prefixed(lines) ==
  FlattenSeq([i \in DOMAIN lines |->
    IF i = 1 \/ lines[i - 1] = "nl" THEN <<"prefix", lines[i]>> ELSE <<lines[i]>>])

\* the first k bytes, which are whole lines, go out and the rest is buffered
Put(s, all, k) ==
  /\ terminal' = [terminal EXCEPT ![s] = @ \o Prefixed(SubSeq(all, 1, k))]
  /\ partial' = [partial EXCEPT ![s] = SubSeq(all, k + 1, Len(all))]

Copied(s, chunk) ==
  /\ s \in copying
  /\ Len(output) + Len(chunk) <= MaxOutput
  /\ output' = output \o chunk
  /\ produced' = [produced EXCEPT ![s] = @ \o chunk]
  /\ ring' = RingWrite(ring, chunk)

\* Mutant: only the first whole line goes out (an if for the loop).
Complete_OneLine(all) == IF Newlines(all) = {} THEN 0 ELSE Min(Newlines(all))

\* the loop: how many bytes of the buffer are whole lines
Complete(all) == Max(Newlines(all) \cup {0})

Write(s, chunk) ==
  LET all == partial[s] \o chunk IN
    /\ Copied(s, chunk)
    /\ Put(s, all, Complete(all))
    /\ UNCHANGED copying

\* the terminal fails at one of the lines: those before it are out, and what
\* it may have taken of this one is left out of account
WriteFails(s, chunk) ==
  LET all == partial[s] \o chunk IN
    /\ Copied(s, chunk)
    /\ \E k \in (Newlines(all) \cup {0}) \ {Complete(all)} : Put(s, all, k)
    /\ copying' = copying \ {s}

Next ==
  \/ \E s \in Streams, chunk \in Chunks : Write(s, chunk)
  \/ \E s \in Streams, chunk \in Chunks : WriteFails(s, chunk)

Spec == Init /\ [][Next]_vars

-----------------------------------------------------------------------------
(* LastLine.                                                               *)
Trimmed(b, cut) ==
  LET kept == {i \in DOMAIN b : b[i] \notin cut} IN
    IF kept = {} THEN <<>> ELSE SubSeq(b, Min(kept), Max(kept))

TrimmedRight(b, cut) == SubSeq(b, 1, Max({i \in DOMAIN b : b[i] \notin cut} \cup {0}))

Breaks(b) == {i \in DOMAIN b : b[i] \in {"cr", "nl"}}

Space == {"nl", "cr", "sp", "tab"}

\* Mutant: a carriage return is not a line break.
LastLine_OnlyNewlines(b) ==
  LET t == TrimmedRight(b, {"nl", "cr", "sp"}) IN
    Trimmed(SubSeq(t, Max(Newlines(t) \cup {0}) + 1, Len(t)), Space)

LastLine(b) ==
  LET t == TrimmedRight(b, {"nl", "cr", "sp"}) IN
    Trimmed(SubSeq(t, Max(Breaks(t) \cup {0}) + 1, Len(t)), Space)

-----------------------------------------------------------------------------
(* "keeps the last maxBytes of process output" (ringBuffer): whatever the  *)
(* sizes of the writes and their order, no byte in the middle is missing.  *)
RingKeepsLast ==
  ring = IF Len(output) <= RingCap THEN output ELSE Newest(output, RingCap)

(* "prefixes never land mid-line" (prefixWriter), and nothing is lost: the *)
(* terminal shows each stream's whole lines, each with one prefix, and the *)
(* buffer holds what is left, however the output is cut into writes, and   *)
(* no whole line while the terminal works.                                 *)
LinesAreWhole ==
  \A s \in Streams :
    LET shown == Len(produced[s]) - Len(partial[s]) IN
      /\ shown >= 0
      /\ terminal[s] = Prefixed(SubSeq(produced[s], 1, shown))
      /\ partial[s] = SubSeq(produced[s], shown + 1, Len(produced[s]))
      /\ shown > 0 => produced[s][shown] = "nl"
      /\ s \in copying => Newlines(partial[s]) = {}

(* "the most recent non-empty output line" (LastLine) of what the buffer   *)
(* holds: up to the last byte that is not white space, from the line break *)
(* before it. But if a tab comes after a line break behind it, there is a  *)
(* later line, of white space, which LastLine reports as an empty one.     *)
LastLineIsLast ==
  LET visible == {i \in DOMAIN ring : ring[i] \notin Space}
      end     == Max(visible)
      start   == Min({i \in visible : \A j \in Breaks(ring) : j < end => i > j})
      blank   == \E j \in Breaks(ring), k \in DOMAIN ring : end < j /\ j < k /\ ring[k] = "tab"
  IN  LastLine(ring) = IF visible = {} \/ blank THEN <<>> ELSE SubSeq(ring, start, end)
=============================================================================
