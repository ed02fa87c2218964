-------------------------- MODULE LogBufferProofs ---------------------------
(***************************************************************************)
(* For any size of the ring buffer and any writes, also those longer than  *)
(* the buffer: it holds the last bytes of what was written, all of them;   *)
(* the last line is told from them; and the terminal shows whole lines.    *)
(***************************************************************************)
EXTENDS LogBuffer, SequenceTheorems, WellFoundedInduction, TLAPS

(***************************************************************************)
(* First and last positions, and induction: no number is the least of the  *)
(* bad ones.                                                               *)
(***************************************************************************)
Below == {ss \in Nat \X Nat : ss[1] < ss[2]}

LEMMA LeastExists ==
  ASSUME NEW T \in SUBSET Nat, T # {}
  PROVE  Min(T) \in T /\ \A i \in T : Min(T) <= i
<1>1. IsWellFoundedOn(Below, Nat)
  BY NatLessThanWellFounded DEF OpToRel, Below
<1>2. PICK x \in T : \A y \in T : ~ (<<y, x>> \in Below)
  BY <1>1, WFMin
<1>3. \A y \in T : ~ (y < x)
  BY <1>2 DEF Below
<1>4. \A y \in T : y \in Nat
  OBVIOUS
<1>5. \A y \in T : x <= y
  BY <1>3, <1>4
<1> QED BY <1>5 DEF Min

LEMMA LastExists ==
  ASSUME NEW n \in Nat, NEW T \in SUBSET (0..n), T # {}
  PROVE  Max(T) \in T /\ \A i \in T : i <= Max(T)
<1> DEFINE Back == {n - i : i \in T}
<1>1. \A i \in T : i \in Nat /\ n - i \in Nat
  OBVIOUS
<1>2. Back \in SUBSET Nat /\ Back # {}
  BY <1>1
<1>3. PICK b \in Back : \A c \in Back : b <= c
  BY ONLY <1>2, LeastExists
<1>4. PICK i \in T : b = n - i
  OBVIOUS
<1>5. \A j \in T : n - j \in Back
  OBVIOUS
<1>6. \A j \in T : i >= j
  BY <1>1, <1>3, <1>4, <1>5
<1> QED BY <1>6 DEF Max

\* An element of a set of positions that is not passed by another is its last.
LEMMA MaxIs ==
  ASSUME NEW n \in Nat, NEW T \in SUBSET (0..n), NEW x \in T, \A i \in T : i <= x
  PROVE  Max(T) = x
<1>1. Max(T) \in T /\ \A i \in T : i <= Max(T)
  BY LastExists
<1>2. \A i \in T : i \in Nat
  OBVIOUS
<1>3. \A i, j \in Nat : i <= j /\ j <= i => i = j
  OBVIOUS
<1> QED BY <1>1, <1>2, <1>3, Zenon

LEMMA MinIs ==
  ASSUME NEW n \in Nat, NEW T \in SUBSET (0..n), NEW x \in T, \A i \in T : x <= i
  PROVE  Min(T) = x
<1>1. Min(T) \in T /\ \A i \in T : Min(T) <= i
  <2>1. T \in SUBSET Nat /\ T # {}
    OBVIOUS
  <2> QED BY <2>1, LeastExists
<1>2. \A i \in T : i \in Nat
  OBVIOUS
<1>3. \A i, j \in Nat : i <= j /\ j <= i => i = j
  OBVIOUS
<1> QED BY <1>1, <1>2, <1>3, Zenon

LEMMA NoneIsBad ==
  ASSUME NEW Bad \in SUBSET Nat, \A n \in Bad : \E m \in Bad : m < n
  PROVE  Bad = {}
<1> SUFFICES ASSUME Bad # {} PROVE FALSE
  OBVIOUS
<1>1. Min(Bad) \in Bad /\ \A i \in Bad : Min(Bad) <= i
  BY LeastExists
<1>2. PICK m \in Bad : m < Min(Bad)
  BY <1>1
<1>3. m \in Nat /\ Min(Bad) \in Nat /\ Min(Bad) <= m
  BY <1>1
<1> QED BY <1>2, <1>3

LEMMA BytesOf ==
  ASSUME NEW b \in Seq(Bytes)
  PROVE  /\ Len(b) \in Nat /\ DOMAIN b = 1..Len(b)
         /\ \A i \in 1..Len(b) : b[i] \in Bytes
BY LenProperties, ElementOfSeq

\* The bytes of b after the first p, up to the m-th.
LEMMA PartOf ==
  ASSUME NEW b \in Seq(Bytes), NEW p \in 0..Len(b), NEW m \in p..Len(b)
  PROVE  /\ SubSeq(b, p + 1, m) \in Seq(Bytes)
         /\ Len(SubSeq(b, p + 1, m)) = m - p
         /\ DOMAIN SubSeq(b, p + 1, m) = 1..m - p
         /\ \A i \in 1..m - p : SubSeq(b, p + 1, m)[i] = b[p + i]
<1> DEFINE part == SubSeq(b, p + 1, m)
<1>1. p \in Nat /\ m \in Nat /\ p <= m /\ \A i \in p + 1..m : b[i] \in Bytes
  BY BytesOf
<1>2. /\ part \in Seq(Bytes)
      /\ Len(part) = IF p + 1 <= m THEN m - (p + 1) + 1 ELSE 0
      /\ \A i \in 1..m - (p + 1) + 1 : part[i] = b[(p + 1) + i - 1]
  BY <1>1, SubSeqProperties
<1> HIDE DEF part
<1>3. m - (p + 1) + 1 = m - p /\ \A i \in 1..m - p : (p + 1) + i - 1 = p + i
  BY <1>1
<1>4. Len(part) = m - p
  BY <1>1, <1>2, <1>3
<1>5. DOMAIN part = 1..m - p
  BY <1>2, <1>4, LenProperties
<1> QED BY <1>2, <1>3, <1>4, <1>5 DEF part

LEMMA FirstPart ==
  ASSUME NEW b \in Seq(Bytes), NEW m \in 0..Len(b)
  PROVE  /\ SubSeq(b, 1, m) \in Seq(Bytes)
         /\ Len(SubSeq(b, 1, m)) = m
         /\ DOMAIN SubSeq(b, 1, m) = 1..m
         /\ \A i \in 1..m : SubSeq(b, 1, m)[i] = b[i]
<1>1. 0 \in 0..Len(b) /\ m \in 0..Len(b) /\ 0 + 1 = 1 /\ m - 0 = m /\ \A i \in 1..m : 0 + i = i
  BY BytesOf
<1>2. /\ SubSeq(b, 0 + 1, m) \in Seq(Bytes)
      /\ Len(SubSeq(b, 0 + 1, m)) = m - 0
      /\ DOMAIN SubSeq(b, 0 + 1, m) = 1..m - 0
      /\ \A i \in 1..m - 0 : SubSeq(b, 0 + 1, m)[i] = b[0 + i]
  BY <1>1, PartOf
<1> QED BY <1>1, <1>2

-----------------------------------------------------------------------------
\* what the buffer has to hold when b was written
Kept(b) == IF Len(b) <= RingCap THEN b ELSE Newest(b, RingCap)

RingInv ==
  /\ output \in Seq(Bytes)
  /\ ring = Kept(output)

LEMMA CapPositive == RingCap \in Nat \ {0}
BY BoundsArePositive

LEMMA NewestIs ==
  ASSUME NEW b \in Seq(Bytes), Len(b) > RingCap
  PROVE  /\ Newest(b, RingCap) \in Seq(Bytes)
         /\ Len(Newest(b, RingCap)) = RingCap
         /\ \A j \in 1..RingCap : Newest(b, RingCap)[j] = b[Len(b) - RingCap + j]
<1> DEFINE p == Len(b) - RingCap
<1>1. p \in 0..Len(b) /\ Len(b) \in p..Len(b) /\ Len(b) - p = RingCap
  BY BytesOf, CapPositive
<1>2. Newest(b, RingCap) = SubSeq(b, p + 1, Len(b))
  BY DEF Newest
<1> HIDE DEF p
<1>3. /\ SubSeq(b, p + 1, Len(b)) \in Seq(Bytes)
      /\ Len(SubSeq(b, p + 1, Len(b))) = Len(b) - p
      /\ \A i \in 1..Len(b) - p : SubSeq(b, p + 1, Len(b))[i] = b[p + i]
  BY <1>1, PartOf
<1> QED BY <1>1, <1>2, <1>3 DEF p

\* A write to a buffer that holds the last bytes of b leaves it with the last
\* bytes of b and what was written.
LEMMA WriteKeeps ==
  ASSUME NEW b \in Seq(Bytes), NEW chunk \in Seq(Bytes)
  PROVE  RingWrite(Kept(b), chunk) = Kept(b \o chunk)
<1>1. /\ b \o chunk \in Seq(Bytes) /\ Len(b \o chunk) = Len(b) + Len(chunk)
      /\ \A i \in 1..Len(b) + Len(chunk) :
           (b \o chunk)[i] = IF i <= Len(b) THEN b[i] ELSE chunk[i - Len(b)]
  BY ConcatProperties
<1>2. Len(b) \in Nat /\ Len(chunk) \in Nat /\ RingCap \in Nat
  BY LenProperties, CapPositive
<1>3. CASE Len(b) <= RingCap
  BY <1>1, <1>2, <1>3 DEF RingWrite, Kept
<1>4. CASE Len(b) > RingCap
  <2> DEFINE old == Newest(b, RingCap)
             new == b \o chunk
             all == old \o chunk
  <2>1. /\ old \in Seq(Bytes) /\ Len(old) = RingCap
        /\ \A j \in 1..RingCap : old[j] = b[Len(b) - RingCap + j]
    BY <1>4, NewestIs
  <2>2. Kept(b) = old /\ Kept(new) = Newest(new, RingCap)
    BY <1>1, <1>2, <1>4 DEF Kept
  <2> HIDE DEF old
  <2>3. /\ all \in Seq(Bytes) /\ Len(all) = RingCap + Len(chunk)
        /\ \A i \in 1..RingCap + Len(chunk) :
             all[i] = IF i <= RingCap THEN old[i] ELSE chunk[i - RingCap]
    BY <2>1, ConcatProperties
  <2>4. RingWrite(old, chunk) = IF Len(all) > RingCap THEN Newest(all, RingCap) ELSE all
    BY DEF RingWrite
  <2>5. /\ new \in Seq(Bytes) /\ Len(new) = Len(b) + Len(chunk) /\ Len(new) > RingCap
        /\ Newest(new, RingCap) \in Seq(Bytes) /\ Len(Newest(new, RingCap)) = RingCap
        /\ \A j \in 1..RingCap : Newest(new, RingCap)[j] = new[Len(new) - RingCap + j]
    <3>1. new \in Seq(Bytes) /\ Len(new) = Len(b) + Len(chunk) /\ Len(new) > RingCap
      BY <1>1, <1>2, <1>4
    <3> QED
      BY <3>1, NewestIs
  <2>6. \A i \in 1..Len(b) + Len(chunk) :
          new[i] = IF i <= Len(b) THEN b[i] ELSE chunk[i - Len(b)]
    BY <1>1
  <2> HIDE DEF new, all
  \* the buffer and all that was written end alike
  <2>7. ASSUME NEW j \in 1..RingCap
        PROVE  all[Len(chunk) + j] = new[Len(new) - RingCap + j]
    <3> DEFINE k == Len(new) - RingCap + j
    <3>1. /\ k = Len(b) - RingCap + (Len(chunk) + j)
          /\ k - Len(b) = (Len(chunk) + j) - RingCap
          /\ k \in 1..Len(b) + Len(chunk) /\ Len(chunk) + j \in 1..RingCap + Len(chunk)
      BY <1>2, <1>4, <2>5
    <3> HIDE DEF k
    <3>2. CASE Len(chunk) + j <= RingCap
      <4>1. k <= Len(b) /\ Len(chunk) + j \in 1..RingCap
        BY <3>1, <3>2, <1>2
      <4>2. all[Len(chunk) + j] = old[Len(chunk) + j] /\ new[k] = b[k]
        BY <4>1, <3>1, <2>3, <2>6
      <4>3. old[Len(chunk) + j] = b[Len(b) - RingCap + (Len(chunk) + j)]
        BY <4>1, <2>1
      <4> QED
        BY <4>2, <4>3, <3>1 DEF k
    <3>3. CASE Len(chunk) + j > RingCap
      <4>1. ~ k <= Len(b) /\ ~ Len(chunk) + j <= RingCap
        BY <3>1, <3>3, <1>2
      <4>2. /\ all[Len(chunk) + j] = chunk[(Len(chunk) + j) - RingCap]
            /\ new[k] = chunk[k - Len(b)]
        BY <4>1, <3>1, <2>3, <2>6
      <4> QED
        BY <4>2, <3>1 DEF k
    <3> QED
      BY <3>2, <3>3, <1>2
  <2>8. CASE Len(chunk) > 0
    <3>1. Len(all) > RingCap
      BY <2>8, <2>3, <1>2
    <3>2. /\ Newest(all, RingCap) \in Seq(Bytes) /\ Len(Newest(all, RingCap)) = RingCap
          /\ \A j \in 1..RingCap : Newest(all, RingCap)[j] = all[Len(all) - RingCap + j]
      BY <3>1, <2>3, NewestIs
    <3>3. \A j \in 1..RingCap : Len(all) - RingCap + j = Len(chunk) + j
      BY <2>3, <1>2
    <3>4. \A j \in 1..RingCap : Newest(all, RingCap)[j] = Newest(new, RingCap)[j]
      BY <3>2, <3>3, <2>5, <2>7
    <3>5. Newest(all, RingCap) = Newest(new, RingCap)
      BY <3>2, <3>4, <2>5, SeqEqual
    <3> QED
      BY <3>1, <3>5, <2>2, <2>4 DEF new
  <2>9. CASE Len(chunk) = 0
    <3>1. Len(all) = RingCap /\ ~ Len(all) > RingCap
      BY <2>9, <2>3, <1>2
    <3>2. \A j \in 1..RingCap : all[j] = Newest(new, RingCap)[j]
      <4>1. \A j \in 1..RingCap : Len(chunk) + j = j
        BY <2>9
      <4> QED
        BY <4>1, <2>5, <2>7
    <3>3. all = Newest(new, RingCap)
      BY <3>1, <3>2, <2>3, <2>5, SeqEqual
    <3> QED
      BY <3>1, <3>3, <2>2, <2>4 DEF new
  <2> QED
    BY <2>8, <2>9, <1>2
<1> QED
  BY <1>2, <1>3, <1>4

-----------------------------------------------------------------------------
LEMMA ChunksAreSequences == \A chunk \in Chunks : chunk \in Seq(Bytes)
<1> TAKE chunk \in Chunks
<1>1. PICK k \in 1..MaxChunk : chunk \in [1..k -> Bytes]
  BY DEF Chunks
<1>2. k \in Nat
  BY <1>1, BoundsArePositive
<1> QED
  BY <1>1, <1>2, SeqDef

LEMMA InitRingInv == Init => RingInv
BY CapPositive DEF Init, RingInv, Kept

LEMMA RingStep == RingInv /\ [Next]_vars => RingInv'
<1> SUFFICES ASSUME RingInv, [Next]_vars PROVE RingInv'
  OBVIOUS
<1>1. ASSUME NEW s \in Streams, NEW chunk \in Chunks, Copied(s, chunk) PROVE RingInv'
  <2>1. output \in Seq(Bytes) /\ chunk \in Seq(Bytes) /\ ring = Kept(output)
    BY ChunksAreSequences DEF RingInv
  <2>2. output' = output \o chunk /\ ring' = RingWrite(ring, chunk)
    BY <1>1 DEF Copied
  <2>3. output \o chunk \in Seq(Bytes)
    BY <2>1, ConcatProperties
  <2>4. RingWrite(Kept(output), chunk) = Kept(output \o chunk)
    BY <2>1, WriteKeeps
  <2> QED
    BY <2>1, <2>2, <2>3, <2>4 DEF RingInv, Kept, Newest
<1>2. ASSUME NEW s \in Streams, NEW chunk \in Chunks, Write(s, chunk) PROVE RingInv'
  BY <1>1, <1>2 DEF Write
<1>3. ASSUME NEW s \in Streams, NEW chunk \in Chunks, WriteFails(s, chunk) PROVE RingInv'
  BY <1>1, <1>3 DEF WriteFails
<1>4. CASE UNCHANGED vars
  BY <1>4 DEF vars, RingInv, Kept, Newest
<1> QED
  BY <1>2, <1>3, <1>4 DEF Next

(* "keeps the last maxBytes of process output", whatever the writes are.   *)
THEOREM RingIsRight == Spec => []RingKeepsLast
<1>1. RingInv => RingKeepsLast
  BY DEF RingInv, RingKeepsLast, Kept
<1> QED
  BY InitRingInv, RingStep, <1>1, PTL DEF Spec

-----------------------------------------------------------------------------
Visible(b) == {i \in DOMAIN b : b[i] \notin Space}

LEMMA PartOfPart ==
  ASSUME NEW b \in Seq(Bytes), NEW i \in 1..Len(b), NEW j \in 1..Len(b),
         NEW x \in 1..j - i + 1, NEW y \in 1..j - i + 1
  PROVE  SubSeq(SubSeq(b, i, j), x, y) = SubSeq(b, i + x - 1, i + y - 1)
BY SubSeqOfSubSeq

\* What is left of a part of b when the white space around it is cut off.
LEMMA TrimmedPart ==
  ASSUME NEW b \in Seq(Bytes), NEW p \in 0..Len(b), NEW m \in p..Len(b)
  PROVE  LET seen == {i \in Visible(b) : p < i /\ i <= m}
         IN  Trimmed(SubSeq(b, p + 1, m), Space)
               = IF seen = {} THEN <<>> ELSE SubSeq(b, Min(seen), Max(seen))
<1> DEFINE seen == {i \in Visible(b) : p < i /\ i <= m}
           part == SubSeq(b, p + 1, m)
           kept == {i \in DOMAIN part : part[i] \notin Space}
<1>1. Len(b) \in Nat /\ DOMAIN b = 1..Len(b) /\ \A i \in 1..Len(b) : b[i] \in Bytes
  BY BytesOf
<1>2. p \in Nat /\ m \in Nat /\ p <= m /\ m <= Len(b)
  BY <1>1
<1>3. /\ part \in Seq(Bytes) /\ DOMAIN part = 1..m - p
      /\ \A i \in 1..m - p : part[i] = b[p + i]
  BY PartOf
<1>5. seen \subseteq 1..Len(b)
  BY <1>1 DEF Visible
<1>6. \A i \in 1..m - p : i \in kept <=> p + i \in seen
  <2> HIDE DEF part
  <2> QED BY <1>1, <1>2, <1>3 DEF Visible
<1>7. \A i \in seen : i - p \in kept /\ p + (i - p) = i
  <2>1. \A i \in seen : i - p \in 1..m - p /\ p + (i - p) = i
    BY <1>2, <1>5
  <2> HIDE DEF kept, seen
  <2> QED BY <1>6, <2>1
<1>8. kept \subseteq 1..m - p
  BY <1>3
<1>9. Trimmed(part, Space) = IF kept = {} THEN <<>> ELSE SubSeq(part, Min(kept), Max(kept))
  BY DEF Trimmed
<1> HIDE DEF kept, seen, part
<1>10. CASE seen = {}
  <2>1. kept = {}
    BY <1>6, <1>8, <1>10
  <2> QED BY <1>9, <1>10, <2>1 DEF seen, part
<1>11. CASE seen # {}
  <2>1. kept # {}
    BY <1>7, <1>11
  <2>2. /\ Min(kept) \in kept /\ \A i \in kept : Min(kept) <= i
        /\ Max(kept) \in kept /\ \A i \in kept : i <= Max(kept)
    <3>1. kept \in SUBSET Nat /\ m - p \in Nat /\ kept \in SUBSET (0..m - p)
      BY <1>2, <1>8
    <3> QED BY ONLY <2>1, <3>1, LeastExists, LastExists
  <2>3. Min(kept) \in 1..m - p /\ Max(kept) \in 1..m - p
    BY <1>8, <2>2
  <2>4. seen \in SUBSET (0..Len(b))
    BY <1>5
  <2>5. Max(seen) = p + Max(kept)
    <3>1. p + Max(kept) \in seen
      BY <1>6, <2>2, <2>3
    <3>2. \A i \in seen : i <= p + Max(kept)
      BY <1>2, <1>5, <1>7, <2>2, <2>3
    <3> QED BY ONLY <1>1, <2>4, <3>1, <3>2, MaxIs
  <2>6. Min(seen) = p + Min(kept)
    <3>1. p + Min(kept) \in seen
      BY <1>6, <2>2, <2>3
    <3>2. \A i \in seen : p + Min(kept) <= i
      BY <1>2, <1>5, <1>7, <2>2, <2>3
    <3> QED BY ONLY <1>1, <2>4, <3>1, <3>2, MinIs
  <2>7. SubSeq(part, Min(kept), Max(kept)) = SubSeq(b, p + Min(kept), p + Max(kept))
    <3>1. SubSeq(SubSeq(b, p + 1, m), Min(kept), Max(kept))
            = SubSeq(b, (p + 1) + Min(kept) - 1, (p + 1) + Max(kept) - 1)
      <4>1. /\ p + 1 \in 1..Len(b) /\ m \in 1..Len(b)
            /\ Min(kept) \in 1..m - (p + 1) + 1 /\ Max(kept) \in 1..m - (p + 1) + 1
        BY <1>2, <2>3
      <4> QED BY <4>1, PartOfPart
    <3>2. (p + 1) + Min(kept) - 1 = p + Min(kept) /\ (p + 1) + Max(kept) - 1 = p + Max(kept)
      BY <1>2, <2>3
    <3> QED BY <2>3, <3>1, <3>2 DEF part
  <2> QED BY <1>9, <1>11, <2>1, <2>5, <2>6, <2>7 DEF seen, part
<1> QED BY <1>10, <1>11 DEF seen

\* The last line of b, by the positions of its bytes.
LEMMA LastLineOf ==
  ASSUME NEW b \in Seq(Bytes)
  PROVE  LET end   == Max(Visible(b))
             start == Min({i \in Visible(b) : \A j \in Breaks(b) : j < end => i > j})
             blank == \E j \in Breaks(b), k \in DOMAIN b : end < j /\ j < k /\ b[k] = "tab"
         IN  LastLine(b) = IF Visible(b) = {} \/ blank THEN <<>> ELSE SubSeq(b, start, end)
<1> DEFINE dark == {"nl", "cr", "sp"}
           inked == {i \in DOMAIN b : b[i] \notin dark} \cup {0}
           m == Max(inked)
           t == SubSeq(b, 1, m)
           cuts == Breaks(t) \cup {0}
           p == Max(cuts)
           seen == {i \in Visible(b) : p < i /\ i <= m}
           end == Max(Visible(b))
           line == {i \in Visible(b) : \A j \in Breaks(b) : j < end => i > j}
           blank == \E j \in Breaks(b), k \in DOMAIN b : end < j /\ j < k /\ b[k] = "tab"
<1>1. Len(b) \in Nat /\ DOMAIN b = 1..Len(b) /\ \A i \in 1..Len(b) : b[i] \in Bytes
  BY BytesOf
<1>2. /\ m \in 0..Len(b) /\ (m > 0 => b[m] \notin dark)
      /\ \A i \in 1..Len(b) : b[i] \notin dark => i <= m
  <2>1. inked \in SUBSET (0..Len(b)) /\ inked # {}
    BY <1>1
  <2>2. m \in inked /\ \A i \in inked : i <= m
    <3> HIDE DEF inked
    <3> QED BY ONLY <1>1, <2>1, LastExists
  <2>3. m \in 0..Len(b)
    <3> HIDE DEF inked
    <3> QED BY <2>1, <2>2
  <2>4. m > 0 => b[m] \notin dark
    <3> DEFINE top == m
    <3>1. top \in inked /\ top \in 0..Len(b)
      BY <2>2, <2>3
    <3> HIDE DEF top
    <3>2. top > 0 => b[top] \notin dark
      BY <1>1, <3>1
    <3> QED BY <3>2 DEF top
  <2>5. \A i \in 1..Len(b) : b[i] \notin dark => i \in inked
    BY <1>1
  <2> HIDE DEF inked
  <2> QED BY <2>2, <2>3, <2>4, <2>5
<1> HIDE DEF inked, m
<1>3. t \in Seq(Bytes) /\ Len(t) = m /\ DOMAIN t = 1..m /\ \A i \in 1..m : t[i] = b[i]
  BY <1>2, FirstPart
<1> HIDE DEF t
<1>4. \A i \in Nat : i \in Breaks(t) <=> i \in Breaks(b) /\ i <= m
  BY <1>1, <1>2, <1>3 DEF Breaks
<1>5. p \in 0..m /\ (p > 0 => p \in Breaks(b)) /\ \A j \in Breaks(b) : j <= m => j <= p
  <2>1. Breaks(t) \subseteq 1..m /\ m \in Nat
    BY <1>1, <1>2, <1>3 DEF Breaks
  <2>2. cuts \in SUBSET (0..m) /\ cuts # {}
    BY <2>1
  <2>3. p \in cuts /\ \A i \in cuts : i <= p
    <3> HIDE DEF cuts
    <3> QED BY ONLY <2>1, <2>2, LastExists
  <2> HIDE DEF p
  <2>4. p \in 0..m
    BY <2>2, <2>3
  <2>5. \A j \in Breaks(b) : j \in Nat
    BY <1>1 DEF Breaks
  <2> QED BY <1>4, <2>1, <2>3, <2>4, <2>5
<1> HIDE DEF cuts, p
<1>6. p \in Nat /\ m \in Nat /\ p <= m /\ m <= Len(b)
  BY <1>1, <1>2, <1>5
<1>7. \A i \in Breaks(b) : i \in 1..Len(b) /\ b[i] \in dark
  BY <1>1 DEF Breaks
<1>8. SubSeq(t, p + 1, Len(t)) = SubSeq(b, p + 1, m)
  <2>1. CASE p = m
    <3>1. m \in Int /\ p + 1 \in Int /\ m < p + 1
      BY <1>6, <2>1
    <3> QED BY <1>3, <3>1, SubSeqEmpty
  <2>2. CASE p # m
    <3>1. /\ 1 \in 1..Len(b) /\ m \in 1..Len(b)
          /\ p + 1 \in 1..m - 1 + 1 /\ m \in 1..m - 1 + 1
      BY <1>6, <2>2
    <3>2. SubSeq(SubSeq(b, 1, m), p + 1, m) = SubSeq(b, 1 + (p + 1) - 1, 1 + m - 1)
      BY <3>1, PartOfPart
    <3>3. 1 + (p + 1) - 1 = p + 1 /\ 1 + m - 1 = m
      BY <1>6
    <3> QED BY <1>3, <3>2, <3>3 DEF t
  <2> QED BY <2>1, <2>2
<1>9. LastLine(b) = Trimmed(SubSeq(t, p + 1, Len(t)), Space)
  BY DEF LastLine, TrimmedRight, t, m, inked, p, cuts
<1>10. LastLine(b) = IF seen = {} THEN <<>> ELSE SubSeq(b, Min(seen), Max(seen))
  <2>1. p \in 0..Len(b) /\ m \in p..Len(b)
    BY <1>6
  <2>2. Trimmed(SubSeq(b, p + 1, m), Space)
          = IF seen = {} THEN <<>> ELSE SubSeq(b, Min(seen), Max(seen))
    BY <2>1, TrimmedPart
  <2> QED BY <1>8, <1>9, <2>2
<1>11. \A i \in Visible(b) : i \in 1..Len(b) /\ i <= m /\ i \notin Breaks(b)
  BY <1>1, <1>2 DEF Visible, Space, Breaks
<1>12. \A i \in 1..Len(b) : i \notin Visible(b) /\ b[i] \notin dark => b[i] = "tab"
  BY <1>1 DEF Visible, Space
<1>13. CASE Visible(b) = {}
  <2>1. seen = {}
    BY <1>13
  <2> QED BY <1>10, <1>13, <2>1
<1>14. CASE Visible(b) # {}
  <2>1. end \in Visible(b) /\ \A i \in Visible(b) : i <= end
    <3>1. Visible(b) \in SUBSET (0..Len(b))
      BY <1>11
    <3> QED BY ONLY <1>1, <1>14, <3>1, LastExists
  <2> HIDE DEF end
  <2>2. end \in 1..m
    BY <1>6, <1>11, <2>1
  <2>3. CASE blank
    <3>1. PICK j \in Breaks(b), k \in DOMAIN b : end < j /\ j < k /\ b[k] = "tab"
      BY <2>3
    <3>2. k \in 1..Len(b) /\ j \in 1..Len(b)
      BY <1>1, <1>7
    <3>3. k <= m
      BY <1>2, <3>1, <3>2
    <3>4. j <= p
      BY <1>5, <1>6, <3>1, <3>2, <3>3
    <3>5. \A i \in Visible(b) : ~ p < i
      BY <1>6, <1>11, <2>1, <2>2, <3>1, <3>2, <3>4
    <3>6. seen = {}
      BY <3>5
    <3> HIDE DEF seen
    <3> QED BY <1>10, <2>3, <3>6 DEF end
  <2>4. CASE ~ blank
    <3>1. p < end
      <4> SUFFICES ASSUME ~ p < end PROVE FALSE
        OBVIOUS
      <4>1. p > 0 /\ p \in Breaks(b) /\ p # end
        BY <1>5, <1>6, <1>11, <2>1, <2>2
      <4>2. end < p
        BY <1>6, <2>2, <4>1
      <4>3. m > 0 /\ m \in 1..Len(b) /\ p # m
        BY <1>2, <1>6, <1>7, <2>2, <4>1
      <4>4. p < m /\ m \notin Visible(b)
        BY <1>6, <2>1, <2>2, <4>2, <4>3
      <4>5. b[m] = "tab"
        BY <1>2, <1>12, <4>3, <4>4
      <4> QED BY <1>1, <2>4, <4>1, <4>2, <4>3, <4>4, <4>5
    <3>2. end \in seen /\ \A i \in seen : i <= end
      BY <2>1, <2>2, <3>1
    <3>3. Max(seen) = end
      <4>1. seen \in SUBSET (0..Len(b))
        BY <1>11
      <4> HIDE DEF seen
      <4> QED BY ONLY <1>1, <3>2, <4>1, MaxIs
    <3>4. ASSUME NEW i \in Visible(b)
          PROVE  i \in seen <=> i \in line
      <4>1. i \in 1..Len(b) /\ i <= m
        BY <1>11
      <4>2. ASSUME p < i, NEW j \in Breaks(b), j < end
            PROVE  i > j
        <5>1. j \in 1..Len(b) /\ j <= m
          BY <1>6, <1>7, <2>2, <4>2
        <5>2. j <= p
          BY <1>5, <5>1
        <5> QED BY <1>6, <4>1, <4>2, <5>1, <5>2
      <4>3. ASSUME i \in line
            PROVE  p < i
        BY <1>5, <1>6, <3>1, <4>1, <4>3
      <4> QED BY <4>1, <4>2, <4>3
    <3>5. seen = line
      <4>1. seen \subseteq Visible(b) /\ line \subseteq Visible(b)
        OBVIOUS
      <4> HIDE DEF seen, line
      <4> QED BY <3>4, <4>1
    <3>6. seen # {}
      BY <3>2
    <3> HIDE DEF seen
    <3> QED BY <1>10, <1>14, <2>4, <3>3, <3>5, <3>6 DEF end
  <2> QED BY <2>3, <2>4
<1> QED BY <1>13, <1>14

(* "the most recent non-empty output line", and exactly when the buffer    *)
(* shows an empty one in its place, whatever the bytes.                    *)
THEOREM LastLineIsRight == Spec => []LastLineIsLast
<1>1. RingInv => LastLineIsLast
  <2> SUFFICES ASSUME RingInv PROVE LastLineIsLast
    OBVIOUS
  <2>1. ring \in Seq(Bytes)
    <3>1. output \in Seq(Bytes) /\ ring = Kept(output)
      BY DEF RingInv
    <3>2. Len(output) \in Nat /\ RingCap \in Nat
      BY <3>1, LenProperties, CapPositive
    <3>3. CASE Len(output) <= RingCap
      BY <3>1, <3>3 DEF Kept
    <3>4. CASE Len(output) > RingCap
      <4>1. Newest(output, RingCap) \in Seq(Bytes)
        BY <3>1, <3>4, NewestIs
      <4> QED BY <3>1, <3>2, <3>4, <4>1 DEF Kept
    <3> QED BY <3>2, <3>3, <3>4
  <2> QED BY <2>1, LastLineOf DEF LastLineIsLast, Visible
<1> QED BY InitRingInv, RingStep, <1>1, PTL DEF Spec

-----------------------------------------------------------------------------
(***************************************************************************)
(* What FlattenSeq computes.                                               *)
(***************************************************************************)

\* g is the function FlattenSeq computes with
Flattens(g, seqs, n) ==
  g = [i \in 1..n |-> IF i = 1 THEN seqs[i] ELSE g[i - 1] \o seqs[i]]

\* FlattenSeq, its recursion written out
LEMMA FlattenIs ==
  ASSUME NEW seqs, Len(seqs) # 0
  PROVE  FlattenSeq(seqs) = (CHOOSE g : Flattens(g, seqs, Len(seqs)))[Len(seqs)]
BY SMT DEF FlattenSeq, Flattens

\* There is such a function for every length.
LEMMA FlattensExist ==
  ASSUME NEW seqs
  PROVE  \A n \in Nat : \E g : Flattens(g, seqs, n)
<1> DEFINE Bad == {n \in Nat : ~ \E g : Flattens(g, seqs, n)}
<1>1. ASSUME NEW n \in Bad PROVE \E m \in Bad : m < n
  <2>1. n # 0
    <3>1. Flattens([i \in 1..0 |-> <<>>], seqs, 0)
      BY DEF Flattens
    <3> QED BY <3>1
  <2>2. n - 1 \in Nat /\ n - 1 < n
    BY <2>1
  <2>3. ASSUME NEW h, Flattens(h, seqs, n - 1) PROVE FALSE
    <3> DEFINE g == [i \in 1..n |-> IF i = 1 THEN seqs[i] ELSE h[i - 1] \o seqs[i]]
    <3>1. ASSUME NEW i \in 1..n, i # 1 PROVE g[i - 1] = h[i - 1]
      <4>1. i - 1 \in 1..n - 1 /\ i - 1 \in 1..n
        BY <3>1
      <4>2. h[i - 1] = IF i - 1 = 1 THEN seqs[i - 1] ELSE h[(i - 1) - 1] \o seqs[i - 1]
        BY <2>3, <4>1 DEF Flattens
      <4> QED BY <4>1, <4>2
    <3>2. Flattens(g, seqs, n)
      BY <3>1 DEF Flattens
    <3> QED BY <3>2
  <2> QED BY <2>2, <2>3
<1> HIDE DEF Bad
<1>2. Bad = {}
  <2>1. Bad \in SUBSET Nat
    BY DEF Bad
  <2> QED BY ONLY <1>1, <2>1, NoneIsBad
<1> QED BY <1>2 DEF Bad

\* The steps of FlattenSeq.
LEMMA FlattenSteps ==
  ASSUME NEW D, NEW seqs \in Seq(Seq(D)), seqs # <<>>
  PROVE  \E g : /\ FlattenSeq(seqs) = g[Len(seqs)]
                /\ g[1] = seqs[1]
                /\ \A i \in 1..Len(seqs) : i # 1 => g[i] = g[i - 1] \o seqs[i]
                /\ \A i \in 1..Len(seqs) : g[i] \in Seq(D)
<1>1. Len(seqs) \in Nat /\ Len(seqs) # 0 /\ \A i \in 1..Len(seqs) : seqs[i] \in Seq(D)
  BY LenProperties, EmptySeq, ElementOfSeq
<1> DEFINE g == CHOOSE g : Flattens(g, seqs, Len(seqs))
<1>2. Flattens(g, seqs, Len(seqs))
  BY <1>1, FlattensExist
<1>3. FlattenSeq(seqs) = g[Len(seqs)]
  BY <1>1, FlattenIs
<1> HIDE DEF g
<1>4. \A i \in 1..Len(seqs) : g[i] = IF i = 1 THEN seqs[i] ELSE g[i - 1] \o seqs[i]
  BY <1>2 DEF Flattens
<1>5. \A i \in 1..Len(seqs) : g[i] \in Seq(D)
  <2> DEFINE Bad == {i \in 1..Len(seqs) : g[i] \notin Seq(D)}
  <2>1. ASSUME NEW i \in Bad PROVE \E m \in Bad : m < i
    <3>1. i # 1
      BY <1>1, <1>4
    <3>2. i - 1 \in 1..Len(seqs) /\ i - 1 < i
      BY <1>1, <3>1
    <3>3. g[i] = g[i - 1] \o seqs[i] /\ seqs[i] \in Seq(D)
      BY <1>1, <1>4, <3>1
    <3>4. g[i - 1] \notin Seq(D)
      BY <3>3, ConcatProperties
    <3> QED BY <3>2, <3>4
  <2>2. Bad \in SUBSET Nat
    OBVIOUS
  <2> HIDE DEF Bad
  <2>3. Bad = {}
    BY ONLY <2>1, <2>2, NoneIsBad
  <2> QED BY <2>3 DEF Bad
<1>6. g[1] = seqs[1]
  BY <1>1, <1>4
<1>7. \A i \in 1..Len(seqs) : i # 1 => g[i] = g[i - 1] \o seqs[i]
  BY <1>4
<1> QED BY <1>3, <1>5, <1>6, <1>7

LEMMA FlattenEmpty == FlattenSeq(<<>>) = <<>>
BY EmptySeq DEF FlattenSeq

\* Two sequences of sequences flatten one after the other.
LEMMA FlattenConcat ==
  ASSUME NEW D, NEW a \in Seq(Seq(D)), NEW b \in Seq(Seq(D))
  PROVE  /\ FlattenSeq(a) \in Seq(D)
         /\ FlattenSeq(a \o b) = FlattenSeq(a) \o FlattenSeq(b)
<1> DEFINE n == Len(a)
           k == Len(b)
           c == a \o b
<1>1. /\ n \in Nat /\ k \in Nat
      /\ \A i \in 1..n : a[i] \in Seq(D)
      /\ \A i \in 1..k : b[i] \in Seq(D)
  BY LenProperties, ElementOfSeq
<1>2. /\ c \in Seq(Seq(D)) /\ Len(c) = n + k
      /\ \A i \in 1..n + k : c[i] = IF i <= n THEN a[i] ELSE b[i - n]
  BY ConcatProperties
<1>3. FlattenSeq(a) \in Seq(D)
  <2>1. CASE a = <<>>
    BY <2>1, FlattenEmpty, EmptySeq
  <2>2. CASE a # <<>>
    <3>1. n \in 1..n
      BY <1>1, <2>2, EmptySeq
    <3> QED BY <2>2, <3>1, FlattenSteps
  <2> QED BY <2>1, <2>2
<1>4. FlattenSeq(b) \in Seq(D)
  <2>1. CASE b = <<>>
    BY <2>1, FlattenEmpty, EmptySeq
  <2>2. CASE b # <<>>
    <3>1. k \in 1..k
      BY <1>1, <2>2, EmptySeq
    <3> QED BY <2>2, <3>1, FlattenSteps
  <2> QED BY <2>1, <2>2
<1>5. \A x, y, z \in Seq(D) : (x \o y) \o z = x \o (y \o z)
  BY ONLY ConcatAssociative, SMTT(30)
<1>6. CASE a = <<>> \/ b = <<>>
  BY <1>3, <1>4, <1>6, FlattenEmpty, ConcatEmptySeq
<1>7. CASE a # <<>> /\ b # <<>>
  <2>1. n # 0 /\ k # 0
    BY <1>7, EmptySeq
  <2>2. c # <<>>
    BY <1>1, <1>2, <2>1, EmptySeq
  <2>3. PICK g : /\ FlattenSeq(a) = g[n] /\ g[1] = a[1]
                 /\ \A i \in 1..n : i # 1 => g[i] = g[i - 1] \o a[i]
                 /\ \A i \in 1..n : g[i] \in Seq(D)
    BY <1>7, FlattenSteps
  <2>4. PICK h : /\ FlattenSeq(b) = h[k] /\ h[1] = b[1]
                 /\ \A i \in 1..k : i # 1 => h[i] = h[i - 1] \o b[i]
                 /\ \A i \in 1..k : h[i] \in Seq(D)
    BY <1>7, FlattenSteps
  <2> HIDE DEF n, k, c
  <2>5. PICK f : /\ FlattenSeq(c) = f[Len(c)] /\ f[1] = c[1]
                 /\ \A i \in 1..Len(c) : i # 1 => f[i] = f[i - 1] \o c[i]
                 /\ \A i \in 1..Len(c) : f[i] \in Seq(D)
    BY <1>2, <2>2, FlattenSteps
  \* first a
  <2>6. \A i \in 1..n : f[i] = g[i]
    <3> DEFINE Bad == {i \in 1..n : f[i] # g[i]}
    <3>1. ASSUME NEW i \in Bad PROVE \E m \in Bad : m < i
      <4>1. i \in 1..n /\ i \in 1..n + k /\ c[i] = a[i]
        BY <1>1, <1>2
      <4>2. i # 1
        BY <1>2, <2>3, <2>5, <4>1
      <4>3. i - 1 \in 1..n /\ i - 1 < i
        BY <1>1, <4>1, <4>2
      <4>4. f[i] = f[i - 1] \o a[i] /\ g[i] = g[i - 1] \o a[i]
        BY <1>2, <2>3, <2>5, <4>1, <4>2
      <4> QED BY <4>3, <4>4
    <3>2. Bad \in SUBSET Nat
      OBVIOUS
    <3> HIDE DEF Bad
    <3>3. Bad = {}
      BY ONLY <3>1, <3>2, NoneIsBad
    <3> QED BY <3>3 DEF Bad
  \* then b
  <2>7. \A j \in 1..k : f[n + j] = g[n] \o h[j]
    <3> DEFINE Bad == {j \in 1..k : f[n + j] # g[n] \o h[j]}
    <3>1. ASSUME NEW j \in Bad PROVE \E m \in Bad : m < j
      <4>1. j \in 1..k /\ n + j \in 1..n + k /\ n + j # 1 /\ (n + j) - n = j /\ ~ (n + j <= n)
        BY <1>1, <2>1
      <4>2. c[n + j] = b[j]
        BY <1>2, <4>1
      <4>3. f[n + j] = f[(n + j) - 1] \o b[j]
        BY <1>2, <2>5, <4>1, <4>2
      <4>4. j # 1
        <5> SUFFICES ASSUME j = 1 PROVE FALSE
          OBVIOUS
        <5>1. (n + 1) - 1 = n /\ n \in 1..n
          BY <1>1, <2>1
        <5> QED BY <2>4, <2>6, <4>3, <5>1
      <4>5. j - 1 \in 1..k /\ j - 1 < j /\ (n + j) - 1 = n + (j - 1) /\ n \in 1..n
        BY <1>1, <2>1, <4>1, <4>4
      <4>6. h[j] = h[j - 1] \o b[j] /\ h[j - 1] \in Seq(D) /\ b[j] \in Seq(D) /\ g[n] \in Seq(D)
        BY <1>1, <2>3, <2>4, <4>1, <4>4, <4>5
      <4>7. (g[n] \o h[j - 1]) \o b[j] = g[n] \o (h[j - 1] \o b[j])
        BY <1>5, <4>6
      <4>8. f[n + (j - 1)] # g[n] \o h[j - 1]
        BY <4>3, <4>5, <4>6, <4>7
      <4> QED BY <4>5, <4>8
    <3>2. Bad \subseteq 1..k
      OBVIOUS
    <3> HIDE DEF Bad
    <3>3. Bad \in SUBSET Nat
      BY <1>1, <3>2
    <3>4. Bad = {}
      BY ONLY <3>1, <3>3, NoneIsBad
    <3> QED BY <3>4 DEF Bad
  <2>8. f[n + k] = g[n] \o h[k]
    <3>1. k \in 1..k
      BY <1>1, <2>1
    <3> QED BY <2>7, <3>1
  <2> QED BY <1>2, <1>3, <2>3, <2>4, <2>5, <2>8 DEF n, k, c
<1> QED BY <1>3, <1>6, <1>7

-----------------------------------------------------------------------------
(***************************************************************************)
(* Prefixed: whole lines are printed one after the other.                  *)
(***************************************************************************)
OnTerminal == Bytes \cup {"prefix"}

Whole(lines) == lines = <<>> \/ lines[Len(lines)] = "nl"

Printed(lines, i) ==
  IF i = 1 \/ lines[i - 1] = "nl" THEN <<"prefix", lines[i]>> ELSE <<lines[i]>>

Pieces(lines) == [i \in DOMAIN lines |-> Printed(lines, i)]

LEMMA PiecesTyped ==
  ASSUME NEW lines \in Seq(Bytes)
  PROVE  /\ Pieces(lines) \in Seq(Seq(OnTerminal))
         /\ Len(Pieces(lines)) = Len(lines)
         /\ \A i \in 1..Len(lines) : Pieces(lines)[i] = Printed(lines, i)
<1>1. Len(lines) \in Nat /\ DOMAIN lines = 1..Len(lines)
      /\ \A i \in 1..Len(lines) : lines[i] \in Bytes
  BY BytesOf
<1>2. \A i \in 1..Len(lines) : Printed(lines, i) \in Seq(OnTerminal)
  <2>1. \A x \in OnTerminal : <<x>> \in Seq(OnTerminal) /\ <<"prefix", x>> \in Seq(OnTerminal)
    BY DEF OnTerminal
  <2>2. \A i \in 1..Len(lines) : lines[i] \in OnTerminal
    BY <1>1 DEF OnTerminal
  <2> QED BY <2>1, <2>2 DEF Printed
<1>3. Pieces(lines) = [i \in 1..Len(lines) |-> Printed(lines, i)]
  BY <1>1 DEF Pieces
<1>4. Pieces(lines) \in [1..Len(lines) -> Seq(OnTerminal)]
  BY <1>2, <1>3
<1> QED BY <1>1, <1>3, <1>4, IsASeq, LenProperties

LEMMA PrefixedIs ==
  ASSUME NEW lines PROVE Prefixed(lines) = FlattenSeq(Pieces(lines))
BY DEF Prefixed, Pieces, Printed

LEMMA PrefixedConcat ==
  ASSUME NEW a \in Seq(Bytes), NEW b \in Seq(Bytes), Whole(a)
  PROVE  Prefixed(a \o b) = Prefixed(a) \o Prefixed(b)
<1> DEFINE c == a \o b
           n == Len(a)
           k == Len(b)
           both == Pieces(a) \o Pieces(b)
<1>1. n \in Nat /\ k \in Nat
  BY LenProperties
<1>2. /\ c \in Seq(Bytes) /\ Len(c) = n + k
      /\ \A i \in 1..n + k : c[i] = IF i <= n THEN a[i] ELSE b[i - n]
  BY ConcatProperties
<1>3. /\ Pieces(a) \in Seq(Seq(OnTerminal)) /\ Len(Pieces(a)) = n
      /\ \A i \in 1..n : Pieces(a)[i] = Printed(a, i)
      /\ Pieces(b) \in Seq(Seq(OnTerminal)) /\ Len(Pieces(b)) = k
      /\ \A i \in 1..k : Pieces(b)[i] = Printed(b, i)
  BY PiecesTyped
<1>4. /\ Pieces(c) \in Seq(Seq(OnTerminal)) /\ Len(Pieces(c)) = n + k
      /\ \A i \in 1..n + k : Pieces(c)[i] = Printed(c, i)
  BY <1>2, PiecesTyped
<1>5. /\ both \in Seq(Seq(OnTerminal)) /\ Len(both) = n + k
      /\ \A i \in 1..n + k : both[i] = IF i <= n THEN Pieces(a)[i] ELSE Pieces(b)[i - n]
  <2> DEFINE x == Pieces(a)
             y == Pieces(b)
  <2>1. x \in Seq(Seq(OnTerminal)) /\ y \in Seq(Seq(OnTerminal)) /\ Len(x) = n /\ Len(y) = k
    BY <1>3
  <2> HIDE DEF x, y
  <2>2. /\ x \o y \in Seq(Seq(OnTerminal)) /\ Len(x \o y) = Len(x) + Len(y)
        /\ \A i \in 1..Len(x) + Len(y) : (x \o y)[i] = IF i <= Len(x) THEN x[i] ELSE y[i - Len(x)]
    BY <2>1, ConcatProperties
  <2> QED BY <2>1, <2>2 DEF x, y
<1>6. n > 0 => a[n] = "nl"
  BY EmptySeq DEF Whole
<1> HIDE DEF c, n, k, both
<1>7. ASSUME NEW i \in 1..n + k PROVE Pieces(c)[i] = both[i]
  <2>1. CASE i <= n
    <3>1. i \in 1..n /\ (i # 1 => i - 1 \in 1..n + k /\ i - 1 <= n)
      BY <1>1, <2>1
    <3>2. c[i] = a[i] /\ (i # 1 => c[i - 1] = a[i - 1])
      BY <1>2, <3>1
    <3>3. Printed(c, i) = Printed(a, i)
      BY <3>2 DEF Printed
    <3> QED BY <1>3, <1>4, <1>5, <2>1, <3>1, <3>3
  <2>2. CASE i = n + 1
    <3>1. i - n = 1 /\ 1 \in 1..k /\ ~ i <= n
      BY <1>1, <2>2
    <3>2. c[i] = b[1]
      BY <1>2, <3>1
    <3>3. i = 1 \/ c[i - 1] = "nl"
      <4>1. CASE n = 0
        BY <2>2, <4>1
      <4>2. CASE n > 0
        <5>1. i - 1 = n /\ n \in 1..n + k /\ n <= n
          BY <1>1, <2>2, <4>2
        <5> QED BY <1>2, <1>6, <4>2, <5>1
      <4> QED BY <1>1, <4>1, <4>2
    <3>4. Printed(c, i) = Printed(b, 1)
      BY <3>2, <3>3 DEF Printed
    <3> QED BY <1>3, <1>4, <1>5, <3>1, <3>4
  <2>3. CASE i > n + 1
    <3>1. /\ i - n \in 1..k /\ i - n # 1 /\ i # 1 /\ i - 1 \in 1..n + k
          /\ ~ i <= n /\ ~ i - 1 <= n /\ (i - 1) - n = (i - n) - 1
      BY <1>1, <2>3
    <3>2. c[i] = b[i - n] /\ c[i - 1] = b[(i - n) - 1]
      BY <1>2, <3>1
    <3>3. Printed(c, i) = Printed(b, i - n)
      BY <3>1, <3>2 DEF Printed
    <3> QED BY <1>3, <1>4, <1>5, <3>1, <3>3
  <2> QED BY <1>1, <2>1, <2>2, <2>3
<1>8. Pieces(c) = both
  BY <1>1, <1>4, <1>5, <1>7, SeqEqual
<1>9. FlattenSeq(both) = FlattenSeq(Pieces(a)) \o FlattenSeq(Pieces(b))
  BY <1>3, FlattenConcat DEF both
<1> QED BY <1>8, <1>9, PrefixedIs DEF c

LEMMA PrefixedEmpty == Prefixed(<<>>) = <<>>
<1>1. Pieces(<<>>) = <<>>
  BY PiecesTyped, EmptySeq
<1> QED BY <1>1, PrefixedIs, FlattenEmpty

-----------------------------------------------------------------------------
(* What a stream has on the terminal is whole lines, the buffer goes on    *)
(* from there.                                                             *)
LineInv(s) ==
  /\ produced[s] \in Seq(Bytes) /\ partial[s] \in Seq(Bytes)
  /\ \E out \in Seq(Bytes) :
       /\ Whole(out)
       /\ produced[s] = out \o partial[s]
       /\ terminal[s] = Prefixed(out)
  /\ s \in copying => Newlines(partial[s]) = {}

LinesInv ==
  /\ produced = [s \in Streams |-> produced[s]]
  /\ partial = [s \in Streams |-> partial[s]]
  /\ terminal = [s \in Streams |-> terminal[s]]
  /\ \A s \in Streams : LineInv(s)

LEMMA InitLinesInv == Init => LinesInv
<1> SUFFICES ASSUME Init PROVE LinesInv
  OBVIOUS
<1>1. ASSUME NEW s \in Streams PROVE LineInv(s)
  <2>1. produced[s] = <<>> /\ partial[s] = <<>> /\ terminal[s] = <<>>
    BY DEF Init
  <2>2. <<>> \in Seq(Bytes) /\ <<>> \o <<>> = <<>> /\ Whole(<<>>) /\ Newlines(<<>>) = {}
    BY EmptySeq, ConcatEmptySeq DEF Whole, Newlines
  <2> QED BY <2>1, <2>2, PrefixedEmpty DEF LineInv
<1> QED BY <1>1 DEF LinesInv, Init

\* A write cut after k bytes, after a newline or before the first byte.
LEMMA CutIsWhole ==
  ASSUME NEW all \in Seq(Bytes), NEW k \in Newlines(all) \cup {0}
  PROVE  /\ k \in 0..Len(all)
         /\ SubSeq(all, 1, k) \in Seq(Bytes) /\ Whole(SubSeq(all, 1, k))
         /\ SubSeq(all, k + 1, Len(all)) \in Seq(Bytes)
         /\ Len(SubSeq(all, k + 1, Len(all))) = Len(all) - k
         /\ \A i \in 1..Len(all) - k : SubSeq(all, k + 1, Len(all))[i] = all[k + i]
         /\ all = SubSeq(all, 1, k) \o SubSeq(all, k + 1, Len(all))
<1> DEFINE n == Len(all)
           head == SubSeq(all, 1, k)
           rest == SubSeq(all, k + 1, n)
<1>1. n \in Nat /\ DOMAIN all = 1..n /\ \A i \in 1..n : all[i] \in Bytes
  BY BytesOf
<1>2. k \in 0..n /\ (k > 0 => all[k] = "nl")
  BY <1>1 DEF Newlines
<1> HIDE DEF n
<1>3. head \in Seq(Bytes) /\ Len(head) = k /\ \A i \in 1..k : head[i] = all[i]
  BY <1>2, FirstPart DEF n
<1>4. Whole(head)
  <2> HIDE DEF head
  <2>1. CASE k = 0
    BY <1>3, <2>1, EmptySeq DEF Whole
  <2>2. CASE k > 0
    <3>1. k \in 1..k
      BY <1>1, <1>2, <2>2
    <3> QED BY <1>2, <1>3, <2>2, <3>1 DEF Whole
  <2> QED BY <1>1, <1>2, <2>1, <2>2
<1>5. rest \in Seq(Bytes) /\ Len(rest) = n - k /\ \A i \in 1..n - k : rest[i] = all[k + i]
  <2>1. k \in 0..Len(all) /\ n \in k..Len(all)
    BY <1>1, <1>2 DEF n
  <2> QED BY <2>1, PartOf
<1>6. all = head \o rest
  <2>1. 1 \in 1..n + 1 /\ k \in 1 - 1..n /\ n \in k..n
    BY <1>1, <1>2
  <2>2. head \o rest = SubSeq(all, 1, n)
    BY <2>1, ConcatAdjacentSubSeq DEF n
  <2> QED BY <2>2, SubSeqFull DEF n
<1> QED BY <1>2, <1>3, <1>4, <1>5, <1>6 DEF n

LEMMA WholeConcat ==
  ASSUME NEW a \in Seq(Bytes), NEW b \in Seq(Bytes), Whole(a), Whole(b)
  PROVE  Whole(a \o b)
<1>1. CASE b = <<>>
  BY <1>1, ConcatEmptySeq
<1>2. CASE b # <<>>
  <2>1. Len(b) \in Nat /\ Len(b) > 0 /\ Len(a) \in Nat /\ b[Len(b)] = "nl"
    BY <1>2, EmptySeq, LenProperties DEF Whole
  <2>2. /\ Len(a \o b) = Len(a) + Len(b)
        /\ \A i \in 1..Len(a) + Len(b) : (a \o b)[i] = IF i <= Len(a) THEN a[i] ELSE b[i - Len(a)]
    BY ConcatProperties
  <2>3. LET i == Len(a) + Len(b)
        IN  i \in 1..Len(a) + Len(b) /\ ~ i <= Len(a) /\ i - Len(a) = Len(b)
    BY <2>1
  <2> QED BY <2>1, <2>2, <2>3 DEF Whole
<1> QED BY <1>1, <1>2

\* The loop leaves no newline in the buffer.
LEMMA CompleteIsLast ==
  ASSUME NEW all \in Seq(Bytes)
  PROVE  /\ Complete(all) \in Newlines(all) \cup {0}
         /\ Newlines(SubSeq(all, Complete(all) + 1, Len(all))) = {}
<1> DEFINE k == Complete(all)
           ends == Newlines(all) \cup {0}
           rest == SubSeq(all, k + 1, Len(all))
<1>1. Len(all) \in Nat /\ DOMAIN all = 1..Len(all)
  BY BytesOf
<1>2. k \in ends /\ \A i \in ends : i <= k
  <2>1. ends \in SUBSET (0..Len(all)) /\ ends # {}
    BY <1>1 DEF Newlines
  <2>2. k = Max(ends)
    BY DEF Complete
  <2> HIDE DEF ends, k
  <2> QED BY ONLY <1>1, <2>1, <2>2, LastExists
<1> HIDE DEF k
<1>3. /\ k \in 0..Len(all) /\ rest \in Seq(Bytes) /\ Len(rest) = Len(all) - k
      /\ \A i \in 1..Len(all) - k : rest[i] = all[k + i]
  BY <1>2, CutIsWhole
<1>4. DOMAIN rest = 1..Len(all) - k
  BY <1>3, LenProperties
<1> HIDE DEF rest
<1>5. ASSUME NEW i \in Newlines(rest) PROVE FALSE
  <2>1. i \in 1..Len(all) - k /\ all[k + i] = "nl"
    BY <1>3, <1>4 DEF Newlines
  <2>2. k + i \in 1..Len(all) /\ ~ k + i <= k
    BY <1>1, <1>3, <2>1
  <2>3. k + i \in ends
    BY <1>1, <2>1, <2>2 DEF Newlines
  <2> QED BY <1>2, <2>2, <2>3
<1> QED BY <1>2, <1>5 DEF k, rest

\* What the stream has put out and what it buffers go on to tell all of it.
LEMMA PutStep ==
  ASSUME LinesInv, NEW s \in Streams, NEW chunk \in Seq(Bytes),
         Copied(s, chunk),
         NEW k \in Newlines(partial[s] \o chunk) \cup {0},
         Put(s, partial[s] \o chunk, k),
         copying' \subseteq copying,
         s \in copying' => k = Complete(partial[s] \o chunk)
  PROVE  LinesInv'
<1> DEFINE all == partial[s] \o chunk
           head == SubSeq(all, 1, k)
           rest == SubSeq(all, k + 1, Len(all))
<1>1. /\ produced' = [produced EXCEPT ![s] = @ \o chunk]
      /\ terminal' = [terminal EXCEPT ![s] = @ \o Prefixed(head)]
      /\ partial' = [partial EXCEPT ![s] = rest]
  BY DEF Copied, Put
<1>2. /\ produced = [q \in Streams |-> produced[q]]
      /\ partial = [q \in Streams |-> partial[q]]
      /\ terminal = [q \in Streams |-> terminal[q]]
      /\ LineInv(s)
  BY DEF LinesInv
<1>3. /\ produced'[s] = produced[s] \o chunk
      /\ terminal'[s] = terminal[s] \o Prefixed(head)
      /\ partial'[s] = rest
  BY <1>1, <1>2
<1>4. PICK out \in Seq(Bytes) : /\ Whole(out) /\ produced[s] = out \o partial[s]
                                /\ terminal[s] = Prefixed(out)
  BY <1>2 DEF LineInv
<1>5. produced[s] \in Seq(Bytes) /\ partial[s] \in Seq(Bytes)
  BY <1>2 DEF LineInv
<1>6. all \in Seq(Bytes) /\ produced'[s] \in Seq(Bytes)
  BY <1>3, <1>5, ConcatProperties
<1>7. /\ head \in Seq(Bytes) /\ Whole(head) /\ rest \in Seq(Bytes)
      /\ all = head \o rest
  BY <1>6, CutIsWhole
<1>8. s \in copying' => Newlines(rest) = {}
  BY <1>6, CompleteIsLast
<1>9. out \o head \in Seq(Bytes) /\ Whole(out \o head)
      /\ Prefixed(out \o head) = Prefixed(out) \o Prefixed(head)
  <2> HIDE DEF head
  <2> QED BY <1>4, <1>7, WholeConcat, PrefixedConcat, ConcatProperties
<1>10. produced'[s] = (out \o head) \o rest
  <2>1. \A x, y, z \in Seq(Bytes) : (x \o y) \o z = x \o (y \o z)
    BY ONLY ConcatAssociative, SMTT(30)
  <2>2. (out \o partial[s]) \o chunk = out \o all
    BY <1>5, <2>1
  <2> HIDE DEF all, head, rest
  <2>3. out \o (head \o rest) = (out \o head) \o rest
    BY <1>7, <2>1
  <2> QED BY <1>3, <1>4, <1>7, <2>2, <2>3
<1> HIDE DEF all, head, rest
<1>11. LineInv(s)'
  BY <1>3, <1>4, <1>6, <1>7, <1>8, <1>9, <1>10 DEF LineInv
<1>12. ASSUME NEW q \in Streams, q # s PROVE LineInv(q)'
  <2>1. produced'[q] = produced[q] /\ partial'[q] = partial[q] /\ terminal'[q] = terminal[q]
    BY <1>1, <1>2, <1>12
  <2>2. LineInv(q)
    BY DEF LinesInv
  <2> QED BY <2>1, <2>2 DEF LineInv
<1>13. /\ produced' = [q \in Streams |-> produced'[q]]
       /\ partial' = [q \in Streams |-> partial'[q]]
       /\ terminal' = [q \in Streams |-> terminal'[q]]
  BY <1>1, <1>2
<1> QED BY <1>11, <1>12, <1>13 DEF LinesInv

LEMMA LinesStep == LinesInv /\ [Next]_vars => LinesInv'
<1> SUFFICES ASSUME LinesInv, [Next]_vars PROVE LinesInv'
  OBVIOUS
<1>1. ASSUME NEW s \in Streams, NEW chunk \in Chunks, Write(s, chunk) PROVE LinesInv'
  <2> DEFINE all == partial[s] \o chunk
  <2>1. chunk \in Seq(Bytes) /\ partial[s] \in Seq(Bytes)
    BY ChunksAreSequences DEF LinesInv, LineInv
  <2>2. all \in Seq(Bytes)
    BY <2>1, ConcatProperties
  <2>3. Complete(all) \in Newlines(all) \cup {0}
    BY <2>2, CompleteIsLast
  <2>4. Copied(s, chunk) /\ Put(s, all, Complete(all)) /\ copying' = copying
    BY <1>1 DEF Write
  <2> QED BY <2>1, <2>3, <2>4, PutStep
<1>2. ASSUME NEW s \in Streams, NEW chunk \in Chunks, WriteFails(s, chunk) PROVE LinesInv'
  <2> DEFINE all == partial[s] \o chunk
  <2>1. chunk \in Seq(Bytes)
    BY ChunksAreSequences
  <2>2. PICK k \in Newlines(all) \cup {0} : Put(s, all, k)
    BY <1>2 DEF WriteFails
  <2>3. Copied(s, chunk) /\ copying' \subseteq copying /\ s \notin copying'
    BY <1>2 DEF WriteFails
  <2> QED BY <2>1, <2>2, <2>3, PutStep
<1>3. CASE UNCHANGED vars
  BY <1>3 DEF vars, LinesInv, LineInv
<1> QED BY <1>1, <1>2, <1>3 DEF Next

\* What is put out and what is buffered, told by the length of the buffer.
LEMMA LinesShown == LinesInv => LinesAreWhole
<1> SUFFICES ASSUME LinesInv, NEW s \in Streams
             PROVE  LET shown == Len(produced[s]) - Len(partial[s]) IN
                      /\ shown >= 0
                      /\ terminal[s] = Prefixed(SubSeq(produced[s], 1, shown))
                      /\ partial[s] = SubSeq(produced[s], shown + 1, Len(produced[s]))
                      /\ shown > 0 => produced[s][shown] = "nl"
                      /\ s \in copying => Newlines(partial[s]) = {}
  BY DEF LinesAreWhole
<1> DEFINE b == produced[s]
           rest == partial[s]
           shown == Len(b) - Len(rest)
<1>1. /\ b \in Seq(Bytes) /\ rest \in Seq(Bytes)
      /\ s \in copying => Newlines(rest) = {}
      /\ \E out \in Seq(Bytes) : Whole(out) /\ b = out \o rest /\ terminal[s] = Prefixed(out)
  BY DEF LinesInv, LineInv
<1>2. PICK out \in Seq(Bytes) : Whole(out) /\ b = out \o rest /\ terminal[s] = Prefixed(out)
  BY <1>1
<1> HIDE DEF b, rest
<1>3. /\ Len(b) = Len(out) + Len(rest)
      /\ \A i \in 1..Len(out) + Len(rest) : b[i] = IF i <= Len(out) THEN out[i] ELSE rest[i - Len(out)]
  BY <1>1, <1>2, ConcatProperties
<1>4. Len(out) \in Nat /\ Len(rest) \in Nat /\ Len(b) \in Nat
  BY <1>1, <1>2, LenProperties
<1>5. shown = Len(out)
  BY <1>3, <1>4
<1> HIDE DEF shown
<1>6. SubSeq(b, 1, shown) = out
  <2> DEFINE start == SubSeq(b, 1, shown)
  <2>1. shown \in 0..Len(b)
    BY <1>3, <1>4, <1>5
  <2>2. start \in Seq(Bytes) /\ Len(start) = shown /\ \A i \in 1..shown : start[i] = b[i]
    BY <1>1, <2>1, FirstPart
  <2> HIDE DEF start
  <2>3. \A i \in 1..shown : b[i] = out[i]
    BY <1>3, <1>4, <1>5
  <2>4. start = out
    BY <1>5, <2>2, <2>3, SeqEqual
  <2> QED BY <2>4 DEF start
<1>7. SubSeq(b, shown + 1, Len(b)) = rest
  <2> DEFINE end == SubSeq(b, shown + 1, Len(b))
  <2>1. shown \in 0..Len(b) /\ Len(b) \in shown..Len(b) /\ Len(b) - shown = Len(rest)
    BY <1>3, <1>4, <1>5
  <2>2. /\ end \in Seq(Bytes) /\ Len(end) = Len(b) - shown
        /\ \A i \in 1..Len(b) - shown : end[i] = b[shown + i]
    BY <1>1, <2>1, PartOf
  <2> HIDE DEF end
  <2>3. ASSUME NEW i \in 1..Len(rest) PROVE end[i] = rest[i]
    <3>1. /\ Len(out) + i \in 1..Len(out) + Len(rest) /\ ~ Len(out) + i <= Len(out)
          /\ (Len(out) + i) - Len(out) = i
      BY <1>4
    <3> QED BY <1>3, <1>5, <2>1, <2>2, <3>1
  <2>4. end = rest
    BY <1>1, <2>1, <2>2, <2>3, SeqEqual
  <2> QED BY <2>4 DEF end
<1>8. shown > 0 => b[shown] = "nl"
  <2> SUFFICES ASSUME shown > 0 PROVE b[shown] = "nl"
    OBVIOUS
  <2>1. out # <<>>
    BY <1>5, EmptySeq
  <2>2. shown \in 1..Len(out) + Len(rest) /\ shown <= Len(out)
    BY <1>4, <1>5
  <2> QED BY <1>2, <1>3, <1>5, <2>1, <2>2 DEF Whole
<1>9. shown >= 0
  BY <1>4, <1>5
<1>10. terminal[s] = Prefixed(SubSeq(b, 1, shown)) /\ rest = SubSeq(b, shown + 1, Len(b))
  BY <1>2, <1>6, <1>7
<1> QED BY <1>1, <1>8, <1>9, <1>10 DEF shown, b, rest

(* "prefixes never land mid-line", and nothing is lost or said twice,      *)
(* however the output is cut into writes and wherever the terminal fails.  *)
THEOREM WholeLinesOnly == Spec => []LinesAreWhole
BY InitLinesInv, LinesStep, LinesShown, PTL DEF Spec
=============================================================================
