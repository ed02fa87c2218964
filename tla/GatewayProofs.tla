--------------------------- MODULE GatewayProofs ----------------------------
(***************************************************************************)
(* Theorems about Gateway, for any instances, models, ports and requests,  *)
(* and any answers of llama-server: who answers a request and a scrape, by *)
(* an inductive invariant of the ports, and what injectLabel makes of a    *)
(* line, by following it character by character through a line that has    *)
(* any number of labels.                                                   *)
(***************************************************************************)
EXTENDS Gateway, SequenceTheorems, WellFoundedInduction, TLAPS

-----------------------------------------------------------------------------
(***************************************************************************)
(* First and last positions, and induction: no number is the least of the  *)
(* bad ones.                                                               *)
(***************************************************************************)
Below == {ss \in Nat \X Nat : ss[1] < ss[2]}

LEMMA LeastExists ==
  ASSUME NEW T \in SUBSET Nat, T # {}
  PROVE  Min(T) \in T /\ \A i \in T : Min(T) <= i
<1>1. IsWellFoundedOn(Below, Nat)
  BY NatLessThanWellFounded DEF OpToRel, Below
<1>2. PICK x \in T : \A y \in T : ~ (<<y, x>> \in Below)
  BY <1>1, WFMin
<1>3. \A y \in T : ~ (y < x)
  BY <1>2 DEF Below
<1>4. \A y \in T : y \in Nat
  OBVIOUS
<1>5. \A y \in T : x <= y
  BY <1>3, <1>4
<1> QED BY <1>5 DEF Min

LEMMA LastExists ==
  ASSUME NEW n \in Nat, NEW T \in SUBSET (0..n), T # {}
  PROVE  Max(T) \in T /\ \A i \in T : i <= Max(T)
<1> DEFINE Back == {n - i : i \in T}
<1>1. \A i \in T : i \in Nat /\ n - i \in Nat
  OBVIOUS
<1>2. Back \in SUBSET Nat /\ Back # {}
  BY <1>1
<1>3. PICK b \in Back : \A c \in Back : b <= c
  BY ONLY <1>2, LeastExists
<1>4. PICK i \in T : b = n - i
  OBVIOUS
<1>5. \A j \in T : n - j \in Back
  OBVIOUS
<1>6. \A j \in T : i >= j
  BY <1>1, <1>3, <1>4, <1>5
<1> QED BY <1>6 DEF Max

\* An element of a set of positions that is not passed by another is its last.
LEMMA MaxIs ==
  ASSUME NEW n \in Nat, NEW T \in SUBSET (0..n), NEW x \in T, \A i \in T : i <= x
  PROVE  Max(T) = x
<1>1. Max(T) \in T /\ \A i \in T : i <= Max(T)
  BY LastExists
<1>2. \A i \in T : i \in Nat
  OBVIOUS
<1>3. \A i, j \in Nat : i <= j /\ j <= i => i = j
  OBVIOUS
<1> QED BY <1>1, <1>2, <1>3, Zenon

LEMMA MinIs ==
  ASSUME NEW n \in Nat, NEW T \in SUBSET (0..n), NEW x \in T, \A i \in T : x <= i
  PROVE  Min(T) = x
<1>1. Min(T) \in T /\ \A i \in T : Min(T) <= i
  <2>1. T \in SUBSET Nat /\ T # {}
    OBVIOUS
  <2> QED BY <2>1, LeastExists
<1>2. \A i \in T : i \in Nat
  OBVIOUS
<1>3. \A i, j \in Nat : i <= j /\ j <= i => i = j
  OBVIOUS
<1> QED BY <1>1, <1>2, <1>3, Zenon

LEMMA NoneIsBad ==
  ASSUME NEW Bad \in SUBSET Nat, \A n \in Bad : \E m \in Bad : m < n
  PROVE  Bad = {}
<1> SUFFICES ASSUME Bad # {} PROVE FALSE
  OBVIOUS
<1>1. Min(Bad) \in Bad /\ \A i \in Bad : Min(Bad) <= i
  BY LeastExists
<1>2. PICK m \in Bad : m < Min(Bad)
  BY <1>1
<1>3. m \in Nat /\ Min(Bad) \in Nat /\ Min(Bad) <= m
  BY <1>1
<1> QED BY <1>2, <1>3

-----------------------------------------------------------------------------
(***************************************************************************)
(* What Joined computes.                                                   *)
(***************************************************************************)
Glue(sofar, l) == IF sofar = <<>> THEN l ELSE sofar \o <<"comma">> \o l

\* g is the function FoldLeft computes with over the labels numbered in S
Joins(g, labels, S) ==
  g = [s \in SUBSET S |-> IF s = {} THEN <<>> ELSE Glue(g[s \ {Max(s)}], labels[Max(s)])]

\* Joined, its recursion written out
LEMMA JoinedIs ==
  ASSUME NEW labels
  PROVE  Joined(labels) = (CHOOSE g : Joins(g, labels, DOMAIN labels))[DOMAIN labels]
BY SMT DEF Joined, FoldLeft, MapThenFoldSet, Glue, Joins

LEMMA WithoutLast ==
  ASSUME NEW n \in Nat, NEW s \in SUBSET (1..n), s # {}
  PROVE  Max(s) \in 1..n /\ s \ {Max(s)} \in SUBSET (1..n - 1)
<1>1. Max(s) \in s /\ \A i \in s : i <= Max(s)
  <2>1. s \in SUBSET (0..n)
    OBVIOUS
  <2> QED BY <2>1, LastExists
<1>2. \A i \in s : i \in 1..n
  OBVIOUS
<1> DEFINE last == Max(s)
<1>3. last \in 1..n /\ \A i \in s : i \in 1..n /\ i <= last
  BY <1>1, <1>2
<1> HIDE DEF last
<1>4. \A i \in s \ {last} : i \in 1..n - 1
  BY <1>3
<1> QED BY <1>3, <1>4 DEF last

\* There is such a function, built up from fewer to more labels.
LEMMA JoinsExist ==
  ASSUME NEW labels
  PROVE  \A n \in Nat : \E g : Joins(g, labels, 1..n)
<1> DEFINE Bad == {n \in Nat : ~ \E g : Joins(g, labels, 1..n)}
<1>1. ASSUME NEW n \in Bad PROVE \E m \in Bad : m < n
  <2>1. n # 0
    <3>1. 1..0 = {}
      OBVIOUS
    <3>2. Joins([s \in SUBSET (1..0) |-> <<>>], labels, 1..0)
      BY <3>1 DEF Joins
    <3> QED BY <3>2
  <2>2. n - 1 \in Nat /\ n - 1 < n /\ 1..n - 1 \subseteq 1..n
    BY <2>1
  <2>3. ASSUME NEW h, Joins(h, labels, 1..n - 1) PROVE FALSE
    <3> DEFINE g == [s \in SUBSET (1..n) |->
                       IF s = {} THEN <<>> ELSE Glue(h[s \ {Max(s)}], labels[Max(s)])]
    <3>1. ASSUME NEW s \in SUBSET (1..n), s # {} PROVE g[s \ {Max(s)}] = h[s \ {Max(s)}]
      <4> DEFINE u == s \ {Max(s)}
      <4>1. u \in SUBSET (1..n - 1) /\ u \in SUBSET (1..n)
        BY <2>2, <3>1, WithoutLast
      <4> HIDE DEF u
      <4>2. h[u] = IF u = {} THEN <<>> ELSE Glue(h[u \ {Max(u)}], labels[Max(u)])
        BY <2>3, <4>1 DEF Joins
      <4>3. g[u] = h[u]
        BY <4>1, <4>2
      <4> QED BY <4>3 DEF u
    <3>2. Joins(g, labels, 1..n)
      BY <3>1 DEF Joins
    <3> QED BY <3>2
  <2> QED BY <2>2, <2>3
<1> HIDE DEF Bad
<1>2. Bad = {}
  <2>1. Bad \in SUBSET Nat
    BY DEF Bad
  <2> QED BY ONLY <1>1, <2>1, NoneIsBad
<1> QED BY <1>2 DEF Bad

\* The steps of Joined.
LEMMA JoinedSteps ==
  ASSUME NEW D, "comma" \in D, NEW labels \in Seq(Seq(D))
  PROVE  \E g : /\ Joined(labels) = g[Len(labels)]
                /\ g[0] = <<>>
                /\ \A i \in 1..Len(labels) : g[i] = Glue(g[i - 1], labels[i])
                /\ \A i \in 0..Len(labels) : g[i] \in Seq(D)
<1> DEFINE n == Len(labels)
<1>1. n \in Nat /\ DOMAIN labels = 1..n /\ \A i \in 1..n : labels[i] \in Seq(D)
  BY LenProperties, ElementOfSeq
<1> DEFINE f == CHOOSE f : Joins(f, labels, 1..n)
<1>2. Joins(f, labels, 1..n)
  BY <1>1, JoinsExist
<1>3. Joined(labels) = f[1..n]
  BY <1>1, JoinedIs
<1> HIDE DEF f, n
<1>4. \A s \in SUBSET (1..n) :
        f[s] = IF s = {} THEN <<>> ELSE Glue(f[s \ {Max(s)}], labels[Max(s)])
  BY <1>2 DEF Joins
<1> DEFINE g == [i \in 0..n |-> f[1..i]]
<1>5. g[0] = <<>>
  <2>1. 1..0 = {}
    OBVIOUS
  <2>2. f[{}] = <<>>
    BY <1>4
  <2> QED BY <1>1, <2>1, <2>2
<1>6. ASSUME NEW i \in 1..n PROVE g[i] = Glue(g[i - 1], labels[i])
  <2>1. Max(1..i) = i
    <3>1. i \in Nat /\ 1..i \in SUBSET (0..i) /\ i \in 1..i /\ \A j \in 1..i : j <= i
      BY <1>1
    <3> QED BY ONLY <3>1, MaxIs
  <2>2. i \in Nat /\ 1 <= i /\ i <= n /\ i \in 0..n /\ i - 1 \in 0..n
    BY <1>1
  <2>3. (1..i) \ {i} = 1..i - 1
    <3>1. \A j \in 1..i : j # i <=> j \in 1..i - 1
      BY <2>2
    <3>2. 1..i - 1 \subseteq 1..i
      BY <2>2
    <3> QED BY <3>1, <3>2
  <2>4. i \in 1..i /\ 1..i \in SUBSET (1..n)
    BY <1>1, <2>2
  <2>5. f[1..i] = Glue(f[1..i - 1], labels[i])
    BY <1>4, <2>1, <2>3, <2>4
  <2> QED BY <2>2, <2>5
<1>7. Joined(labels) = g[n]
  BY <1>1, <1>3
<1> HIDE DEF g
<1>8. \A x, y \in Seq(D) : Glue(x, y) \in Seq(D)
  <2>1. <<"comma">> \in Seq(D)
    OBVIOUS
  <2> QED BY <2>1, ConcatProperties DEF Glue
<1>9. \A i \in 0..n : g[i] \in Seq(D)
  <2> DEFINE Bad == {i \in 0..n : g[i] \notin Seq(D)}
  <2>1. ASSUME NEW i \in Bad PROVE \E m \in Bad : m < i
    <3>1. i # 0
      BY <1>5, EmptySeq
    <3>2. i \in 1..n /\ i - 1 \in 0..n /\ i - 1 < i
      BY <1>1, <3>1
    <3>3. g[i - 1] \notin Seq(D)
      BY <1>1, <1>6, <1>8, <3>2
    <3> QED BY <3>2, <3>3
  <2>2. Bad \in SUBSET Nat
    BY <1>1
  <2> HIDE DEF Bad
  <2>3. Bad = {}
    BY ONLY <2>1, <2>2, NoneIsBad
  <2> QED BY <2>3 DEF Bad
<1> QED BY <1>5, <1>6, <1>7, <1>9 DEF n

\* One label more.
LEMMA JoinedAnother ==
  ASSUME NEW D, "comma" \in D, NEW labels \in Seq(Seq(D)), NEW l \in Seq(D)
  PROVE  /\ Joined(labels) \in Seq(D)
         /\ Joined(labels \o <<l>>) = Glue(Joined(labels), l)
         /\ labels = <<>> => Joined(labels) = <<>>
<1> DEFINE n == Len(labels)
           more == labels \o <<l>>
<1>1. n \in Nat
  BY LenProperties
<1>2. more \in Seq(Seq(D)) /\ Len(more) = n + 1 /\ more[n + 1] = l
      /\ \A i \in 1..n : more[i] = labels[i]
  <2>1. <<l>> \in Seq(Seq(D)) /\ Len(<<l>>) = 1 /\ <<l>>[1] = l
    OBVIOUS
  <2> QED BY <1>1, <2>1, ConcatProperties
<1>3. PICK g : /\ Joined(labels) = g[n] /\ g[0] = <<>>
               /\ \A i \in 1..n : g[i] = Glue(g[i - 1], labels[i])
               /\ \A i \in 0..n : g[i] \in Seq(D)
  BY JoinedSteps
<1> HIDE DEF n, more
<1>4. PICK h : /\ Joined(more) = h[Len(more)] /\ h[0] = <<>>
               /\ \A i \in 1..Len(more) : h[i] = Glue(h[i - 1], more[i])
               /\ \A i \in 0..Len(more) : h[i] \in Seq(D)
  BY <1>2, JoinedSteps
<1>5. \A i \in 0..n : h[i] = g[i]
  <2> DEFINE Bad == {i \in 0..n : h[i] # g[i]}
  <2>1. ASSUME NEW i \in Bad PROVE \E m \in Bad : m < i
    <3>1. i # 0
      BY <1>3, <1>4
    <3>2. i \in 1..n /\ i \in 1..Len(more) /\ i - 1 \in 0..n /\ i - 1 < i
      BY <1>1, <1>2, <3>1
    <3>3. h[i - 1] # g[i - 1]
      BY <1>2, <1>3, <1>4, <3>2
    <3> QED BY <3>2, <3>3
  <2>2. Bad \in SUBSET Nat
    BY <1>1
  <2> HIDE DEF Bad
  <2>3. Bad = {}
    BY ONLY <2>1, <2>2, NoneIsBad
  <2> QED BY <2>3 DEF Bad
<1>6. Joined(more) = Glue(Joined(labels), l)
  <2>1. n \in 0..n /\ n + 1 \in 1..Len(more) /\ (n + 1) - 1 = n
    BY <1>1, <1>2
  <2> QED BY <1>2, <1>3, <1>4, <1>5, <2>1
<1>7. Joined(labels) \in Seq(D)
  BY <1>1, <1>3
<1>8. labels = <<>> => n = 0
  BY EmptySeq DEF n
<1> QED BY <1>3, <1>6, <1>7, <1>8 DEF more

-----------------------------------------------------------------------------
(***************************************************************************)
(* What injectLabel finds in a line without a closing brace in a value.    *)
(***************************************************************************)
Letters == STRING \cup {"n", "open", "close", "sp", "1", "comma", "l", "eq", "quote", "hash"}

Chars == Letters \ {"close"}

Around(a) == <<"n">> \o <<"open">> \o a \o (<<"close">> \o <<"sp", "1">>)

LEMMA Associated ==
  ASSUME NEW D, NEW x \in Seq(D), NEW y \in Seq(D), NEW z \in Seq(D)
  PROVE  x \o (y \o z) = (x \o y) \o z
BY ONLY ConcatAssociative, SMTT(30)

LEMMA Enclosed ==
  ASSUME NEW D, {"n", "open", "close", "sp", "1"} \subseteq D, NEW a \in Seq(D)
  PROVE  <<"n">> \o (<<"open">> \o a \o <<"close">>) \o <<"sp", "1">> = Around(a)
<1> DEFINE x == <<"n">>
           y == <<"open">>
           z == <<"close">>
           u == <<"sp", "1">>
<1>1. x \in Seq(D) /\ y \in Seq(D) /\ z \in Seq(D) /\ u \in Seq(D)
  OBVIOUS
<1> HIDE DEF x, y, z, u
<1>3. x \o y \in Seq(D) /\ y \o a \in Seq(D) /\ (x \o y) \o a \in Seq(D)
  <2>1. x \o y \in Seq(D) /\ y \o a \in Seq(D)
    BY <1>1, ConcatProperties
  <2> QED BY <2>1, ConcatProperties
<1>4. x \o (y \o a) = (x \o y) \o a
  BY ONLY <1>1, Associated, SMTT(30)
<1>5. x \o ((y \o a) \o z) = (x \o (y \o a)) \o z
  <2> DEFINE b == y \o a
  <2>1. b \in Seq(D)
    BY <1>3
  <2> HIDE DEF b
  <2>2. x \o (b \o z) = (x \o b) \o z
    BY ONLY <1>1, <2>1, Associated, SMTT(30)
  <2> QED BY <2>2 DEF b
<1>6. (((x \o y) \o a) \o z) \o u = ((x \o y) \o a) \o (z \o u)
  <2> DEFINE b == (x \o y) \o a
  <2>1. b \in Seq(D)
    BY <1>3
  <2> HIDE DEF b
  <2>2. b \o (z \o u) = (b \o z) \o u
    BY ONLY <1>1, <2>1, Associated, SMTT(30)
  <2> QED BY <2>2 DEF b
<1> QED BY <1>4, <1>5, <1>6 DEF x, y, z, u, Around

\* The characters of such a line.
LEMMA EnclosedAt ==
  ASSUME NEW D, {"n", "open", "close", "sp", "1"} \subseteq D, NEW a \in Seq(D)
  PROVE  LET w == Around(a)
             k == Len(a)
         IN  /\ w \in Seq(D) /\ k \in Nat /\ Len(w) = k + 5
             /\ w[1] = "n" /\ w[2] = "open"
             /\ \A i \in 1..k : w[i + 2] = a[i]
             /\ w[k + 3] = "close" /\ w[k + 4] = "sp" /\ w[k + 5] = "1"
<1> DEFINE x == <<"n">> \o <<"open">>
           z == <<"close">> \o <<"sp", "1">>
           b == x \o a
           w == b \o z
           k == Len(a)
<1>1. /\ x \in Seq(D) /\ z \in Seq(D) /\ Len(x) = 2 /\ Len(z) = 3
      /\ x[1] = "n" /\ x[2] = "open" /\ z[1] = "close" /\ z[2] = "sp" /\ z[3] = "1"
  <2>1. /\ <<"n">> \in Seq(D) /\ <<"open">> \in Seq(D)
        /\ <<"close">> \in Seq(D) /\ <<"sp", "1">> \in Seq(D)
    OBVIOUS
  <2>2. /\ x \in Seq(D) /\ Len(x) = 1 + 1 /\ x[1] = "n" /\ x[2] = <<"open">>[2 - 1]
    BY <2>1, ConcatProperties
  <2>3. /\ z \in Seq(D) /\ Len(z) = 1 + 2 /\ z[1] = "close"
        /\ z[2] = <<"sp", "1">>[2 - 1] /\ z[3] = <<"sp", "1">>[3 - 1]
    BY <2>1, ConcatProperties
  <2> HIDE DEF x, z
  <2> QED BY <2>2, <2>3
<1>2. k \in Nat
  BY LenProperties
<1> HIDE DEF x, z
<1>3. b \in Seq(D) /\ Len(b) = k + 2
      /\ \A i \in 1..k + 2 : b[i] = IF i <= 2 THEN x[i] ELSE a[i - 2]
  <2>1. /\ b \in Seq(D) /\ Len(b) = Len(x) + Len(a)
        /\ \A i \in 1..Len(x) + Len(a) : b[i] = IF i <= Len(x) THEN x[i] ELSE a[i - Len(x)]
    BY <1>1, ConcatProperties
  <2> HIDE DEF b
  <2> QED BY <1>1, <1>2, <2>1
<1> HIDE DEF b
<1>4. w \in Seq(D) /\ Len(w) = k + 5
      /\ \A i \in 1..k + 5 : w[i] = IF i <= k + 2 THEN b[i] ELSE z[i - (k + 2)]
  <2>1. /\ w \in Seq(D) /\ Len(w) = Len(b) + Len(z)
        /\ \A i \in 1..Len(b) + Len(z) : w[i] = IF i <= Len(b) THEN b[i] ELSE z[i - Len(b)]
    BY <1>1, <1>3, ConcatProperties
  <2> HIDE DEF w
  <2> QED BY <1>1, <1>2, <1>3, <2>1
<1> HIDE DEF w, k
<1>5. w[1] = "n" /\ w[2] = "open"
  BY <1>1, <1>2, <1>3, <1>4
<1>6. ASSUME NEW i \in 1..k PROVE w[i + 2] = a[i]
  <2>1. i + 2 \in 1..k + 5 /\ i + 2 <= k + 2 /\ i + 2 \in 1..k + 2 /\ ~ i + 2 <= 2 /\ (i + 2) - 2 = i
    BY <1>2
  <2> QED BY <1>3, <1>4, <2>1
<1>7. w[k + 3] = "close" /\ w[k + 4] = "sp" /\ w[k + 5] = "1"
  <2>1. \A j \in 1..3 : /\ (k + 2) + j \in 1..k + 5 /\ ~ (k + 2) + j <= k + 2
                        /\ ((k + 2) + j) - (k + 2) = j
    BY <1>2
  <2>2. \A j \in 1..3 : w[(k + 2) + j] = z[j]
    BY <1>4, <2>1
  <2>3. (k + 2) + 1 = k + 3 /\ (k + 2) + 2 = k + 4 /\ (k + 2) + 3 = k + 5
    BY <1>2
  <2> QED BY <1>1, <2>2, <2>3
<1> QED BY <1>2, <1>4, <1>5, <1>6, <1>7 DEF w, b, x, z, k, Around

LEMMA IndexIs ==
  ASSUME NEW D, NEW line \in Seq(D), NEW cs, NEW i \in 1..Len(line), line[i] \in cs,
         \A j \in 1..Len(line) : j < i => line[j] \notin cs
  PROVE  IndexAny(line, cs) = i
<1> DEFINE T == {j \in 1..Len(line) : line[j] \in cs}
<1>1. IndexAny(line, cs) = IF T # {} THEN Min(T) ELSE 0
  BY DEF IndexAny, SelectInSeq
<1>2. i \in T /\ \A j \in T : i <= j
  BY LenProperties
<1>3. Len(line) \in Nat /\ T \in SUBSET (0..Len(line))
  BY LenProperties
<1> HIDE DEF T
<1>4. Min(T) = i
  BY ONLY <1>2, <1>3, MinIs
<1> QED BY <1>1, <1>2, <1>4

\* The parts of a sequence.
LEMMA PartIs ==
  ASSUME NEW D, NEW s \in Seq(D), NEW t \in Seq(D), NEW p \in 0..Len(s),
         Len(t) <= Len(s) - p, \A i \in 1..Len(t) : s[p + i] = t[i]
  PROVE  SubSeq(s, p + 1, p + Len(t)) = t
<1> DEFINE m == p + Len(t)
           part == SubSeq(s, p + 1, m)
<1>1. Len(s) \in Nat /\ Len(t) \in Nat
  BY LenProperties
<1>2. p \in Nat /\ m \in Nat /\ m <= Len(s) /\ m - p = Len(t)
  BY <1>1
<1>3. \A i \in p + 1..m : s[i] \in D
  <2>1. \A i \in p + 1..m : i \in 1..Len(s)
    BY <1>1, <1>2
  <2> QED BY <2>1, ElementOfSeq
<1> HIDE DEF m
<1>4. /\ part \in Seq(D)
      /\ Len(part) = IF p + 1 <= m THEN m - (p + 1) + 1 ELSE 0
      /\ \A i \in 1..m - (p + 1) + 1 : part[i] = s[(p + 1) + i - 1]
  BY <1>2, <1>3, SubSeqProperties
<1> HIDE DEF part
<1>5. m - (p + 1) + 1 = Len(t) /\ \A i \in 1..Len(t) : (p + 1) + i - 1 = p + i
  BY <1>1, <1>2
<1>6. Len(part) = Len(t)
  BY <1>1, <1>2, <1>4, <1>5
<1>7. part = t
  BY <1>4, <1>5, <1>6, SeqEqual
<1> QED BY <1>7 DEF part, m

\* The characters at the end of every sample.
LEMMA Ends ==
  ASSUME NEW D, {"n", "open", "close", "sp", "1"} \subseteq D
  PROVE  /\ <<"n">> \in Seq(D) /\ <<"open">> \in Seq(D) /\ <<"close">> \in Seq(D)
         /\ <<"sp", "1">> \in Seq(D)
OBVIOUS

\* A line of a sample with labels, or with braces at least.
LEMMA InjectedAround ==
  ASSUME NEW label, NEW a \in Seq(Chars)
  PROVE  InjectLabel(Around(a), label) = Around(Join(a, label))
<1> DEFINE w == Around(a)
           k == Len(a)
           i == IndexAny(w, {"sp", "open"})
           name == IF i = 0 THEN w ELSE SubSeq(w, 1, i - 1)
           rest == From(w, Len(name) + 1)
           end == IndexAny(rest, {"close"})
           last == <<"close">> \o <<"sp", "1">>
<1>1. /\ {"n", "open", "close", "sp", "1"} \subseteq Letters
      /\ Chars \subseteq Letters /\ a \in Seq(Letters)
      /\ \A j \in 1..k : a[j] # "close"
  <2> HIDE DEF w, i, name, rest, end, last
  <2>1. Chars \subseteq Letters
    BY DEF Chars
  <2>2. \A j \in 1..Len(a) : a[j] \in Chars
    BY ONLY ElementOfSeq
  <2>3. \A j \in 1..Len(a) : a[j] # "close"
    BY ONLY <2>2 DEF Chars
  <2>4. a \in Seq(Letters)
    BY <2>1, SeqMonotonic
  <2>5. {"n", "open", "close", "sp", "1"} \subseteq Letters
    BY DEF Letters
  <2> QED BY <2>1, <2>3, <2>4, <2>5
<1>2. /\ w \in Seq(Letters) /\ k \in Nat /\ Len(w) = k + 5
      /\ w[1] = "n" /\ w[2] = "open"
      /\ \A j \in 1..k : w[j + 2] = a[j]
      /\ w[k + 3] = "close" /\ w[k + 4] = "sp" /\ w[k + 5] = "1"
  BY <1>1, EnclosedAt
<1> HIDE DEF w, k
<1>3. i = 2
  <2>1. 2 \in 1..Len(w) /\ w[2] \in {"sp", "open"}
        /\ \A j \in 1..Len(w) : j < 2 => w[j] \notin {"sp", "open"}
    BY <1>2
  <2> QED BY ONLY <1>2, <2>1, IndexIs
<1>4. name = <<"n">>
  <2> DEFINE t == <<"n">>
  <2>1. t \in Seq(Letters) /\ Len(t) = 1 /\ 0 \in 0..Len(w) /\ Len(t) <= Len(w) - 0
        /\ \A j \in 1..Len(t) : w[0 + j] = t[j]
    BY <1>2
  <2> HIDE DEF t
  <2>2. SubSeq(w, 0 + 1, 0 + Len(t)) = t
    BY ONLY <1>2, <2>1, PartIs
  <2>3. SubSeq(w, 1, 1) = t
    BY <2>1, <2>2
  <2> QED BY <1>3, <2>3 DEF t
<1> HIDE DEF name
<1>5. /\ rest \in Seq(Letters) /\ Len(rest) = k + 4
      /\ \A j \in 1..k + 4 : rest[j] = w[j + 1]
  <2>1. Len(name) = 1
    BY <1>4
  <2>2. rest = SubSeq(w, 2, k + 5)
    BY <1>2, <2>1 DEF From
  <2>3. \A j \in 2..k + 5 : w[j] \in Letters
    BY <1>2, ElementOfSeq
  <2>4. /\ SubSeq(w, 2, k + 5) \in Seq(Letters)
        /\ Len(SubSeq(w, 2, k + 5)) = IF 2 <= k + 5 THEN (k + 5) - 2 + 1 ELSE 0
        /\ \A j \in 1..(k + 5) - 2 + 1 : SubSeq(w, 2, k + 5)[j] = w[2 + j - 1]
    BY <1>2, <2>3, SubSeqProperties
  <2> HIDE DEF rest
  <2>5. (k + 5) - 2 + 1 = k + 4 /\ 2 <= k + 5 /\ \A j \in 1..k + 4 : 2 + j - 1 = j + 1
    BY <1>2
  <2> QED BY <2>2, <2>4, <2>5
<1> HIDE DEF rest, i
<1>6. /\ rest[1] = "open" /\ rest # <<>>
      /\ \A j \in 1..k : rest[j + 1] = a[j]
      /\ rest[k + 2] = "close" /\ rest[k + 3] = "sp" /\ rest[k + 4] = "1"
  <2>1. rest # <<>>
    BY <1>2, <1>5, EmptySeq
  <2>2. rest[1] = "open"
    BY <1>2, <1>5
  <2>3. ASSUME NEW j \in 1..k PROVE rest[j + 1] = a[j]
    <3>1. j + 1 \in 1..k + 4 /\ (j + 1) + 1 = j + 2
      BY <1>2
    <3> QED BY <1>2, <1>5, <3>1
  <2>4. \A j \in 2..4 : k + j \in 1..k + 4 /\ (k + j) + 1 = k + (j + 1)
    BY <1>2
  <2>5. rest[k + 2] = w[k + 3] /\ rest[k + 3] = w[k + 4] /\ rest[k + 4] = w[k + 5]
    BY <1>5, <2>4
  <2> QED BY <1>2, <2>1, <2>2, <2>3, <2>5
<1>7. end = k + 2
  <2>1. k + 2 \in 1..Len(rest) /\ rest[k + 2] \in {"close"}
    BY <1>2, <1>5, <1>6
  <2>2. ASSUME NEW j \in 1..Len(rest), j < k + 2 PROVE rest[j] \notin {"close"}
    <3>1. CASE j = 1
      BY <1>6, <3>1
    <3>2. CASE j # 1
      <4>1. j - 1 \in 1..k /\ (j - 1) + 1 = j
        BY <1>2, <1>5, <2>2, <3>2
      <4> QED BY <1>1, <1>6, <4>1 DEF k
    <3> QED BY <3>1, <3>2
  <2> QED BY ONLY <1>5, <2>1, <2>2, IndexIs
<1> HIDE DEF end
<1>8. SubSeq(rest, 2, end - 1) = a
  <2>1. 1 \in 0..Len(rest) /\ Len(a) <= Len(rest) - 1 /\ \A j \in 1..Len(a) : rest[1 + j] = a[j]
    BY <1>2, <1>5, <1>6 DEF k
  <2>2. SubSeq(rest, 1 + 1, 1 + Len(a)) = a
    BY ONLY <1>1, <1>5, <2>1, PartIs
  <2>3. 1 + 1 = 2 /\ 1 + Len(a) = end - 1
    BY <1>2, <1>7 DEF k
  <2> QED BY <2>2, <2>3
<1>9. From(rest, end) = last
  <2>1. /\ last \in Seq(Letters) /\ Len(last) = 3
        /\ last[1] = "close" /\ last[2] = "sp" /\ last[3] = "1"
    <3>1. <<"close">> \in Seq(Letters) /\ <<"sp", "1">> \in Seq(Letters)
      BY ONLY <1>1, Ends
    <3>2. /\ last \in Seq(Letters) /\ Len(last) = 1 + 2 /\ last[1] = "close"
          /\ last[2] = <<"sp", "1">>[2 - 1] /\ last[3] = <<"sp", "1">>[3 - 1]
      BY <3>1, ConcatProperties
    <3> HIDE DEF last
    <3> QED BY <3>2
  <2> HIDE DEF last
  <2>2. k + 1 \in 0..Len(rest) /\ Len(last) <= Len(rest) - (k + 1)
    BY <1>2, <1>5, <2>1
  <2>3. \A j \in 1..Len(last) : rest[(k + 1) + j] = last[j]
    <3>1. (k + 1) + 1 = k + 2 /\ (k + 1) + 2 = k + 3 /\ (k + 1) + 3 = k + 4
      BY <1>2
    <3>2. \A j \in 1..3 : j = 1 \/ j = 2 \/ j = 3
      OBVIOUS
    <3> QED BY <1>6, <2>1, <3>1, <3>2
  <2>4. SubSeq(rest, (k + 1) + 1, (k + 1) + Len(last)) = last
    BY ONLY <1>5, <2>1, <2>2, <2>3, PartIs
  <2>5. (k + 1) + 1 = end /\ (k + 1) + Len(last) = Len(rest)
    BY <1>2, <1>5, <1>7, <2>1
  <2> QED BY <2>4, <2>5 DEF From
<1>10. InjectLabel(w, label)
         = IF rest # <<>> /\ rest[1] = "open"
           THEN IF end = 0 THEN w
                ELSE name \o <<"open">> \o Join(SubSeq(rest, 2, end - 1), label) \o From(rest, end)
           ELSE name \o <<"open", label, "close">> \o rest
  BY DEF InjectLabel, i, name, rest, end
<1>11. end # 0
  BY <1>2, <1>7
<1> QED BY <1>4, <1>6, <1>8, <1>9, <1>10, <1>11 DEF w, Around

\* A line of a sample without labels and braces.
LEMMA InjectedBare ==
  ASSUME NEW label
  PROVE  InjectLabel(<<"n">> \o <<"sp", "1">>, label)
           = <<"n">> \o <<"open", label, "close">> \o <<"sp", "1">>
<1> DEFINE u == <<"sp", "1">>
           w == <<"n">> \o u
           i == IndexAny(w, {"sp", "open"})
           name == IF i = 0 THEN w ELSE SubSeq(w, 1, i - 1)
           rest == From(w, Len(name) + 1)
<1>1. <<"n">> \in Seq(Letters) /\ u \in Seq(Letters)
  <2> HIDE DEF w, i, name, rest
  <2>1. {"n", "open", "close", "sp", "1"} \subseteq Letters
    BY DEF Letters
  <2> QED BY ONLY <2>1, Ends DEF u
<1>2. w \in Seq(Letters) /\ Len(w) = 3 /\ w[1] = "n" /\ w[2] = "sp" /\ w[3] = "1"
  <2>1. /\ w \in Seq(Letters) /\ Len(w) = 1 + 2 /\ w[1] = "n"
        /\ w[2] = u[2 - 1] /\ w[3] = u[3 - 1]
    BY <1>1, ConcatProperties
  <2> HIDE DEF w
  <2> QED BY <2>1
<1> HIDE DEF w
<1>3. i = 2
  <2>1. 2 \in 1..Len(w) /\ w[2] \in {"sp", "open"}
        /\ \A j \in 1..Len(w) : j < 2 => w[j] \notin {"sp", "open"}
    BY <1>2
  <2> QED BY ONLY <1>2, <2>1, IndexIs
<1>4. name = <<"n">>
  <2>1. Len(<<"n">>) = 1 /\ 0 \in 0..Len(w) /\ 1 <= Len(w) - 0
        /\ \A j \in 1..1 : w[0 + j] = <<"n">>[j]
    BY <1>2
  <2>2. SubSeq(w, 0 + 1, 0 + Len(<<"n">>)) = <<"n">>
    BY ONLY <1>1, <1>2, <2>1, PartIs
  <2> QED BY <1>3, <2>1, <2>2
<1> HIDE DEF name
<1>5. rest = u
  <2>1. Len(u) = 2 /\ 1 \in 0..Len(w) /\ 2 <= Len(w) - 1
        /\ \A j \in 1..2 : w[1 + j] = u[j]
    BY <1>2
  <2>2. SubSeq(w, 1 + 1, 1 + Len(u)) = u
    BY ONLY <1>1, <1>2, <2>1, PartIs
  <2>3. Len(name) = 1
    BY <1>4
  <2> QED BY <1>2, <2>1, <2>2, <2>3 DEF From
<1>6. InjectLabel(w, label)
        = IF rest # <<>> /\ rest[1] = "open"
          THEN IF IndexAny(rest, {"close"}) = 0 THEN w
               ELSE name \o <<"open">> \o Join(SubSeq(rest, 2, IndexAny(rest, {"close"}) - 1), label)
                         \o From(rest, IndexAny(rest, {"close"}))
          ELSE name \o <<"open", label, "close">> \o rest
  BY DEF InjectLabel, i, name, rest
<1>7. rest[1] # "open"
  BY <1>5
<1> QED BY <1>4, <1>5, <1>6, <1>7 DEF w

-----------------------------------------------------------------------------
(***************************************************************************)
(* A line of an answer.                                                    *)
(***************************************************************************)
LabelsOf(line) == [i \in DOMAIN line.labels |-> Label(line.labels[i])]

LEMMA LabelTyped ==
  ASSUME NEW v \in Values, "close" \notin ToSet(v) PROVE Label(v) \in Seq(Chars)
<1>1. v \in Seq(STRING)
  BY ValuesAreTexts
<1>2. \A i \in 1..Len(v) : v[i] \in Chars
  <2>1. ASSUME NEW i \in 1..Len(v) PROVE v[i] \in Chars
    <3>1. v[i] \in STRING /\ v[i] \in ToSet(v)
      BY <1>1, ElementOfSeq, LenProperties DEF ToSet
    <3> QED BY <3>1 DEF Chars, Letters
  <2> QED BY <2>1
<1>3. v \in Seq(Chars)
  BY <1>1, <1>2, LenProperties, IsASeq
<1>4. {"l", "eq", "quote"} \subseteq Chars
  BY DEF Chars, Letters
<1>5. <<"l", "eq", "quote">> \in Seq(Chars) /\ <<"quote">> \in Seq(Chars)
  BY <1>4
<1>6. <<"l", "eq", "quote">> \o v \in Seq(Chars)
  BY <1>3, <1>5, ConcatProperties
<1> QED BY <1>5, <1>6, ConcatProperties DEF Label

LEMMA LabelsTyped ==
  ASSUME NEW line \in Lines, line.kind = "sample", ~ BraceInValue(line)
  PROVE  LabelsOf(line) \in Seq(Seq(Chars))
<1>1. PICK k \in 0..MaxLabels : line.labels \in [1..k -> Values]
  BY DEF Lines
<1>2. k \in Nat
  BY BoundsAreNat
<1>3. \A i \in 1..k : line.labels[i] \in Values /\ "close" \notin ToSet(line.labels[i])
  BY <1>1 DEF BraceInValue
<1>4. LabelsOf(line) \in [1..k -> Seq(Chars)]
  BY <1>1, <1>3, LabelTyped DEF LabelsOf
<1> QED BY ONLY <1>2, <1>4, IsASeq

\* A label more is what injectLabel puts in between.
LEMMA JoinedOneMore ==
  ASSUME NEW D, "comma" \in D, NEW L \in Seq(Seq(D)), NEW label \in D
  PROVE  /\ Joined(L) \in Seq(D)
         /\ Joined(L \o <<<<label>>>>) = Join(Joined(L), label)
         /\ L = <<>> => Joined(L) = <<>>
<1> DEFINE one == <<label>>
           J == Joined(L)
<1>1. one \in Seq(D)
  OBVIOUS
<1>2. <<"comma">> \in Seq(D)
  OBVIOUS
<1>3. <<"comma">> \o one = <<"comma", label>>
  <2>1. /\ <<"comma">> \o one \in Seq(D) /\ Len(<<"comma">> \o one) = 1 + 1
        /\ (<<"comma">> \o one)[1] = "comma" /\ (<<"comma">> \o one)[2] = one[2 - 1]
    BY <1>1, <1>2, ConcatProperties
  <2> DEFINE both == <<"comma">> \o one
             pair == <<"comma", label>>
  <2>2. pair \in Seq(D) /\ Len(pair) = 2 /\ pair[1] = "comma" /\ pair[2] = label
    OBVIOUS
  <2>3. both \in Seq(D) /\ Len(both) = 2 /\ both[1] = "comma" /\ both[2] = label
    <3> HIDE DEF both
    <3> QED BY <2>1 DEF both
  <2> HIDE DEF both, pair
  <2>4. \A j \in 1..2 : both[j] = pair[j]
    BY <2>2, <2>3
  <2>5. both = pair
    BY <2>2, <2>3, <2>4, SeqEqual
  <2> QED BY <2>5 DEF both, pair
<1> HIDE DEF one
<1>4. /\ J \in Seq(D) /\ Joined(L \o <<one>>) = Glue(J, one)
      /\ L = <<>> => J = <<>>
  BY <1>1, JoinedAnother
<1> HIDE DEF J
<1>5. J \o (<<"comma">> \o one) = (J \o <<"comma">>) \o one
  BY ONLY <1>1, <1>2, <1>4, Associated, SMTT(30)
<1>6. Glue(J, one) = IF J = <<>> THEN one ELSE J \o <<"comma", label>>
  <2> DEFINE pair == <<"comma", label>>
  <2>1. <<"comma">> \o one = pair
    BY <1>3
  <2> HIDE DEF pair
  <2>2. (J \o <<"comma">>) \o one = J \o pair
    BY <1>5, <2>1
  <2> QED BY <2>2 DEF Glue, pair
<1>7. Join(J, label) = IF J = <<>> THEN one ELSE J \o <<"comma", label>>
  BY DEF Join, one
<1>8. Joined(L \o <<one>>) = Join(J, label)
  BY <1>4, <1>6, <1>7
<1>9. Joined(L \o <<<<label>>>>) = Join(Joined(L), label)
  BY <1>8 DEF one, J
<1> QED BY <1>4, <1>9 DEF J

\* A line that begins with the name of a metric is a sample.
LEMMA BeginsWithName ==
  ASSUME NEW w \in Seq(Letters), Len(w) # 0, w[1] = "n" PROVE IsSample(w)
<1>1. 1 \in DOMAIN w
  BY LenProperties
<1> QED BY <1>1 DEF IsSample

\* A sample gets the label as its last.
LEMMA InjectedLabel ==
  ASSUME NEW line \in Lines, NEW label, line.kind = "sample", ~ BraceInValue(line)
  PROVE  /\ IsSample(Written(line, <<>>))
         /\ InjectLabel(Written(line, <<>>), label) = Written(line, <<<<label>>>>)
<1> DEFINE L == LabelsOf(line)
           one == <<<<label>>>>
           D == Letters \cup {label}
           J == Joined(L)
<1>1. L \in Seq(Seq(Chars)) /\ L \in Seq(Seq(D))
  <2>1. L \in Seq(Seq(Chars))
    BY LabelsTyped
  <2>2. Chars \subseteq D
    BY DEF Chars
  <2> HIDE DEF L, D
  <2>3. Seq(Chars) \subseteq Seq(D)
    BY ONLY <2>2, SeqMonotonic
  <2>4. Seq(Seq(Chars)) \subseteq Seq(Seq(D))
    BY ONLY <2>3, SeqMonotonic
  <2> QED BY <2>1, <2>4
<1>2. /\ Written(line, <<>>)
           = <<"n">> \o (IF L \o <<>> # <<>> \/ line.braces
                         THEN <<"open">> \o Joined(L \o <<>>) \o <<"close">> ELSE <<>>)
                    \o <<"sp", "1">>
      /\ Written(line, one)
           = <<"n">> \o (IF L \o one # <<>> \/ line.braces
                         THEN <<"open">> \o Joined(L \o one) \o <<"close">> ELSE <<>>)
                    \o <<"sp", "1">>
  BY DEF Written, LabelsOf
<1>3. L \o <<>> = L /\ L \o one # <<>>
  <2>1. Len(one) = 1
    OBVIOUS
  <2>2. one \in Seq(Seq(D))
    OBVIOUS
  <2> HIDE DEF L, one, D
  <2>3. L \o <<>> = L
    BY <1>1, ConcatEmptySeq
  <2>4. Len(L) \in Nat
    BY <1>1, LenProperties
  <2>5. Len(L \o one) = Len(L) + Len(one)
    BY ONLY <1>1, <2>2, ConcatProperties
  <2>6. Len(L \o one) # 0
    BY <2>1, <2>4, <2>5
  <2> QED BY <2>3, <2>6, EmptySeq
<1>4. J \in Seq(Chars) /\ (L = <<>> => J = <<>>)
  <2>1. "comma" \in Chars
    BY DEF Chars, Letters
  <2> HIDE DEF L, D
  <2> QED BY ONLY <1>1, <2>1, JoinedOneMore DEF J
<1>5. Joined(L \o one) = Join(J, label) /\ Join(J, label) \in Seq(D)
  <2>1. "comma" \in D /\ label \in D
    BY DEF Letters
  <2> HIDE DEF L, D
  <2>2. J \in Seq(D) /\ Joined(L \o <<<<label>>>>) = Join(J, label)
    BY ONLY <1>1, <2>1, JoinedOneMore DEF J
  <2>3. <<label>> \in Seq(D) /\ <<"comma", label>> \in Seq(D)
    BY <2>1
  <2>4. Join(J, label) \in Seq(D)
    <3> HIDE DEF J
    <3> QED BY <2>2, <2>3, ConcatProperties DEF Join
  <2> QED BY <2>2, <2>4 DEF one
<1>6. {"n", "open", "close", "sp", "1"} \subseteq D /\ {"n", "open", "close", "sp", "1"} \subseteq Letters
  BY DEF Letters
<1>7. J \in Seq(Letters)
  BY <1>4, SeqMonotonic DEF Chars
<1> HIDE DEF L, one, D, J
<1>8. Written(line, one) = Around(Join(J, label))
  <2>1. <<"n">> \o (<<"open">> \o Join(J, label) \o <<"close">>) \o <<"sp", "1">>
          = Around(Join(J, label))
    BY ONLY <1>5, <1>6, Enclosed
  <2> QED BY <1>2, <1>3, <1>5, <2>1
<1>9. CASE L # <<>> \/ line.braces
  <2>1. <<"n">> \o (<<"open">> \o J \o <<"close">>) \o <<"sp", "1">> = Around(J)
    BY ONLY <1>6, <1>7, Enclosed
  <2>2. Written(line, <<>>) = Around(J)
    BY <1>2, <1>3, <1>9, <2>1 DEF J
  <2>3. InjectLabel(Around(J), label) = Around(Join(J, label))
    BY ONLY <1>4, InjectedAround
  <2>4. IsSample(Around(J))
    <3>1. /\ Around(J) \in Seq(Letters) /\ Len(J) \in Nat /\ Len(Around(J)) = Len(J) + 5
          /\ Around(J)[1] = "n"
      BY ONLY <1>6, <1>7, EnclosedAt
    <3>2. Len(Around(J)) # 0
      BY <3>1
    <3> QED BY ONLY <3>1, <3>2, BeginsWithName
  <2> QED BY <1>8, <2>2, <2>3, <2>4 DEF one
<1>10. CASE ~ (L # <<>> \/ line.braces)
  <2>1. Written(line, <<>>) = <<"n">> \o <<"sp", "1">>
    <3>1. Written(line, <<>>) = <<"n">> \o <<>> \o <<"sp", "1">>
      BY <1>2, <1>3, <1>10
    <3>2. <<"n">> \o <<>> = <<"n">>
      <4>1. <<"n">> \in Seq(Letters)
        BY ONLY <1>6, Ends
      <4> QED BY ONLY <4>1, ConcatEmptySeq
    <3> QED BY <3>1, <3>2
  <2>2. Join(J, label) = <<label>>
    BY <1>4, <1>10 DEF Join
  <2>3. <<"open">> \o <<label>> \o <<"close">> = <<"open", label, "close">>
    <3> DEFINE three == <<"open">> \o <<label>> \o <<"close">>
               two == <<"open">> \o <<label>>
               written == <<"open", label, "close">>
    <3>1. /\ <<"open">> \in Seq(D) /\ <<"close">> \in Seq(D) /\ <<label>> \in Seq(D)
          /\ written \in Seq(D) /\ Len(written) = 3
          /\ written[1] = "open" /\ written[2] = label /\ written[3] = "close"
      BY DEF D, Letters
    <3>2. /\ two \in Seq(D) /\ Len(two) = 1 + 1 /\ two[1] = "open" /\ two[2] = <<label>>[2 - 1]
      BY <3>1, ConcatProperties
    <3> HIDE DEF two, written
    <3>3. two \in Seq(D) /\ Len(two) = 2 /\ two[1] = "open" /\ two[2] = label
      BY <3>2
    <3>4. /\ two \o <<"close">> \in Seq(D) /\ Len(two \o <<"close">>) = 2 + 1
          /\ (two \o <<"close">>)[1] = two[1] /\ (two \o <<"close">>)[2] = two[2]
          /\ (two \o <<"close">>)[3] = <<"close">>[3 - 2]
      <4> DEFINE c == <<"close">>
      <4>1. c \in Seq(D) /\ Len(c) = 1
        BY <3>1
      <4> HIDE DEF c
      <4>2. /\ two \o c \in Seq(D) /\ Len(two \o c) = 2 + 1
            /\ (two \o c)[1] = two[1] /\ (two \o c)[2] = two[2] /\ (two \o c)[3] = c[3 - 2]
        BY ONLY <3>3, <4>1, ConcatProperties, SMTT(30)
      <4> QED BY <4>2 DEF c
    <3>5. three = two \o <<"close">>
      BY DEF two
    <3> HIDE DEF three
    <3>6. /\ three \in Seq(D) /\ Len(three) = 3
          /\ three[1] = "open" /\ three[2] = label /\ three[3] = "close"
      BY <3>3, <3>4, <3>5
    <3>7. \A j \in 1..3 : three[j] = written[j]
      BY <3>1, <3>6
    <3>8. three = written
      BY <3>1, <3>6, <3>7, SeqEqual
    <3> QED BY <3>8 DEF three, written
  <2>4. Written(line, one) = <<"n">> \o <<"open", label, "close">> \o <<"sp", "1">>
    BY <1>2, <1>3, <1>5, <2>2, <2>3
  <2>5. InjectLabel(<<"n">> \o <<"sp", "1">>, label)
          = <<"n">> \o <<"open", label, "close">> \o <<"sp", "1">>
    BY ONLY InjectedBare
  <2>6. IsSample(<<"n">> \o <<"sp", "1">>)
    <3> DEFINE w == <<"n">> \o <<"sp", "1">>
    <3>1. <<"n">> \in Seq(Letters) /\ <<"sp", "1">> \in Seq(Letters)
      BY ONLY <1>6, Ends
    <3>2. w \in Seq(Letters) /\ Len(w) = 1 + 2 /\ w[1] = "n"
      BY <3>1, ConcatProperties
    <3> HIDE DEF w
    <3>3. Len(w) # 0
      BY <3>2
    <3>4. IsSample(w)
      BY ONLY <3>2, <3>3, BeginsWithName
    <3> QED BY <3>4 DEF w
  <2> QED BY <2>1, <2>4, <2>5, <2>6 DEF one
<1> QED BY <1>9, <1>10 DEF one

\* injectLabel leaves the comments and the blank lines alone.
LEMMA RelabelledLine ==
  ASSUME NEW line \in Lines, NEW label, ~ BraceInValue(line)
  PROVE  (IF IsSample(Written(line, <<>>)) THEN InjectLabel(Written(line, <<>>), label)
                                           ELSE Written(line, <<>>))
           = Written(line, <<<<label>>>>)
<1>1. line.kind \in {"sample", "comment", "blank"}
  BY DEF Lines
<1>2. CASE line.kind = "sample"
  BY <1>2, InjectedLabel
<1>3. CASE line.kind = "comment"
  <2>1. \A extra : Written(line, extra) = <<"hash", "sp", "n">>
    BY <1>3 DEF Written
  <2>2. ~ IsSample(<<"hash", "sp", "n">>)
    BY DEF IsSample
  <2> QED BY <2>1, <2>2
<1>4. CASE line.kind = "blank"
  <2>1. \A extra : Written(line, extra) = <<>>
    BY <1>4 DEF Written
  <2>2. ~ IsSample(<<>>)
    BY DEF IsSample
  <2> QED BY <2>1, <2>2
<1> QED BY <1>1, <1>2, <1>3, <1>4

LEMMA RelabelledText ==
  ASSUME NEW text \in Texts, NEW label
  PROVE  LET lines == RelabelText(WrittenText(text), label)
         IN  /\ DOMAIN lines = DOMAIN text
             /\ \A i \in DOMAIN lines :
                  ~ BraceInValue(text[i]) => lines[i] = Written(text[i], <<<<label>>>>)
<1> DEFINE lines == RelabelText(WrittenText(text), label)
<1>1. DOMAIN lines = DOMAIN text /\ DOMAIN WrittenText(text) = DOMAIN text
  BY DEF RelabelText, WrittenText
<1>2. ASSUME NEW i \in DOMAIN text, ~ BraceInValue(text[i])
      PROVE  lines[i] = Written(text[i], <<<<label>>>>)
  <2>1. text[i] \in Lines
    BY DEF Texts
  <2>2. WrittenText(text)[i] = Written(text[i], <<>>)
    BY DEF WrittenText
  <2>3. lines[i] = IF IsSample(Written(text[i], <<>>))
                   THEN InjectLabel(Written(text[i], <<>>), label) ELSE Written(text[i], <<>>)
    BY <1>1, <2>2 DEF RelabelText
  <2> HIDE DEF lines
  <2> QED BY <1>2, <2>1, <2>3, RelabelledLine
<1> QED BY <1>1, <1>2

-----------------------------------------------------------------------------
(***************************************************************************)
(* The ports.                                                              *)
(***************************************************************************)
\* A port is answered by the one process that has it open, or nobody's.
LEMMA ListenerIsBound ==
  ASSUME GatewayInv, NEW p
  PROVE  /\ Listener(p) \in bound \cup {Stranger, Nobody}
         /\ Listener(p) \in bound => port[Listener(p)] = p
         /\ \A i \in bound : port[i] = p => Listener(p) = i
<1>1. \A i, j \in bound : i = j
  BY DEF GatewayInv, GatewayTypeOK, SlotIsSane
<1>2. bound \subseteq Instances
  BY DEF GatewayInv, GatewayTypeOK, SlotIsSane
<1>3. Stranger \notin bound /\ Nobody \notin bound
  BY <1>2, GatewayNamesApart
<1>4. CASE p \in taken
  <2>1. Listener(p) = Stranger
    BY <1>4 DEF Listener
  <2>2. \A i \in bound : port[i] # p
    BY <1>4 DEF GatewayInv
  <2> QED BY <1>3, <2>1, <2>2
<1>5. CASE p \notin taken /\ \E i \in bound : port[i] = p
  <2>1. Listener(p) = CHOOSE i \in bound : port[i] = p
    BY <1>5 DEF Listener
  <2>2. Listener(p) \in bound /\ port[Listener(p)] = p
    BY <1>5, <2>1
  <2> QED BY <1>1, <2>2
<1>6. CASE p \notin taken /\ ~ \E i \in bound : port[i] = p
  <2>1. Listener(p) = Nobody
    BY <1>6 DEF Listener
  <2> QED BY <1>3, <1>6, <2>1
<1> QED BY <1>4, <1>5, <1>6

\* Who answers when i is asked for is i itself, or i is gone for ever.
LEMMA AnswerIsOwnOrWrong ==
  ASSUME GatewayInv, NEW i \in used
  PROVE  Listener(BaseURL(i)) \in {i, Stranger, Nobody} \/ Wrong(i, Listener(BaseURL(i)))
<1> DEFINE j == Listener(port[i])
<1>1. CASE j \in bound /\ j # i
  <2>1. j = slot /\ j \in used
    BY <1>1 DEF GatewayInv, GatewayTypeOK, SlotIsSane
  <2>2. port[j] = port[i]
    BY <1>1, ListenerIsBound
  <2> QED BY <1>1, <2>1, <2>2 DEF Wrong, Gone, BaseURL
<1>2. CASE j \notin bound \/ j = i
  BY <1>2, ListenerIsBound DEF BaseURL
<1> QED BY <1>1, <1>2

LEMMA InitEstablishesInv ==
  ASSUME GatewayInit PROVE GatewayInv
BY GatewayNamesApart
   DEF GatewayInit, Init, GatewayInv, GatewayTypeOK, SlotIsSane, RequestIsSane,
       NoSource, Wrong

USE DEF gatewayVars, vars, owners, machine, requests, scrape

\* What is asked for stays as it is when nobody enters or leaves the slot.
LEMMA OwnersStay ==
  ASSUME NEW i, NEW by, Wrong(i, by), UNCHANGED owners, used \subseteq used',
         slot' = slot \/ slot' \notin used
  PROVE  Wrong(i, by)'
BY DEF Wrong, Gone

LEMMA StepPreservesInv ==
  ASSUME GatewayInv, [GatewayNext]_gatewayVars PROVE GatewayInv'
<1> USE DEF GatewayInv, GatewayTypeOK, SlotIsSane, RequestIsSane
<1>1. ASSUME NEW i \in Instances, NEW m \in Models, NEW p \in Ports, Start(i, m, p)
      PROVE  GatewayInv'
  <2>1. \A k \in used : k # i /\ port'[k] = port[k]
    BY <1>1 DEF Start, Fill
  <2>2. \A k, by : Wrong(k, by) => Wrong(k, by)'
    BY <1>1, <2>1 DEF Start, Fill, Wrong, Gone
  <2>3. bound = {}
    BY <1>1 DEF Start, Fill
  <2>4. GatewayTypeOK'
    BY <1>1 DEF Start, Fill
  <2>5. \A r \in Requests : RequestIsSane(r)'
    BY <1>1, <2>1, <2>2, GatewayNamesApart DEF Start, Fill
  <2>6. p \notin taken
    BY <1>1, GatewayNamesApart DEF Start, Listener
  <2> QED BY <1>1, <2>1, <2>2, <2>3, <2>4, <2>5, <2>6, GatewayNamesApart DEF Start, Fill
<1>2. CASE MarkReady
  <2>1. slot \in live \ (robbed \cup closed) => slot \in bound
    <3> SUFFICES ASSUME slot \in live, slot \notin robbed PROVE slot \in bound
      OBVIOUS
    <3>1. Listener(port[slot]) # Nobody
      BY <1>2 DEF MarkReady, Healthy
    <3>2. Listener(port[slot]) # Stranger
      BY GatewayNamesApart DEF Listener
    <3> QED BY <3>1, <3>2, ListenerIsBound
  <2> QED BY <1>2, <2>1, OwnersStay DEF MarkReady, Ready
<1>3. CASE Stop
  BY <1>3, OwnersStay DEF Stop, Drain
<1>4. CASE Exec
  BY <1>4, OwnersStay, GatewayNamesApart DEF Exec, Spawn
<1>5. CASE Bind
  BY <1>5, OwnersStay DEF Bind
<1>6. CASE Exit
  BY <1>6, OwnersStay DEF Exit, Die
<1>7. CASE Clear
  BY <1>7, OwnersStay, GatewayNamesApart DEF Clear, Vacate
<1>8. ASSUME NEW p \in Ports, Take(p) PROVE GatewayInv'
  <2>1. \A i \in bound : port[i] # p
    BY <1>8, ListenerIsBound, GatewayNamesApart DEF Take
  <2>2. \A i, by : Wrong(i, by) => Wrong(i, by)'
    BY <1>8, OwnersStay DEF Take
  <2>3. robbed \subseteq robbed' /\ robbed' \subseteq used
    BY <1>8 DEF Take
  <2>4. \A r \in Requests : RequestIsSane(r)'
    BY <1>8, <2>2, <2>3 DEF Take
  <2> QED BY <1>8, <2>1, <2>2, <2>3, <2>4 DEF Take
<1>9. ASSUME NEW p \in Ports, Leave(p) PROVE GatewayInv'
  BY <1>9, OwnersStay DEF Leave
<1>10. ASSUME NEW r \in Requests, EnsureReturns(r) PROVE GatewayInv'
  BY <1>10, OwnersStay DEF EnsureReturns
<1>11. ASSUME NEW r \in Requests, Forward(r) PROVE GatewayInv'
  BY <1>11, OwnersStay, ListenerIsBound, AnswerIsOwnOrWrong DEF Forward
<1>12. ASSUME NEW r \in Requests, Finish(r) PROVE GatewayInv'
  BY <1>12, OwnersStay DEF Finish
<1>13. CASE ScrapeCurrent
  BY <1>13, OwnersStay, GatewayNamesApart DEF ScrapeCurrent, Wrong, Gone
<1>14. CASE ScrapeFetch
  BY <1>14, OwnersStay, ListenerIsBound, AnswerIsOwnOrWrong DEF ScrapeFetch
<1>15. CASE ScrapeEnd
  BY <1>15, OwnersStay DEF ScrapeEnd, NoSource
<1>16. CASE UNCHANGED gatewayVars
  BY <1>16, OwnersStay
<1>17. CASE StopListening
  BY <1>17, OwnersStay DEF StopListening
<1> QED BY <1>1, <1>2, <1>3, <1>4, <1>5, <1>6, <1>7, <1>8, <1>9, <1>10, <1>11,
           <1>12, <1>13, <1>14, <1>15, <1>16, <1>17 DEF GatewayNext

(* The inductive invariant, in every reachable state.                      *)
THEOREM Invariance == GatewaySpec => []GatewayInv
<1>1. GatewayInit => GatewayInv
  BY InitEstablishesInv
<1>2. GatewayInv /\ [GatewayNext]_gatewayVars => GatewayInv'
  BY StepPreservesInv
<1> QED BY <1>1, <1>2, PTL DEF GatewaySpec

(* With the ports, the requests and the scrapes the slot still does no     *)
(* more than InstanceSlot lets it, which is what ManagerProofs shows of    *)
(* the manager: the theorems here are about the manager as it is.          *)
THEOREM GatewayKeepsTheSlot == GatewaySpec => Spec
<1>1. GatewayInit => Init
  BY DEF GatewayInit
<1>2. [GatewayNext]_gatewayVars => [Next]_vars
  <2> SUFFICES ASSUME [GatewayNext]_gatewayVars PROVE [Next]_vars
    OBVIOUS
  <2> QED
    BY DEF GatewayNext, Next, Start, MarkReady, Stop, Exec, Bind, StopListening, Exit, Clear,
           Take, Leave,
           EnsureReturns, Forward, Finish, ScrapeCurrent, ScrapeFetch, ScrapeEnd
<1> QED BY <1>1, <1>2, PTL DEF GatewaySpec, Spec

(* The type invariant of the ports, the requests and the scrape.           *)
THEOREM TypeCorrect == GatewaySpec => []GatewayTypeOK
<1>1. GatewayInv => GatewayTypeOK
  BY DEF GatewayInv
<1> QED BY <1>1, Invariance, PTL

(* While a process of its instance lives, a request that is forwarded      *)
(* reaches it, or nobody if its server has left the port, or the program   *)
(* that opened the port before the server did or after it left.            *)
THEOREM ProxyingIsSafe == GatewaySpec => []SafeToProxy
<1>1. GatewayInv => SafeToProxy
  <2> SUFFICES ASSUME GatewayInv, NEW r \in Requests, to[r] \in live
               PROVE  LET by == Listener(BaseURL(to[r])) IN
                        /\ by \in {to[r], Stranger, Nobody}
                        /\ by = Nobody => to[r] \in robbed \cup closed
                        /\ by = Stranger => to[r] \in robbed
    BY DEF SafeToProxy
  <2> DEFINE i  == to[r]
             by == Listener(port[i])
  <2>1. i = slot /\ i # Nil /\ \A j \in bound : j = i
    BY DEF GatewayInv, GatewayTypeOK, SlotIsSane
  <2>2. by \in {i, Stranger, Nobody}
    BY <2>1, ListenerIsBound
  <2>3. i \in bound => by = i
    BY ListenerIsBound
  <2>4. i \notin robbed \cup closed => i \in bound
    BY DEF GatewayInv, RequestIsSane
  <2>5. i \in bound => i \in Instances
    BY DEF GatewayInv, GatewayTypeOK, SlotIsSane
  <2>6. by = Nobody => i \in robbed \cup closed
    BY <2>3, <2>4, <2>5, GatewayNamesApart
  <2>7. by = Stranger => port[i] \in taken
    <3>1. ASSUME port[i] \notin taken PROVE by \in bound \cup {Nobody}
      BY <3>1 DEF Listener
    <3>2. Stranger \notin bound \cup {Nobody}
      BY GatewayNamesApart DEF GatewayInv, GatewayTypeOK, SlotIsSane
    <3> QED BY <3>1, <3>2
  <2>8. by = Stranger => i \in robbed
    BY <2>1, <2>7 DEF GatewayInv
  <2> QED BY <2>2, <2>6, <2>8 DEF BaseURL
<1> QED BY <1>1, Invariance, PTL

(* Another instance answers only if the one that was meant is dead and its *)
(* port was given to the other.                                            *)
THEOREM WrongAnswersNeedAReusedPort == GatewaySpec => []AnswersAreOwn
<1>1. GatewayInv => AnswersAreOwn
  <2> SUFFICES ASSUME GatewayInv PROVE AnswersAreOwn
    OBVIOUS
  <2>1. \A i, by : (by \in {i, Stranger, Nobody} \/ Wrong(i, by)) => MayAnswer(i, by)
    BY GatewayNamesApart
       DEF MayAnswer, Wrong, Gone, GatewayInv, SlotIsSane
  <2> QED BY <2>1 DEF GatewayInv, RequestIsSane, AnswersAreOwn
<1> QED BY <1>1, Invariance, PTL

-----------------------------------------------------------------------------
(***************************************************************************)
(* What a scrape keeps: its instance is one that was started, and has the  *)
(* model it was started with, whoever is in the slot by now.               *)
(***************************************************************************)
ScrapeInv ==
  source # NoSource =>
    /\ source.text \in Texts /\ scraped \in used
    /\ out = RelabelText(WrittenText(source.text), model[scraped])

LEMMA StepPreservesScrape ==
  ASSUME GatewayInv, ScrapeInv, [GatewayNext]_gatewayVars PROVE ScrapeInv'
<1>1. ASSUME UNCHANGED scrape, \A i \in used : model'[i] = model[i], used \subseteq used'
      PROVE  ScrapeInv'
  <2> SUFFICES ASSUME source # NoSource PROVE ScrapeInv'
    BY <1>1 DEF ScrapeInv, NoSource
  <2> QED BY <1>1 DEF ScrapeInv
<1>2. ASSUME NEW i \in Instances, NEW m \in Models, NEW p \in Ports, Start(i, m, p)
      PROVE  ScrapeInv'
  <2>1. \A k \in used : k # i /\ k \in Instances
    BY <1>2 DEF Start, Fill, GatewayInv, SlotIsSane
  <2>2. \A k \in used : model'[k] = model[k]
    BY <1>2, <2>1 DEF Start, GatewayInv, GatewayTypeOK
  <2>3. UNCHANGED scrape /\ used \subseteq used'
    BY <1>2 DEF Start, Fill
  <2> QED BY ONLY <1>1, <2>2, <2>3
<1>3. CASE MarkReady \/ Stop \/ Exec \/ Bind \/ StopListening \/ Exit \/ Clear
  <2>1. UNCHANGED <<model, scrape, used>>
    BY <1>3 DEF MarkReady, Ready, Stop, Drain, Exec, Spawn, Bind, StopListening, Exit, Die, Clear,
                  Vacate
  <2> QED BY <1>1, <2>1
<1>4. ASSUME NEW p \in Ports, Take(p) \/ Leave(p) PROVE ScrapeInv'
  <2>1. UNCHANGED <<model, scrape, used>>
    BY <1>4 DEF Take, Leave
  <2> QED BY <1>1, <2>1
<1>5. ASSUME NEW r \in Requests, EnsureReturns(r) \/ Forward(r) \/ Finish(r) PROVE ScrapeInv'
  <2>1. UNCHANGED <<model, scrape, used>>
    BY <1>5 DEF EnsureReturns, Forward, Finish
  <2> QED BY <1>1, <2>1
<1>6. CASE ScrapeCurrent
  <2>1. scraped \notin used
    BY <1>6, GatewayNamesApart DEF ScrapeCurrent, GatewayInv, SlotIsSane
  <2>2. source' = NoSource
    BY <1>6, <2>1 DEF ScrapeInv, ScrapeCurrent
  <2> QED BY <2>2 DEF ScrapeInv, NoSource
<1>7. CASE ScrapeFetch
  <2>1. scraped \in used
    BY <1>7 DEF ScrapeFetch, GatewayInv
  <2>2. PICK text \in Texts : /\ source' = [by |-> Listener(BaseURL(scraped)), text |-> text]
                              /\ out' = RelabelText(WrittenText(text), model[scraped])
    BY <1>7 DEF ScrapeFetch
  <2>3. source'.text = text
    BY <2>2
  <2>4. scraped' = scraped /\ model' = model /\ used' = used
    BY <1>7 DEF ScrapeFetch
  <2> QED BY <2>1, <2>2, <2>3, <2>4 DEF ScrapeInv
<1>8. CASE ScrapeEnd
  BY <1>8 DEF ScrapeEnd, ScrapeInv, NoSource
<1>9. CASE UNCHANGED gatewayVars
  BY <1>1, <1>9
<1> QED BY <1>2, <1>3, <1>4, <1>5, <1>6, <1>7, <1>8, <1>9 DEF GatewayNext

(* Whatever llama-server writes, and however long its lines and its answer *)
(* are: each sample has the label of the model that was asked for as its   *)
(* last, and the comments are left alone, unless a value has a closing     *)
(* brace.                                                                  *)
THEOREM SamplesAreRight == GatewaySpec => []SamplesAreLabelled
<1>1. GatewayInit => ScrapeInv
  BY DEF GatewayInit, ScrapeInv
<1>2. GatewayInv /\ ScrapeInv /\ [GatewayNext]_gatewayVars => ScrapeInv'
  BY StepPreservesScrape
<1>3. ScrapeInv => SamplesAreLabelled
  <2> SUFFICES ASSUME ScrapeInv, source # NoSource PROVE SamplesAreLabelled
    BY DEF SamplesAreLabelled
  <2> DEFINE text == source.text
             label == model[scraped]
  <2>1. text \in Texts /\ out = RelabelText(WrittenText(text), label)
    BY DEF ScrapeInv
  <2>2. SamplesAreLabelled
          <=> /\ DOMAIN out = DOMAIN text
              /\ \A i \in DOMAIN out :
                   ~ BraceInValue(text[i]) => out[i] = Written(text[i], <<<<label>>>>)
    BY DEF SamplesAreLabelled
  <2> HIDE DEF text, label
  <2> QED BY <2>1, <2>2, RelabelledText
<1> QED BY <1>1, <1>2, <1>3, Invariance, PTL DEF GatewaySpec
=============================================================================
