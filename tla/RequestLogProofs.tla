------------------------- MODULE RequestLogProofs --------------------------
(***************************************************************************)
(* For any page size and any number of requests, recorded in any order     *)
(* while the reader turns the pages: nothing that was there when the       *)
(* header was made is missed, and no page but the first is empty. And for  *)
(* any table and channel: the dashboard shows no request twice and loses   *)
(* none that reached it.                                                   *)
(*                                                                         *)
(* A row only ever moves to a later place, so of the rows of the header    *)
(* those in the places of the pages read so far have been seen: a page     *)
(* adds the places it shows, and a new row can push old ones out of them   *)
(* but only itself in.                                                     *)
(***************************************************************************)
EXTENDS Dashboard, SequenceTheorems, TLAPS

PageInv ==
  /\ rows \in Seq(Nat) /\ \A j \in 1..Len(rows) : rows[j] <= Len(rows)
  /\ atStart \subseteq ToSet(rows)
  /\ number \in Nat
  /\ number > 0 =>
       /\ \A j \in 1..Len(rows) :
            j <= Offset(number + 1) /\ rows[j] \in atStart => rows[j] \in seen
       /\ hasNext => Offset(number + 1) < Len(rows)
       /\ ~ hasNext => atStart \subseteq seen
  /\ NoEmptyPage

-----------------------------------------------------------------------------
LEMMA Inserted ==
  ASSUME NEW s \in Seq(Nat), NEW i \in 1..Len(s) + 1, NEW e \in Nat
  PROVE  /\ InsertAt(s, i, e) \in Seq(Nat)
         /\ Len(InsertAt(s, i, e)) = Len(s) + 1
         /\ \A j \in 1..Len(s) + 1 :
              InsertAt(s, i, e)[j] = IF j < i THEN s[j] ELSE IF j = i THEN e ELSE s[j - 1]
<1> DEFINE front == SubSeq(s, 1, i - 1)
           back  == SubSeq(s, i, Len(s))
<1>1. /\ front \in Seq(Nat) /\ Len(front) = i - 1
      /\ \A j \in 1..i - 1 : front[j] = s[j]
  <2>1. \A j \in 1..i - 1 : s[j] \in Nat
    BY ElementOfSeq
  <2> QED
    BY <2>1, SubSeqProperties, LenProperties
<1>2. /\ back \in Seq(Nat) /\ Len(back) = Len(s) - i + 1
      /\ \A j \in 1..Len(s) - i + 1 : back[j] = s[i + j - 1]
  <2>1. \A j \in i..Len(s) : s[j] \in Nat
    BY ElementOfSeq
  <2> QED
    BY <2>1, SubSeqProperties, LenProperties
<1>3. /\ front \o <<e>> \in Seq(Nat) /\ Len(front \o <<e>>) = i
      /\ \A j \in 1..i : (front \o <<e>>)[j] = IF j < i THEN s[j] ELSE e
  <2>1. <<e>> \in Seq(Nat) /\ Len(<<e>>) = 1 /\ <<e>>[1] = e
    OBVIOUS
  <2> HIDE DEF front
  <2> QED
    BY <1>1, <2>1, ConcatProperties
<1> DEFINE new == front \o <<e>>
<1>4. InsertAt(s, i, e) = new \o back
  BY DEF InsertAt
<1> HIDE DEF front, back, new
<1>5. new \in Seq(Nat) /\ Len(new) = i
  BY <1>3 DEF new
<1>6. /\ new \o back \in Seq(Nat) /\ Len(new \o back) = Len(new) + Len(back)
      /\ \A j \in 1..Len(new) + Len(back) :
           (new \o back)[j] = IF j <= Len(new) THEN new[j] ELSE back[j - Len(new)]
  BY <1>2, <1>5, ConcatProperties
<1>7. Len(s) \in Nat /\ Len(new) + Len(back) = Len(s) + 1
  BY <1>2, <1>5, LenProperties
<1>8. ASSUME NEW j \in 1..Len(s) + 1
      PROVE  (new \o back)[j] = IF j < i THEN s[j] ELSE IF j = i THEN e ELSE s[j - 1]
  <2>1. CASE j <= i
    BY <2>1, <1>3, <1>5, <1>6, <1>7 DEF new
  <2>2. CASE j > i
    <3>1. j - i \in 1..Len(s) - i + 1 /\ j \in 1..Len(new) + Len(back)
      BY <2>2, <1>7
    <3>2. (new \o back)[j] = back[j - i]
      <4>1. (new \o back)[j] = IF j <= Len(new) THEN new[j] ELSE back[j - Len(new)]
        BY ONLY <1>6, <3>1
      <4> QED BY ONLY <2>2, <4>1, <1>5, <1>7, i \in 1..Len(s) + 1, j \in 1..Len(s) + 1
    <3>3. i + (j - i) - 1 = j - 1
      BY <1>7
    <3> QED
      BY <2>2, <3>1, <3>2, <3>3, <1>2, <1>7
  <2> QED
    BY <2>1, <2>2, <1>7
<1> QED
  BY <1>4, <1>6, <1>7, <1>8

\* Where a new row is, and where it moves the others.
LEMMA SavedRow ==
  ASSUME rows \in Seq(Nat), Save
  PROVE  \E i \in 1..Len(rows) + 1 :
           /\ rows' \in Seq(Nat) /\ Len(rows') = Len(rows) + 1
           /\ \A j \in 1..Len(rows) + 1 :
                rows'[j] = IF j < i THEN rows[j] ELSE IF j = i THEN Len(rows) + 1 ELSE rows[j - 1]
<1>1. PICK i \in 1..Len(rows) + 1 : rows' = InsertAt(rows, i, Len(rows) + 1)
  BY DEF Save
<1>2. Len(rows) \in Nat
  BY LenProperties
<1>3. PICK new \in Nat : new = Len(rows) + 1
  BY <1>2
<1>4. /\ InsertAt(rows, i, new) \in Seq(Nat)
      /\ Len(InsertAt(rows, i, new)) = Len(rows) + 1
      /\ \A j \in 1..Len(rows) + 1 :
           InsertAt(rows, i, new)[j] =
             IF j < i THEN rows[j] ELSE IF j = i THEN new ELSE rows[j - 1]
  <2>1. rows \in Seq(Nat) /\ i \in 1..Len(rows) + 1 /\ new \in Nat
    BY <1>2
  <2> QED
    BY ONLY <2>1, Inserted, SMTT(30)
<1> QED
  BY <1>1, <1>3, <1>4

LEMMA OffsetGrows ==
  ASSUME NEW n \in Nat \ {0}
  PROVE  Offset(n) \in Nat /\ Offset(n + 1) = Offset(n) + PageSize
BY BoundsArePositive DEF Offset

\* What page n shows, and what its link says.
LEMMA PageShown ==
  ASSUME rows \in Seq(Nat), NEW n \in Nat \ {0}
  PROVE  LET fetched == RecentByToken(PageSize + 1, Offset(n)) IN
           /\ HasNext(fetched) <=> Offset(n + 1) < Len(rows)
           /\ \A j \in 1..Len(rows) :
                Offset(n) < j /\ j <= Offset(n + 1) => rows[j] \in ToSet(Cut(fetched))
           /\ Offset(n) < Len(rows) => Cut(fetched) # <<>>
<1> DEFINE off == Offset(n)
           last == IF off + (PageSize + 1) < Len(rows) THEN off + (PageSize + 1) ELSE Len(rows)
           fetched == SubSeq(rows, off + 1, last)
<1>1. off \in Nat /\ Offset(n + 1) = off + PageSize /\ PageSize \in Nat \ {0}
  BY OffsetGrows, BoundsArePositive
<1>2. Len(rows) \in Nat
  BY LenProperties
<1>3. RecentByToken(PageSize + 1, Offset(n)) = fetched
  BY DEF RecentByToken
<1> HIDE DEF off
<1>4. last \in Nat /\ last <= Len(rows)
  BY <1>1, <1>2
<1>5. /\ fetched \in Seq(Nat)
      /\ Len(fetched) = IF off + 1 <= last THEN last - (off + 1) + 1 ELSE 0
      /\ \A j \in 1..last - (off + 1) + 1 : fetched[j] = rows[(off + 1) + j - 1]
  <2>1. \A j \in off + 1..last : rows[j] \in Nat
    BY <1>1, <1>2, <1>4, ElementOfSeq
  <2> HIDE DEF last
  <2> QED
    BY <1>1, <1>4, <2>1, SubSeqProperties
<1>6. HasNext(fetched) <=> off + PageSize < Len(rows)
  BY <1>1, <1>2, <1>5 DEF HasNext
<1> HIDE DEF fetched
<1>7. /\ Cut(fetched) \in Seq(Nat)
      /\ Len(Cut(fetched)) = IF HasNext(fetched) THEN PageSize ELSE Len(fetched)
      /\ \A j \in 1..Len(Cut(fetched)) : Cut(fetched)[j] = fetched[j]
  <2>1. CASE HasNext(fetched)
    <3>1. Len(fetched) > PageSize /\ Len(fetched) \in Nat
      BY <2>1, <1>5, LenProperties DEF HasNext
    <3>2. \A j \in 1..PageSize : fetched[j] \in Nat
      <4>1. \A j \in 1..PageSize : j \in 1..Len(fetched)
        BY <3>1, <1>1
      <4> QED
        BY <4>1, <1>5, ElementOfSeq
    <3>3. Cut(fetched) = SubSeq(fetched, 1, PageSize)
      BY <2>1 DEF Cut
    <3>4. /\ SubSeq(fetched, 1, PageSize) \in Seq(Nat)
          /\ Len(SubSeq(fetched, 1, PageSize)) = PageSize
          /\ \A j \in 1..PageSize : SubSeq(fetched, 1, PageSize)[j] = fetched[1 + j - 1]
      BY <3>2, <1>1, SubSeqProperties
    <3> QED
      BY <3>3, <3>4, <2>1, <1>1
  <2>2. CASE ~ HasNext(fetched)
    BY <2>2, <1>5 DEF Cut
  <2> QED
    BY <2>1, <2>2
<1>8. ASSUME NEW j \in 1..Len(rows), off < j, j <= off + PageSize
      PROVE  rows[j] \in ToSet(Cut(fetched))
  <2>1. j - off \in 1..Len(Cut(fetched))
    BY <1>8, <1>1, <1>2, <1>5, <1>6, <1>7
  <2>2. Cut(fetched)[j - off] = rows[j]
    BY <1>8, <2>1, <1>1, <1>2, <1>5, <1>6, <1>7
  <2>3. DOMAIN Cut(fetched) = 1..Len(Cut(fetched))
    BY <1>7, LenProperties
  <2> QED
    BY <2>1, <2>2, <2>3 DEF ToSet
<1>9. ASSUME off < Len(rows) PROVE Cut(fetched) # <<>>
  <2>1. last - (off + 1) + 1 \in Nat \ {0}
    BY <1>9, <1>1, <1>2 DEF last
  <2>2. Len(fetched) \in Nat \ {0}
    BY <2>1, <1>1, <1>4, <1>5
  <2>3. Len(Cut(fetched)) \in Nat \ {0}
    BY <2>2, <1>1, <1>7
  <2> QED
    BY <2>3
<1> QED
  BY <1>1, <1>2, <1>3, <1>6, <1>8, <1>9 DEF off

-----------------------------------------------------------------------------
LEMMA InitPageInv == Init => PageInv
BY DEF Init, PageInv, NoEmptyPage

\* a page other than the first is opened when there is something to show
LEMMA ShowKeepsInv ==
  ASSUME PageInv, NEW n \in Nat \ {0}, Show(n), UNCHANGED <<rows, atStart>>,
         n = 1 \/ (n = number + 1 /\ number > 0 /\ hasNext)
  PROVE  PageInv'
<1> DEFINE fetched == RecentByToken(PageSize + 1, Offset(n))
<1>1. rows \in Seq(Nat) /\ Len(rows) \in Nat
  BY LenProperties DEF PageInv
<1>2. /\ HasNext(fetched) <=> Offset(n + 1) < Len(rows)
      /\ \A j \in 1..Len(rows) :
           Offset(n) < j /\ j <= Offset(n + 1) => rows[j] \in ToSet(Cut(fetched))
      /\ Offset(n) < Len(rows) => Cut(fetched) # <<>>
  BY <1>1, PageShown
<1>3. Offset(n) \in Nat /\ Offset(n + 1) \in Nat
  BY OffsetGrows
<1>4. /\ number' = n /\ recent' = Cut(fetched) /\ hasNext' = HasNext(fetched)
      /\ ToSet(Cut(fetched)) \subseteq seen'
      /\ n # 1 => seen \subseteq seen'
  BY DEF Show
<1> HIDE DEF fetched
<1>5. \A j \in 1..Len(rows) :
        j <= Offset(n + 1) /\ rows[j] \in atStart => rows[j] \in seen'
  <2> TAKE j \in 1..Len(rows)
  <2> HAVE j <= Offset(n + 1) /\ rows[j] \in atStart
  <2>1. CASE Offset(n) < j
    BY <2>1, <1>2, <1>4
  <2>2. CASE j <= Offset(n)
    <3>1. n # 1
      BY <2>2, BoundsArePositive DEF Offset
    <3> QED
      BY <2>2, <3>1, <1>4 DEF PageInv
  <2> QED
    BY <2>1, <2>2, <1>1, <1>3
<1>6. ~ HasNext(fetched) => atStart \subseteq seen'
  <2> HAVE ~ HasNext(fetched)
  <2>1. \A j \in 1..Len(rows) : j <= Offset(n + 1)
    BY <1>1, <1>2, <1>3
  <2>2. ToSet(rows) = {rows[j] : j \in 1..Len(rows)}
    BY <1>1, LenProperties DEF ToSet
  <2> QED
    BY <2>1, <2>2, <1>5 DEF PageInv
<1>7. n > 1 => recent' # <<>>
  BY <1>2, <1>4 DEF PageInv
<1>8. /\ number' \in Nat /\ rows' = rows /\ atStart' = atStart
      /\ Offset(number' + 1) = Offset(n + 1)
  BY <1>4
<1> QED
  BY <1>2, <1>4, <1>5, <1>6, <1>7, <1>8 DEF PageInv, NoEmptyPage, Offset

LEMMA PageStep == PageInv /\ [Next]_vars => PageInv'
<1> SUFFICES ASSUME PageInv, [Next]_vars PROVE PageInv'
  OBVIOUS
<1>1. CASE Save
  <2>2. rows \in Seq(Nat) /\ Len(rows) \in Nat
    BY LenProperties DEF PageInv
  <2>3. PICK i \in 1..Len(rows) + 1 :
          /\ rows' \in Seq(Nat) /\ Len(rows') = Len(rows) + 1
          /\ \A j \in 1..Len(rows) + 1 :
               rows'[j] = IF j < i THEN rows[j] ELSE IF j = i THEN Len(rows) + 1 ELSE rows[j - 1]
    BY <1>1, <2>2, SavedRow
  <2>4. UNCHANGED <<number, recent, hasNext, seen, atStart>>
    BY <1>1 DEF Save
  <2>5. \A j \in 1..Len(rows') : rows'[j] <= Len(rows')
    <3>1. \A j \in 1..Len(rows) : rows[j] \in Nat /\ rows[j] <= Len(rows)
      BY <2>2, ElementOfSeq DEF PageInv
    <3> TAKE j \in 1..Len(rows')
    <3>2. CASE j < i
      <4>1. rows'[j] = rows[j] /\ j \in 1..Len(rows)
        BY <3>2, <2>2, <2>3
      <4>2. rows'[j] <= Len(rows) /\ rows'[j] \in Nat
        BY <4>1, <3>1
      <4> QED
        BY <4>2, <2>2, <2>3
    <3>3. CASE j = i
      BY <3>3, <2>2, <2>3
    <3>4. CASE j > i
      <4>1. rows'[j] = rows[j - 1] /\ j - 1 \in 1..Len(rows)
        BY <3>4, <2>2, <2>3
      <4>2. rows'[j] <= Len(rows) /\ rows'[j] \in Nat
        BY <4>1, <3>1
      <4> QED
        BY <4>2, <2>2, <2>3
    <3> QED
      BY <3>2, <3>3, <3>4, <2>2, <2>3
  <2>6. /\ ToSet(rows) = {rows[j] : j \in 1..Len(rows)}
        /\ ToSet(rows') = {rows'[j] : j \in 1..Len(rows')}
    BY <2>2, <2>3, LenProperties DEF ToSet
  <2>7. \A j \in 1..Len(rows) : rows[j] = rows'[j] \/ rows[j] = rows'[j + 1]
    <3> TAKE j \in 1..Len(rows)
    <3>1. CASE j < i
      BY <3>1, <2>2, <2>3
    <3>2. CASE j >= i
      <4>1. j + 1 \in 1..Len(rows) + 1 /\ j + 1 > i /\ (j + 1) - 1 = j
        BY <3>2, <2>2
      <4>2. rows'[j + 1] = rows[(j + 1) - 1]
        BY <4>1, <2>2, <2>3
      <4> QED
        BY <4>1, <4>2
    <3> QED
      BY <3>1, <3>2, <2>2
  <2>8. atStart \subseteq ToSet(rows')
    <3>1. \A j \in 1..Len(rows) : j \in 1..Len(rows') /\ j + 1 \in 1..Len(rows')
      BY <2>2, <2>3
    <3>2. ToSet(rows) \subseteq ToSet(rows')
      BY <2>6, <2>7, <3>1
    <3> QED
      BY <3>2 DEF PageInv
  <2>9. Len(rows) + 1 \notin atStart
    BY <2>2, <2>6 DEF PageInv
  <2>10. number > 0 =>
           \A j \in 1..Len(rows') :
             j <= Offset(number + 1) /\ rows'[j] \in atStart => rows'[j] \in seen
    <3> SUFFICES ASSUME number > 0, NEW j \in 1..Len(rows'),
                        j <= Offset(number + 1), rows'[j] \in atStart
                 PROVE  rows'[j] \in seen
      OBVIOUS
    <3>1. Offset(number + 1) \in Nat
      BY OffsetGrows DEF PageInv
    <3>2. PICK k \in 1..Len(rows) : k <= j /\ rows'[j] = rows[k]
      BY <2>2, <2>3, <2>9
    <3> QED
      BY <3>1, <3>2, <2>2, <2>3 DEF PageInv
  <2>11. number > 0 /\ hasNext => Offset(number + 1) < Len(rows')
    <3>1. number + 1 \in Nat \ {0}
      BY DEF PageInv
    <3>2. Offset(number + 1) \in Nat
      BY <3>1, OffsetGrows
    <3> QED
      BY <3>2, <2>2, <2>3 DEF PageInv
  <2> QED
    BY <2>3, <2>4, <2>5, <2>8, <2>10, <2>11 DEF PageInv, NoEmptyPage, Offset
<1>2. CASE CountRequests
  BY <1>2 DEF CountRequests, PageInv, NoEmptyPage
<1>3. CASE FirstPage
  <2>1. PICK n \in Nat \ {0} : n = 1
    OBVIOUS
  <2>2. Show(n) /\ UNCHANGED <<rows, atStart>>
    BY <1>3, <2>1 DEF FirstPage
  <2>3. n = 1 \/ (n = number + 1 /\ number > 0 /\ hasNext)
    BY <2>1
  <2> QED
    BY <2>2, <2>3, ShowKeepsInv
<1>4. CASE OlderPage
  <2>1. number + 1 \in Nat \ {0}
    BY DEF PageInv
  <2> QED
    BY <1>4, <2>1, ShowKeepsInv DEF OlderPage
<1>5. CASE UNCHANGED vars
  BY <1>5 DEF vars, PageInv, NoEmptyPage, Offset
<1> QED
  BY <1>1, <1>2, <1>3, <1>4, <1>5 DEF Next

-----------------------------------------------------------------------------
(* The dashboard. A request comes into the table with the page or off the  *)
(* channel; both happen only if it was pending when the page was made.     *)
NoneTwice == \A i, j \in 1..Len(table) : table[i] = table[j] /\ i # j => table[i] \in twice

LogInv ==
  /\ \A i, j \in 1..Len(rows) : rows[i] = rows[j] => i = j
  /\ \A i \in 1..Len(rows) : rows[i] # Other
  /\ pending \subseteq ToSet(rows)

TableInv ==
  /\ table \in Seq(Nat) /\ Len(table) <= TableRows
  /\ ToSet(table) \subseteq ToSet(rows)
  /\ ToSet(table) \cap pending \subseteq twice
  /\ NoneTwice

OnItsWay(r) ==
  r # Other => /\ r \in ToSet(rows) \ pending
               /\ r \in ToSet(table) => r \in twice

ChannelInv ==
  /\ ch \in Seq(Nat)
  /\ \A i \in 1..Len(ch) : OnItsWay(ch[i])
  /\ \A i, j \in 1..Len(ch) : ch[i] = ch[j] /\ i # j => ch[i] = Other

NothingLost ==
  Len(table) < TableRows =>
    ToSet(rows) \subseteq ToSet(table) \cup ToSet(ch) \cup pending \cup missed

DashInv == LogInv /\ TableInv /\ ChannelInv /\ NothingLost

LEMMA SetOf ==
  ASSUME NEW s \in Seq(Nat)
  PROVE  ToSet(s) = {s[i] : i \in 1..Len(s)} /\ Len(s) \in Nat /\ \A i \in 1..Len(s) : s[i] \in Nat
BY LenProperties, ElementOfSeq DEF ToSet

LEMMA FirstOf ==
  ASSUME NEW s \in Seq(Nat), NEW n \in Nat
  PROVE  /\ First(s, n) \in Seq(Nat)
         /\ Len(First(s, n)) = IF Len(s) < n THEN Len(s) ELSE n
         /\ \A i \in 1..Len(First(s, n)) : First(s, n)[i] = s[i]
<1> DEFINE last == IF Len(s) < n THEN Len(s) ELSE n
<1>1. Len(s) \in Nat /\ last \in Nat /\ last <= Len(s)
  BY LenProperties
<1>2. \A i \in 1..last : s[i] \in Nat
  BY <1>1, ElementOfSeq
<1>3. First(s, n) = SubSeq(s, 1, last)
  BY DEF First
<1> HIDE DEF last
<1>4. /\ SubSeq(s, 1, last) \in Seq(Nat)
      /\ Len(SubSeq(s, 1, last)) = last
      /\ \A i \in 1..last : SubSeq(s, 1, last)[i] = s[1 + i - 1]
  BY <1>1, <1>2, SubSeqProperties
<1> QED
  BY <1>1, <1>3, <1>4 DEF last

\* The table after a row was put on top of it.
LEMMA Pushed ==
  ASSUME NEW s \in Seq(Nat), NEW r \in Nat
  PROVE  LET pushed == First(<<r>> \o s, TableRows) IN
           /\ pushed \in Seq(Nat)
           /\ Len(pushed) = IF Len(s) + 1 < TableRows THEN Len(s) + 1 ELSE TableRows
           /\ pushed[1] = r
           /\ \A i \in 1..Len(pushed) : i > 1 => pushed[i] = s[i - 1]
<1> DEFINE whole == <<r>> \o s
<1>1. Len(s) \in Nat /\ TableRows \in Nat \ {0}
  BY LenProperties, TableIsLarge
<1>2. <<r>> \in Seq(Nat) /\ Len(<<r>>) = 1 /\ <<r>>[1] = r
  OBVIOUS
<1>3. /\ whole \in Seq(Nat) /\ Len(whole) = 1 + Len(s)
      /\ \A i \in 1..1 + Len(s) : whole[i] = IF i <= 1 THEN r ELSE s[i - 1]
  BY <1>2, ConcatProperties
<1> HIDE DEF whole
<1>4. /\ First(whole, TableRows) \in Seq(Nat)
      /\ Len(First(whole, TableRows)) = IF Len(whole) < TableRows THEN Len(whole) ELSE TableRows
      /\ \A i \in 1..Len(First(whole, TableRows)) : First(whole, TableRows)[i] = whole[i]
  BY <1>1, <1>3, FirstOf
<1>5. /\ \A i \in 1..Len(First(whole, TableRows)) : i \in 1..1 + Len(s)
      /\ 1 \in 1..Len(First(whole, TableRows))
  BY <1>1, <1>3, <1>4
<1> DEFINE pushed == First(whole, TableRows)
<1>6. Len(pushed) = IF Len(s) + 1 < TableRows THEN Len(s) + 1 ELSE TableRows
  BY <1>1, <1>3, <1>4
<1>7. pushed[1] = r /\ \A i \in 1..Len(pushed) : i > 1 => pushed[i] = s[i - 1]
  <2>1. \A i \in 1..Len(pushed) : pushed[i] = whole[i] /\ i \in 1..1 + Len(s)
    BY <1>4, <1>5
  <2>2. \A i \in 1..1 + Len(s) : i > 1 => whole[i] = s[i - 1]
    BY <1>1, <1>3
  <2>3. whole[1] = r
    BY <1>1, <1>3
  <2> HIDE DEF pushed
  <2> QED
    BY <2>1, <2>2, <2>3, <1>5 DEF pushed
<1> QED
  BY <1>4, <1>6, <1>7 DEF whole

-----------------------------------------------------------------------------
LEMMA InitDashInv == DashInit => DashInv
<1> SUFFICES ASSUME DashInit PROVE DashInv
  OBVIOUS
<1>1. rows = <<>> /\ table = <<>> /\ ch = <<>> /\ pending = {}
  BY DEF DashInit, Init
<1>2. ToSet(<<>>) = {}
  BY DEF ToSet
<1> QED
  BY <1>1, <1>2, TableIsLarge
     DEF DashInv, LogInv, TableInv, NoneTwice, ChannelInv, NothingLost

LEMMA SaveRowKeeps ==
  ASSUME PageInv, DashInv, SaveRow
  PROVE  DashInv'
<1>1. rows \in Seq(Nat) /\ Len(rows) \in Nat /\ Save
  BY LenProperties DEF PageInv, SaveRow
<1>2. PICK i \in 1..Len(rows) + 1 :
        /\ rows' \in Seq(Nat) /\ Len(rows') = Len(rows) + 1
        /\ \A j \in 1..Len(rows) + 1 :
             rows'[j] = IF j < i THEN rows[j] ELSE IF j = i THEN Len(rows) + 1 ELSE rows[j - 1]
  BY <1>1, SavedRow
<1> DEFINE new == Len(rows) + 1
<1>3. UNCHANGED <<table, listening, ch, missed, twice>> /\ pending' = pending \cup {new}
  BY DEF SaveRow
<1>4. /\ ToSet(rows) = {rows[j] : j \in 1..Len(rows)}
      /\ ToSet(rows') = {rows'[j] : j \in 1..Len(rows')}
  BY <1>1, <1>2, SetOf
<1>5. \A j \in 1..Len(rows) : rows[j] \in Nat /\ rows[j] < new /\ rows[j] # Other
  BY <1>1, ElementOfSeq DEF PageInv, DashInv, LogInv
<1>6. new \in Nat /\ new # Other /\ new \notin ToSet(rows)
  BY <1>1, <1>4, <1>5 DEF Other
<1>7. ToSet(rows') = ToSet(rows) \cup {new}
  <2>1. ASSUME NEW j \in 1..Len(rows') PROVE rows'[j] \in ToSet(rows) \cup {new}
    <3>1. CASE j < i
      BY <3>1, <1>1, <1>2, <1>4
    <3>2. CASE j = i
      BY <3>2, <1>1, <1>2
    <3>3. CASE j > i
      <4>1. j - 1 \in 1..Len(rows) /\ rows'[j] = rows[j - 1]
        BY <3>3, <1>1, <1>2
      <4> QED
        BY <4>1, <1>4
    <3> QED
      BY <3>1, <3>2, <3>3, <1>1, <1>2
  <2>2. ASSUME NEW j \in 1..Len(rows) PROVE rows[j] \in ToSet(rows')
    <3>1. CASE j < i
      <4>1. j \in 1..Len(rows') /\ rows'[j] = rows[j]
        BY <3>1, <1>1, <1>2
      <4> QED
        BY <4>1, <1>4
    <3>2. CASE j >= i
      <4>1. j + 1 \in 1..Len(rows') /\ rows'[j + 1] = rows[(j + 1) - 1] /\ (j + 1) - 1 = j
        BY <3>2, <1>1, <1>2, SMTT(30)
      <4> QED
        BY <4>1, <1>4
    <3> QED
      BY <3>1, <3>2, <1>1
  <2>3. new \in ToSet(rows')
    BY <1>1, <1>2, <1>4
  <2> QED
    BY <2>1, <2>2, <2>3, <1>4
<1>8. LogInv'
  <2>1. \A j \in 1..Len(rows') : rows'[j] # Other
    BY <1>4, <1>5, <1>6, <1>7
  <2>2. ASSUME NEW j \in 1..Len(rows'), NEW k \in 1..Len(rows'), rows'[j] = rows'[k]
        PROVE  j = k
    <3> DEFINE old(m) == IF m < i THEN m ELSE m - 1
    <3>1. ASSUME NEW m \in 1..Len(rows'), m # i
          PROVE  old(m) \in 1..Len(rows) /\ rows'[m] = rows[old(m)] /\ rows'[m] < new
      <4>1. old(m) \in 1..Len(rows) /\ m \in 1..Len(rows) + 1
        BY <3>1, <1>1, <1>2
      <4>2. rows'[m] = rows[old(m)]
        BY <3>1, <4>1, <1>1, <1>2
      <4> QED
        BY <4>1, <4>2, <1>5
    <3>2. rows'[i] = new
      BY <1>1, <1>2
    <3>3. CASE j # i /\ k # i
      <4>1. /\ old(j) \in 1..Len(rows) /\ rows'[j] = rows[old(j)]
            /\ old(k) \in 1..Len(rows) /\ rows'[k] = rows[old(k)]
        BY <3>1, <3>3
      <4>2. old(j) = old(k)
        BY ONLY <4>1, <2>2, DashInv DEF DashInv, LogInv
      <4>3. i \in Nat /\ j \in Nat /\ k \in Nat
        BY <1>1, <1>2
      <4> QED
        BY ONLY <4>2, <4>3, <3>3
    <3>4. CASE j = i \/ k = i
      BY <3>1, <3>2, <3>4, <2>2, <1>6
    <3> QED
      BY <3>3, <3>4
  <2> QED
    BY <2>1, <2>2, <1>3, <1>7 DEF DashInv, LogInv
<1>9. TableInv'
  BY <1>3, <1>6, <1>7 DEF DashInv, TableInv, NoneTwice
<1>10. ChannelInv'
  BY <1>3, <1>6, <1>7 DEF DashInv, ChannelInv, OnItsWay
<1>11. NothingLost'
  BY <1>3, <1>7 DEF DashInv, NothingLost
<1> QED
  BY <1>8, <1>9, <1>10, <1>11 DEF DashInv

\* Something is put into the channel: a request, which is pending no more,
\* or an event of another topic.
LEMMA SendKeeps ==
  ASSUME NEW r \in Nat,
         PageInv, DashInv, UNCHANGED <<rows, table, missed, twice>>,
         ch' = Append(ch, r), pending' = pending \ {r}, r # Other => r \in pending
  PROVE  DashInv'
<1>1. ch \in Seq(Nat) /\ Len(ch) \in Nat /\ ToSet(ch) = {ch[i] : i \in 1..Len(ch)}
  BY SetOf DEF DashInv, ChannelInv
<1>2. /\ ch' \in Seq(Nat) /\ Len(ch') = Len(ch) + 1
      /\ \A i \in 1..Len(ch) : ch'[i] = ch[i]
      /\ ch'[Len(ch) + 1] = r
  BY <1>1, AppendProperties
<1>3. ToSet(ch') = ToSet(ch) \cup {r}
  <2>1. ToSet(ch') = {ch'[i] : i \in 1..Len(ch')}
    BY <1>2, SetOf
  <2>2. 1..Len(ch') = (1..Len(ch)) \cup {Len(ch) + 1}
    BY <1>1, <1>2
  <2> QED
    BY <2>1, <2>2, <1>1, <1>2
<1>4. ToSet(table') = ToSet(table) /\ ToSet(rows') = ToSet(rows)
  OBVIOUS
<1>5. LogInv'
  BY <1>4 DEF DashInv, LogInv
<1>6. TableInv'
  BY <1>4 DEF DashInv, TableInv, NoneTwice
<1>7. ChannelInv'
  <2>1. \A i \in 1..Len(ch') : i \in 1..Len(ch) \/ i = Len(ch) + 1
    BY <1>1, <1>2
  <2>2. ASSUME NEW i \in 1..Len(ch') PROVE OnItsWay(ch[i])'
    <3>1. CASE i \in 1..Len(ch)
      BY <3>1, <1>2, <1>4 DEF DashInv, ChannelInv, OnItsWay
    <3>2. CASE i = Len(ch) + 1
      BY <3>2, <1>2, <1>4 DEF DashInv, LogInv, TableInv, OnItsWay
    <3> QED
      BY <2>1, <3>1, <3>2
  <2>3. \A i \in 1..Len(ch) : r # Other => ch[i] # r
    BY DEF DashInv, ChannelInv, OnItsWay
  <2>4. ASSUME NEW i \in 1..Len(ch'), NEW j \in 1..Len(ch'), ch'[i] = ch'[j], i # j
        PROVE  ch'[i] = Other
    BY <2>1, <2>3, <2>4, <1>2 DEF DashInv, ChannelInv
  <2> QED
    BY <2>2, <2>4, <1>2 DEF ChannelInv
<1>8. NothingLost'
  BY <1>3, <1>4 DEF DashInv, NothingLost
<1> QED
  BY <1>5, <1>6, <1>7, <1>8 DEF DashInv

LEMMA PublishKeeps ==
  ASSUME NEW r \in pending, PageInv, DashInv, Publish(r)
  PROVE  DashInv'
<1>1. r \in Nat
  <2>1. ToSet(rows) = {rows[i] : i \in 1..Len(rows)} /\ \A i \in 1..Len(rows) : rows[i] \in Nat
    BY SetOf DEF PageInv
  <2> QED
    BY <2>1 DEF DashInv, LogInv
<1>2. UNCHANGED <<rows, table, twice>> /\ pending' = pending \ {r}
  BY DEF Publish, vars
<1>3. CASE ch' = Append(ch, r) /\ UNCHANGED missed
  BY <1>1, <1>2, <1>3, SendKeeps
<1>4. CASE missed' = missed \cup {r} /\ UNCHANGED ch
  <2>1. ToSet(table') = ToSet(table) /\ ToSet(rows') = ToSet(rows) /\ ToSet(ch') = ToSet(ch)
    BY <1>2, <1>4
  <2>2. LogInv' /\ TableInv'
    BY <1>2, <2>1 DEF DashInv, LogInv, TableInv, NoneTwice
  <2>3. ChannelInv'
    BY <1>2, <1>4, <2>1 DEF DashInv, ChannelInv, OnItsWay
  <2>4. NothingLost'
    BY <1>2, <1>4, <2>1 DEF DashInv, NothingLost
  <2> QED
    BY <2>2, <2>3, <2>4 DEF DashInv
<1> QED
  BY <1>3, <1>4 DEF Publish

LEMMA RenderKeeps ==
  ASSUME PageInv, DashInv, Render
  PROVE  DashInv'
<1> DEFINE recentRows == First(rows, RecentRows)
<1>1. /\ table' = recentRows /\ ch' = <<>> /\ UNCHANGED <<rows, pending>>
      /\ missed' = ToSet(rows) \ (ToSet(recentRows) \cup pending)
      /\ twice' = pending \cap ToSet(recentRows)
  BY DEF Render, vars
<1>2. /\ rows \in Seq(Nat) /\ Len(rows) \in Nat
      /\ ToSet(rows) = {rows[i] : i \in 1..Len(rows)}
  BY SetOf DEF PageInv
<1>3. /\ recentRows \in Seq(Nat)
      /\ Len(recentRows) = IF Len(rows) < RecentRows THEN Len(rows) ELSE RecentRows
      /\ \A i \in 1..Len(recentRows) : recentRows[i] = rows[i]
  BY <1>2, FirstOf, TableIsLarge
<1> HIDE DEF recentRows
<1>4. ToSet(recentRows) = {recentRows[i] : i \in 1..Len(recentRows)}
  BY <1>3, SetOf
<1>5. \A i \in 1..Len(recentRows) : i \in 1..Len(rows)
  BY <1>2, <1>3, TableIsLarge
<1>6. ToSet(recentRows) \subseteq ToSet(rows) /\ Len(recentRows) <= TableRows
  <2>1. Len(recentRows) <= RecentRows
    BY <1>2, <1>3, TableIsLarge
  <2>2. \A i \in 1..Len(recentRows) : recentRows[i] \in ToSet(rows)
    BY <1>2, <1>3, <1>5
  <2>3. ToSet(recentRows) \subseteq ToSet(rows)
    BY ONLY <2>2, <1>4
  <2> QED
    BY ONLY <2>1, <2>3, <1>2, <1>3, TableIsLarge
<1>7. LogInv'
  BY <1>1 DEF DashInv, LogInv
<1>8. TableInv'
  <2>1. NoneTwice'
    BY <1>1, <1>3, <1>5 DEF NoneTwice, DashInv, LogInv
  <2> QED
    BY <2>1, <1>1, <1>3, <1>6 DEF TableInv
<1>9. ChannelInv'
  BY <1>1 DEF ChannelInv
<1>10. NothingLost'
  BY <1>1 DEF NothingLost
<1> QED
  BY <1>7, <1>8, <1>9, <1>10 DEF DashInv

LEMMA ReceiveKeeps ==
  ASSUME PageInv, DashInv, Receive
  PROVE  DashInv'
<1> DEFINE r == Head(ch)
<1>1. /\ ch \in Seq(Nat) /\ ch # <<>> /\ ch' = Tail(ch)
      /\ table' = IF r = Other THEN table ELSE First(<<r>> \o table, TableRows)
      /\ UNCHANGED <<rows, pending, missed, twice>>
  BY DEF Receive, vars, DashInv, ChannelInv
<1>2. /\ Len(ch) \in Nat /\ ToSet(ch) = {ch[i] : i \in 1..Len(ch)}
      /\ \A i \in 1..Len(ch) : ch[i] \in Nat
  BY <1>1, SetOf
<1>3. /\ Len(ch) >= 1 /\ r = ch[1] /\ r \in Nat
      /\ ch' \in Seq(Nat) /\ Len(ch') = Len(ch) - 1
      /\ \A i \in 1..Len(ch') : ch'[i] = ch[i + 1]
  BY <1>1, <1>2
<1>4. ToSet(ch') = {ch'[i] : i \in 1..Len(ch')} /\ \A i \in 1..Len(ch') : i + 1 \in 1..Len(ch)
  BY <1>2, <1>3, SetOf
<1>5. ToSet(ch) = ToSet(ch') \cup {r}
  <2>1. \A i \in 1..Len(ch) : i # 1 => i - 1 \in 1..Len(ch') /\ ch[i] = ch'[i - 1]
    BY <1>2, <1>3
  <2>2. ToSet(ch) \subseteq ToSet(ch') \cup {r}
    <3>1. \A i \in 1..Len(ch) : ch[i] = r \/ ch[i] \in ToSet(ch')
      <4>1. \A i \in 1..Len(ch) : i # 1 => ch[i] \in ToSet(ch')
        BY ONLY <2>1, <1>4
      <4> QED
        BY ONLY <4>1, <1>3
    <3> QED
      BY ONLY <3>1, <1>2
  <2>3. ToSet(ch') \cup {r} \subseteq ToSet(ch)
    BY <1>2, <1>3, <1>4
  <2> QED
    BY <2>2, <2>3
<1>6. \A i \in 1..Len(ch') : r # Other => ch'[i] # r
  <2> SUFFICES ASSUME NEW i \in 1..Len(ch'), r # Other, ch'[i] = r PROVE FALSE
    OBVIOUS
  <2>1. i + 1 \in 1..Len(ch) /\ 1 \in 1..Len(ch) /\ ch[i + 1] = ch[1] /\ i + 1 # 1
    BY <1>2, <1>3, <1>4
  <2> QED
    BY <2>1, <1>3 DEF DashInv, ChannelInv
<1>7. \A i, j \in 1..Len(ch') : ch'[i] = ch'[j] /\ i # j => ch'[i] = Other
  <2> SUFFICES ASSUME NEW i \in 1..Len(ch'), NEW j \in 1..Len(ch'), ch'[i] = ch'[j], i # j
               PROVE  ch'[i] = Other
    OBVIOUS
  <2>1. /\ i + 1 \in 1..Len(ch) /\ j + 1 \in 1..Len(ch) /\ i + 1 # j + 1
        /\ ch[i + 1] = ch'[i] /\ ch[j + 1] = ch'[j]
    BY <1>3, <1>4
  <2> QED
    BY <2>1 DEF DashInv, ChannelInv
<1>8. \A i \in 1..Len(ch') : OnItsWay(ch'[i])
  BY <1>3, <1>4 DEF DashInv, ChannelInv
<1>9. OnItsWay(r)
  BY <1>2, <1>3 DEF DashInv, ChannelInv
<1>10. /\ table \in Seq(Nat) /\ Len(table) \in Nat /\ Len(table) <= TableRows
       /\ ToSet(table) = {table[i] : i \in 1..Len(table)}
  BY SetOf DEF DashInv, TableInv
<1> HIDE DEF r
<1>11. LogInv'
  BY <1>1 DEF DashInv, LogInv
<1>12. CASE r = Other
  <2>1. table' = table
    BY <1>1, <1>12
  <2>2. TableInv'
    BY <1>1, <2>1 DEF DashInv, TableInv, NoneTwice
  <2>3. ChannelInv'
    BY <1>1, <1>3, <1>7, <1>8, <2>1 DEF ChannelInv, OnItsWay
  <2>4. NothingLost'
    <3>1. Other \notin ToSet(rows)
      <4>1. ToSet(rows) = {rows[i] : i \in 1..Len(rows)}
        BY SetOf DEF PageInv
      <4> QED
        BY <4>1 DEF DashInv, LogInv
    <3> QED
      BY <3>1, <1>1, <1>5, <1>12, <2>1 DEF DashInv, NothingLost
  <2> QED
    BY <1>11, <2>2, <2>3, <2>4 DEF DashInv
<1>13. CASE r # Other
  <2>1. table' = First(<<r>> \o table, TableRows)
    BY <1>1, <1>13
  <2>2. /\ table' \in Seq(Nat)
        /\ Len(table') = IF Len(table) + 1 < TableRows THEN Len(table) + 1 ELSE TableRows
        /\ table'[1] = r
        /\ \A i \in 1..Len(table') : i > 1 => table'[i] = table[i - 1]
    BY <1>3, <1>10, <2>1, Pushed
  <2>3. /\ ToSet(table') = {table'[i] : i \in 1..Len(table')}
        /\ \A i \in 1..Len(table') : i = 1 \/ (i > 1 /\ i - 1 \in 1..Len(table))
        /\ 1 \in 1..Len(table') /\ Len(table') <= TableRows
    <3>1. ToSet(table') = {table'[i] : i \in 1..Len(table')}
      BY <2>2, SetOf
    <3>2. Len(table') <= Len(table) + 1 /\ Len(table') \in 1..TableRows
      BY <1>10, <2>2, TableIsLarge
    <3> QED
      BY <3>1, <3>2, <1>10
  <2>4. ToSet(table') \subseteq ToSet(table) \cup {r}
    <3>1. \A i \in 1..Len(table') : table'[i] = r \/ table'[i] \in ToSet(table)
      BY <1>10, <2>2, <2>3
    <3> QED
      BY <3>1, <2>3
  <2>5. r \in ToSet(rows) \ pending /\ (r \in ToSet(table) => r \in twice)
    BY <1>9, <1>13 DEF OnItsWay
  <2>6. NoneTwice'
    <3> SUFFICES ASSUME NEW i \in 1..Len(table'), NEW j \in 1..Len(table'),
                        table'[i] = table'[j], i # j
                 PROVE  table'[i] \in twice
      BY <1>1 DEF NoneTwice
    <3>1. CASE i > 1 /\ j > 1
      <4>1. /\ i - 1 \in 1..Len(table) /\ j - 1 \in 1..Len(table) /\ i - 1 # j - 1
            /\ table'[i] = table[i - 1] /\ table'[j] = table[j - 1]
        BY <3>1, <2>2, <2>3
      <4> QED
        BY <4>1 DEF DashInv, TableInv, NoneTwice
    <3>2. CASE i = 1 \/ j = 1
      <4>1. table'[i] = r /\ r \in ToSet(table)
        BY <3>2, <2>2, <2>3, <1>10
      <4> QED
        BY <4>1, <2>5
    <3> QED
      BY <3>1, <3>2, <2>3
  <2>7. TableInv'
    BY <1>1, <2>2, <2>3, <2>4, <2>5, <2>6 DEF DashInv, TableInv
  <2>8. ChannelInv'
    BY <1>1, <1>3, <1>6, <1>7, <1>8, <1>13, <2>4 DEF ChannelInv, OnItsWay
  <2>9. NothingLost'
    <3> SUFFICES ASSUME Len(table') < TableRows
                 PROVE  ToSet(rows) \subseteq ToSet(table') \cup ToSet(ch') \cup pending \cup missed
      BY <1>1 DEF NothingLost
    <3>1. Len(table') = Len(table) + 1 /\ Len(table) < TableRows
      BY <1>10, <2>2, TableIsLarge
    <3>2. \A i \in 1..Len(table) : i + 1 \in 1..Len(table') /\ table'[i + 1] = table[i]
      BY <3>1, <1>10, <2>2
    <3>3. ToSet(table) \cup {r} \subseteq ToSet(table')
      BY <3>2, <1>10, <2>2, <2>3
    <3> QED
      BY <3>1, <3>3, <1>5 DEF DashInv, NothingLost
  <2> QED
    BY <1>11, <2>7, <2>8, <2>9 DEF DashInv
<1> QED
  BY <1>12, <1>13

\* The connection is gone, and what was in the channel.
LEMMA LoseKeeps ==
  ASSUME DashInv, UNCHANGED <<rows, table, twice>>, ch' = <<>>,
         pending' \subseteq pending,
         missed \cup ToSet(ch) \cup (pending \ pending') \subseteq missed'
  PROVE  DashInv'
<1>1. ToSet(table') = ToSet(table) /\ ToSet(rows') = ToSet(rows)
  OBVIOUS
<1>2. LogInv' /\ TableInv'
  BY <1>1 DEF DashInv, LogInv, TableInv, NoneTwice
<1>3. ChannelInv'
  BY DEF ChannelInv
<1>4. NothingLost'
  BY <1>1 DEF DashInv, NothingLost
<1> QED
  BY <1>2, <1>3, <1>4 DEF DashInv

LEMMA DashStep == PageInv /\ DashInv /\ [DashNext]_<<vars, dash>> => DashInv'
<1> SUFFICES ASSUME PageInv, DashInv, [DashNext]_<<vars, dash>> PROVE DashInv'
  OBVIOUS
<1> DEFINE Same == UNCHANGED <<rows, pending, table, ch, missed, twice>>
<1>1. CASE Same
  BY <1>1 DEF DashInv, LogInv, TableInv, NoneTwice, ChannelInv, OnItsWay, NothingLost
<1>2. CASE (CountRequests \/ FirstPage \/ OlderPage) /\ UNCHANGED dash
  BY <1>1, <1>2 DEF CountRequests, FirstPage, OlderPage, dash
<1>3. CASE PublishOther
  <2>1. /\ 0 \in Nat /\ UNCHANGED <<rows, table, missed, twice>> /\ ch' = Append(ch, 0)
        /\ pending' = pending \ {0} /\ (0 # Other => 0 \in pending)
    <3>1. ToSet(rows) = {rows[i] : i \in 1..Len(rows)}
      BY SetOf DEF PageInv
    <3>2. 0 \notin pending
      BY <3>1 DEF DashInv, LogInv, Other
    <3> QED
      BY <3>2, <1>3 DEF PublishOther, vars, Other
  <2>2. PICK r \in Nat : r = 0
    OBVIOUS
  <2> QED
    BY <2>1, <2>2, SendKeeps
<1>4. CASE Connect
  BY <1>1, <1>4 DEF Connect, vars
<1>5. CASE Lose
  <2>1. /\ UNCHANGED <<rows, table, twice, pending>> /\ ch' = <<>>
        /\ missed' = missed \cup ToSet(ch)
    BY <1>5 DEF Lose, vars
  <2> QED
    BY <2>1, LoseKeeps
<1>6. CASE Kill
  <2>1. /\ UNCHANGED <<rows, table, twice>> /\ ch' = <<>> /\ pending' = {}
        /\ missed' = missed \cup ToSet(ch) \cup pending
    BY <1>6 DEF Kill, vars
  <2> QED
    BY <2>1, LoseKeeps
<1>7. CASE UNCHANGED <<vars, dash>>
  BY <1>1, <1>7 DEF vars, dash
<1> QED
  BY <1>2, <1>3, <1>4, <1>5, <1>6, <1>7, SaveRowKeeps, PublishKeeps, RenderKeeps, ReceiveKeeps
     DEF DashNext

-----------------------------------------------------------------------------
THEOREM Invariance == Spec => []PageInv
BY InitPageInv, PageStep, PTL DEF Spec

(* The log and the pages of a token are those of TokenPages, whatever the  *)
(* dashboard and the connections to it do.                                 *)
THEOREM DashboardKeepsPages == DashSpec => Spec
<1>1. DashInit => Init
  BY DEF DashInit
<1>2. [DashNext]_<<vars, dash>> => [Next]_vars
  BY DEF DashNext, SaveRow, Publish, PublishOther, Render, Connect, Receive, Lose, Kill, Next
<1> QED
  BY <1>1, <1>2, PTL DEF DashSpec, Spec

(* Who follows "Older" to the last page has seen every request that was    *)
(* there when the header was made.                                         *)
THEOREM NothingMissed == DashSpec => []PagesMissNothing
<1>1. PageInv => PagesMissNothing
  BY DEF PageInv, PagesMissNothing, AtTheEnd
<1> QED
  BY DashboardKeepsPages, Invariance, <1>1, PTL

(* No page but the first is ever empty.                                    *)
THEOREM NoPageIsEmpty == DashSpec => []NoEmptyPage
<1>1. PageInv => NoEmptyPage
  BY DEF PageInv
<1> QED
  BY DashboardKeepsPages, Invariance, <1>1, PTL

(* The live request log is the log, as far as it goes: no request twice,   *)
(* none that is not recorded, and none missing that reached the page.      *)
THEOREM DashboardShowsTheLog == DashSpec => []DashboardIsRight
<1>1. PageInv /\ DashInv => DashboardIsRight
  <2> SUFFICES ASSUME PageInv, DashInv PROVE DashboardIsRight
    OBVIOUS
  <2>1. DOMAIN table = 1..Len(table)
    BY LenProperties DEF DashInv, TableInv
  <2> QED
    BY <2>1 DEF DashboardIsRight, DashInv, TableInv, NoneTwice, NothingLost
<1>2. DashSpec => []DashInv
  <2>1. DashSpec => []PageInv
    BY DashboardKeepsPages, Invariance, PTL
  <2> QED
    BY <2>1, InitDashInv, DashStep, PTL DEF DashSpec
<1> QED
  BY <1>1, <1>2, DashboardKeepsPages, Invariance, PTL
=============================================================================
