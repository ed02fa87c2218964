----------------------------- MODULE TokenPages -----------------------------
(***************************************************************************)
(* The requests of a token, a page at a time (web.go tokenDetail over      *)
(* gorm's StatsByToken and RecentByToken): newest first, found again by    *)
(* LIMIT and OFFSET on every page, while requests go on being recorded.    *)
(* A reader follows "Older" from the first page for as long as there is    *)
(* one.                                                                    *)
(***************************************************************************)
EXTENDS Integers, Sequences, SequencesExt

CONSTANTS PageSize,  \* 25 in the code
          MaxRows    \* how many requests are recorded (a bound of the model)

ASSUME BoundsArePositive == PageSize \in Nat \ {0} /\ MaxRows \in Nat

VARIABLES
  rows,      \* the token's rows, newest first: the k-th inserted is row k
  number,    \* the page the reader is on, 0 before the first
  recent,    \* the rows on it
  hasNext,   \* whether it has a link to an older page
  seen,      \* all the rows the reader has seen
  atStart    \* the rows that were there when the header was made

vars == <<rows, number, recent, hasNext, seen, atStart>>

Init ==
  /\ rows = <<>>
  /\ number = 0
  /\ recent = <<>>
  /\ hasNext = FALSE
  /\ seen = {}
  /\ atStart = {}

-----------------------------------------------------------------------------
\* Save. created_at is taken before the row is inserted, and from a clock
\* that may be set back: the new row may come behind rows there are.
Save ==
  /\ Len(rows) < MaxRows
  /\ \E i \in 1..Len(rows) + 1 : rows' = InsertAt(rows, i, Len(rows) + 1)
  /\ UNCHANGED <<number, recent, hasNext, seen, atStart>>

RecentByToken(limit, offset) ==
  SubSeq(rows, offset + 1, IF offset + limit < Len(rows) THEN offset + limit
                                                        ELSE Len(rows))

\* Mutant: the row that is fetched to learn of a next page counts as shown.
Offset_Fetched(n) == (n - 1) * (PageSize + 1)

Offset(n) == (n - 1) * PageSize

\* Mutant: a full page is taken to have a next one.
HasNext_WhenFull(fetched) == Len(fetched) >= PageSize

HasNext(fetched) == Len(fetched) > PageSize

Cut(fetched) == IF HasNext(fetched) THEN SubSeq(fetched, 1, PageSize) ELSE fetched

Show(n) ==
  LET fetched == RecentByToken(PageSize + 1, Offset(n)) IN
    /\ number' = n
    /\ recent' = Cut(fetched)
    /\ hasNext' = HasNext(fetched)
    /\ seen' = IF n = 1 THEN ToSet(Cut(fetched)) ELSE seen \cup ToSet(Cut(fetched))

\* StatsByToken, the first query of the first page, for its header; rows may
\* come in before RecentByToken.
CountRequests ==
  /\ number = 0
  /\ atStart' = ToSet(rows)
  /\ UNCHANGED <<rows, number, recent, hasNext, seen>>

FirstPage ==
  /\ number = 0
  /\ Show(1)
  /\ UNCHANGED <<rows, atStart>>

OlderPage ==
  /\ number > 0 /\ hasNext
  /\ Show(number + 1)
  /\ UNCHANGED <<rows, atStart>>

Next == Save \/ CountRequests \/ FirstPage \/ OlderPage

Spec == Init /\ [][Next]_vars

-----------------------------------------------------------------------------
AtTheEnd == number > 0 /\ ~ hasNext

(* A reader who went to the last page has seen every request the header of *)
(* the first one was made of: rows recorded meanwhile push the others to   *)
(* later pages, never to earlier ones.                                     *)
PagesMissNothing == AtTheEnd => atStart \subseteq seen

(* "Older" never leads to an empty page.                                   *)
NoEmptyPage == number > 1 => recent # <<>>
=============================================================================
