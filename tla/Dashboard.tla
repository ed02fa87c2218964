----------------------------- MODULE Dashboard ------------------------------
(***************************************************************************)
(* The live request log of the dashboard, over the log that TokenPages     *)
(* reads: the page comes with the last rows (web.go dashboard), its script *)
(* connects to /events, and what `record' publishes arrives through the    *)
(* bus and is put on top of the table, which is cut to its newest rows     *)
(* (dashboard.gohtml). A connection may be lost and lim be killed; the     *)
(* script connects again by itself (sse.js) and asks for no rows. Whose a  *)
(* request is makes no difference here, so all may be of one token.        *)
(***************************************************************************)
EXTENDS TokenPages

CONSTANTS RecentRows, \* how many rows the page comes with, 10 in the code
          TableRows,  \* how many it keeps, 50 in the code
          Cap         \* the capacity of a channel of the bus, 32 in the code

ASSUME TableIsLarge ==
  /\ RecentRows \in Nat /\ TableRows \in Nat \ {0} /\ RecentRows <= TableRows
  /\ Cap \in Nat

VARIABLES
  pending,   \* the requests that are saved and yet to be published
  table,     \* the rows of the page, the last one that came first
  listening, \* whether it is connected to /events
  ch,        \* what is on its way to it, in the channel of its SSE handler
  missed,    \* history: the requests that did not get onto its way
  twice      \* history: those that were pending and in the table it came with

dash == <<pending, table, listening, ch, missed, twice>>

Other == 0   \* an event of another topic

DashInit ==
  /\ Init
  /\ pending = {} /\ table = <<>>
  /\ listening = FALSE /\ ch = <<>>
  /\ missed = {} /\ twice = {}

-----------------------------------------------------------------------------
First(s, n) == SubSeq(s, 1, IF Len(s) < n THEN Len(s) ELSE n)

\* record: Save, then Publish, which drops the event if the channel is full
SaveRow ==
  /\ Save
  /\ pending' = pending \cup {Len(rows) + 1}
  /\ UNCHANGED <<table, listening, ch, missed, twice>>

Room == listening /\ Len(ch) < Cap

Publish(r) ==
  /\ pending' = pending \ {r}
  /\ \/ Room /\ ch' = Append(ch, r) /\ UNCHANGED missed
     \/ ~Room /\ missed' = missed \cup {r} /\ UNCHANGED ch
  /\ UNCHANGED <<vars, table, listening, twice>>

PublishOther ==
  /\ Room /\ ch' = Append(ch, Other)
  /\ UNCHANGED <<vars, pending, table, listening, missed, twice>>

\* The page is opened or loaded again: Recent, and no connection yet.
Render ==
  LET recentRows == First(rows, RecentRows) IN
    /\ table' = recentRows
    /\ missed' = ToSet(rows) \ (ToSet(recentRows) \cup pending)
    /\ twice' = pending \cap ToSet(recentRows)
    /\ listening' = FALSE /\ ch' = <<>>
    /\ UNCHANGED <<vars, pending>>

\* Mutant: the rows are pushed on connect too, as the other fragments are.
Connect_PushesRows ==
  /\ ~listening /\ listening' = TRUE
  /\ table' = First(First(rows, RecentRows) \o table, TableRows)
  /\ UNCHANGED <<vars, pending, ch, missed, twice>>

\* The handler subscribes, for the first time or again.
Connect ==
  /\ ~listening /\ listening' = TRUE
  /\ UNCHANGED <<vars, pending, table, ch, missed, twice>>

Receive ==
  /\ ch # <<>> /\ ch' = Tail(ch)
  /\ table' = IF Head(ch) = Other THEN table ELSE First(<<Head(ch)>> \o table, TableRows)
  /\ UNCHANGED <<vars, pending, listening, missed, twice>>

Lose ==
  /\ listening /\ listening' = FALSE
  /\ ch' = <<>>
  /\ missed' = missed \cup ToSet(ch)
  /\ UNCHANGED <<vars, pending, table, twice>>

\* Lim is killed and started again; the page stays open.
Kill ==
  /\ listening' = FALSE
  /\ ch' = <<>> /\ pending' = {}
  /\ missed' = missed \cup ToSet(ch) \cup pending
  /\ UNCHANGED <<vars, table, twice>>

DashNext ==
  \/ SaveRow
  \/ (CountRequests \/ FirstPage \/ OlderPage) /\ UNCHANGED dash
  \/ \E r \in pending : Publish(r)
  \/ PublishOther \/ Render \/ Connect \/ Receive \/ Lose \/ Kill

DashSpec == DashInit /\ [][DashNext]_<<vars, dash>>

-----------------------------------------------------------------------------
(* The live request log shows requests of the log and nothing else, none   *)
(* twice, and each that is not still on its way, as long as the table is   *)
(* not full; but those that were being published when the page was made    *)
(* may be there twice, and those are missing that were too old for it, or  *)
(* were published while it was not connected or its channel was full, or   *)
(* were lost with the connection or with lim.                              *)
DashboardIsRight ==
  /\ ToSet(table) \subseteq ToSet(rows)
  /\ \A i, j \in DOMAIN table : table[i] = table[j] /\ i # j => table[i] \in twice
  /\ Len(table) <= TableRows
  /\ Len(table) < TableRows =>
       ToSet(rows) \subseteq ToSet(table) \cup ToSet(ch) \cup pending \cup missed
=============================================================================
