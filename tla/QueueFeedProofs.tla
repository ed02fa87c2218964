-------------------------- MODULE QueueFeedProofs ---------------------------
(***************************************************************************)
(* For any number of publishers and browsers and any capacity of their     *)
(* channels: the bus never sends on a closed channel, the counter is the   *)
(* number of callers in Ensure, and a change of it that is published alone *)
(* sets the gauge and every page right.                                    *)
(*                                                                         *)
(* A publisher sends only to channels that were subscribed when it took    *)
(* the read lock; they stay subscribed until it gives it up, because a     *)
(* channel leaves the set, and is closed, under the write lock.            *)
(***************************************************************************)
EXTENDS QueueFeed, SequenceTheorems, FiniteSetTheorems, TLAPS

LockInv ==
  /\ pc \in [Callers -> Publishing \cup {"out", "inside"}]
  /\ todo \in [Callers -> SUBSET Clients]
  /\ page \in [Clients -> {"off", "connecting", "watching", "gone"}]
  /\ \A c \in Callers : pc[c] = "send" => c \in readers /\ todo[c] \subseteq subs
  /\ \A k \in subs : k \notin closed /\ page[k] \in {"connecting", "watching"}
  /\ \A k \in closed : page[k] = "gone"
  /\ subs \subseteq Clients /\ closed \subseteq Clients

LEMMA InitLockInv == Init => LockInv
BY DEF Init, LockInv, Publishing

LEMMA LockStep == LockInv /\ [Next]_vars => LockInv'
<1> SUFFICES ASSUME LockInv, [Next]_vars PROVE LockInv'
  OBVIOUS
<1> USE DEF LockInv, Publishing, callVars, busVars, pageVars, GoTo
<1>1. ASSUME NEW c \in Callers, Enter(c) PROVE LockInv'
  BY <1>1 DEF Enter
<1>2. ASSUME NEW c \in Callers, Leave(c) PROVE LockInv'
  BY <1>2 DEF Leave
<1>3. ASSUME NEW c \in Callers, Load(c) PROVE LockInv'
  BY <1>3 DEF Load
<1>4. ASSUME NEW c \in Callers, LockBus(c) PROVE LockInv'
  BY <1>4 DEF LockBus
<1>5. ASSUME NEW c \in Callers, NEW k \in Clients, Send(c, k) PROVE LockInv'
  BY <1>5 DEF Send
<1>6. ASSUME NEW c \in Callers, UnlockBus(c) PROVE LockInv'
  BY <1>6 DEF UnlockBus
<1>7. ASSUME NEW c \in Callers, SetGauge(c) PROVE LockInv'
  BY <1>7 DEF SetGauge
<1>8. ASSUME NEW k \in Clients, Subscribe(k) PROVE LockInv'
  BY <1>8 DEF Subscribe
<1>9. ASSUME NEW k \in Clients, ShowCurrent(k) PROVE LockInv'
  BY <1>9 DEF ShowCurrent
<1>10. ASSUME NEW k \in Clients, Receive(k) PROVE LockInv'
  BY <1>10 DEF Receive
<1>11. ASSUME NEW k \in Clients, Disconnect(k) PROVE LockInv'
  BY <1>11 DEF Disconnect
<1>12. ASSUME UNCHANGED vars PROVE LockInv'
  BY <1>12 DEF vars
<1> QED
  BY <1>1, <1>2, <1>3, <1>4, <1>5, <1>6, <1>7, <1>8, <1>9, <1>10, <1>11, <1>12
     DEF Next, PublishStep, PageStep

(* Publish never panics on a channel that a leaving browser has closed.    *)
THEOREM SendsAreSafe == Spec => []NoSendOnClosed
<1>1. LockInv => NoSendOnClosed
  BY DEF LockInv, NoSendOnClosed
<1> QED
  BY InitLockInv, LockStep, <1>1, PTL DEF Spec

-----------------------------------------------------------------------------
(* Unless two publications have overlapped at most one caller publishes,   *)
(* what it has loaded is the counter, and when it is done so is the gauge. *)
AloneInv ==
  /\ pc \in [Callers -> Publishing \cup {"out", "inside"}]
  /\ seen \in [Callers -> Int]
  /\ ~raced =>
       /\ \A c, d \in Callers : pc[c] \in Publishing /\ pc[d] \in Publishing => c = d
       /\ \A c \in Callers : pc[c] \in {"lock", "send", "gauge"} => seen[c] = depth
       /\ Settled => gauge = depth
  /\ depth \in Int

LEMMA InitAloneInv == Init => AloneInv
BY DEF Init, AloneInv, Publishing, Settled

LEMMA AloneStep == AloneInv /\ [Next]_vars => AloneInv'
<1> SUFFICES ASSUME AloneInv, [Next]_vars PROVE AloneInv'
  OBVIOUS
<1> USE DEF AloneInv, Publishing, Settled, callVars, histVars, GoTo
<1>1. ASSUME NEW c \in Callers, Enter(c) PROVE AloneInv'
  BY <1>1 DEF Enter, Changes
<1>2. ASSUME NEW c \in Callers, Leave(c) PROVE AloneInv'
  BY <1>2 DEF Leave, Changes
<1>3. ASSUME NEW c \in Callers, Load(c) PROVE AloneInv'
  BY <1>3 DEF Load
<1>4. ASSUME NEW c \in Callers, LockBus(c) PROVE AloneInv'
  BY <1>4 DEF LockBus
<1>5. ASSUME NEW c \in Callers, NEW k \in Clients, Send(c, k) PROVE AloneInv'
  BY <1>5 DEF Send
<1>6. ASSUME NEW c \in Callers, UnlockBus(c) PROVE AloneInv'
  BY <1>6 DEF UnlockBus
<1>7. ASSUME NEW c \in Callers, SetGauge(c) PROVE AloneInv'
  BY <1>7 DEF SetGauge
<1>8. ASSUME NEW k \in Clients, PageStep(k) PROVE AloneInv'
  BY <1>8 DEF PageStep, Subscribe, ShowCurrent, Receive, Disconnect
<1>9. ASSUME UNCHANGED vars PROVE AloneInv'
  BY <1>9 DEF vars
<1> QED
  BY <1>1, <1>2, <1>3, <1>4, <1>5, <1>6, <1>7, <1>8, <1>9 DEF Next, PublishStep

(* Once nobody is publishing lim_queue_depth is the number of callers in   *)
(* Ensure, if the latest change was published by itself.                   *)
THEOREM GaugeIsRight == Spec => []GaugeSettles
<1>1. AloneInv => GaugeSettles
  BY DEF AloneInv, GaugeSettles
<1> QED
  BY InitAloneInv, AloneStep, <1>1, PTL DEF Spec

-----------------------------------------------------------------------------
(* Once a change is sent the latest of what a page shows or has yet to     *)
(* show is the counter, unless its channel was full.                       *)
Sent(k) == \A c \in Callers : pc[c] \notin {"load", "lock"} /\ (pc[c] = "send" => k \notin todo[c])

Latest(k) == IF buffer[k] = <<>> THEN badge[k] ELSE buffer[k][Len(buffer[k])]

PageInv ==
  /\ buffer \in [Clients -> Seq(Int)]
  /\ badge \in [Clients -> Int]
  /\ \A k \in Clients : page[k] \in {"connecting", "watching"} => k \in subs
  /\ \A k \in Clients : page[k] = "off" => buffer[k] = <<>>
  /\ ~raced =>
       \A k \in Clients \ missed :
         Sent(k) /\ (page[k] = "watching" \/ (page[k] = "connecting" /\ buffer[k] # <<>>))
           => Latest(k) = depth

Inv == LockInv /\ AloneInv /\ PageInv

LEMMA InitPageInv == Init => PageInv
BY DEF Init, PageInv, Sent

LEMMA AppendLatest ==
  ASSUME NEW b \in Seq(Int), NEW v \in Int
  PROVE  Append(b, v) \in Seq(Int) /\ Append(b, v) # <<>> /\ Append(b, v)[Len(Append(b, v))] = v
<1>1. /\ Append(b, v) \in Seq(Int) /\ Len(Append(b, v)) = Len(b) + 1
      /\ Append(b, v)[Len(b) + 1] = v
  BY AppendProperties
<1>2. Len(b) \in Nat
  BY LenProperties
<1>3. Append(b, v) # <<>>
  BY <1>1, <1>2
<1> QED
  BY <1>1, <1>3

LEMMA TailLatest ==
  ASSUME NEW b \in Seq(Int), b # <<>>
  PROVE  /\ Head(b) \in Int /\ Tail(b) \in Seq(Int)
         /\ Tail(b) = <<>> => Head(b) = b[Len(b)]
         /\ Tail(b) # <<>> => Tail(b)[Len(Tail(b))] = b[Len(b)]
<1>1. /\ Head(b) \in Int /\ Tail(b) \in Seq(Int) /\ Len(Tail(b)) = Len(b) - 1
      /\ \A i \in 1..Len(Tail(b)) : Tail(b)[i] = b[i + 1]
  BY HeadTailProperties
<1>2. Len(b) \in Nat /\ Len(Tail(b)) \in Nat
  BY <1>1, LenProperties
<1>3. CASE Tail(b) = <<>>
  <2>1. Len(Tail(b)) = 0
    BY <1>1, <1>3, EmptySeq
  <2>2. Len(b) = 1
    <3>1. Len(b) - 1 = 0
      BY <1>1, <2>1, Zenon
    <3> QED
      BY ONLY <3>1, <1>2
  <2> QED
    BY <1>1, <1>3, <2>2
<1>4. CASE Tail(b) # <<>>
  <2>1. Len(Tail(b)) \in 1..Len(Tail(b)) /\ Len(Tail(b)) + 1 = Len(b)
    BY <1>1, <1>2, <1>4, EmptySeq
  <2> QED
    BY <1>1, <1>4, <2>1
<1> QED
  BY <1>1, <1>3, <1>4

LEMMA PageKept == Inv /\ [Next]_vars => PageInv'
<1> SUFFICES ASSUME Inv, [Next]_vars PROVE PageInv'
  OBVIOUS
<1> USE DEF Inv, PageInv, Sent, Latest, callVars, busVars, pageVars, histVars, GoTo
<1>1. ASSUME NEW c \in Callers, Enter(c) \/ Leave(c) \/ Load(c) PROVE PageInv'
  <2>1. pc'[c] \in {"load", "lock"}
    BY <1>1 DEF Enter, Leave, Load, LockInv
  <2> QED
    BY <1>1, <2>1 DEF Enter, Leave, Load
<1>2. ASSUME NEW c \in Callers, LockBus(c) PROVE PageInv'
  <2>1. pc'[c] = "send" /\ todo'[c] = subs
    BY <1>2 DEF LockBus, LockInv
  <2> QED
    BY <1>2, <2>1 DEF LockBus
<1>3. ASSUME NEW c \in Callers, NEW k \in Clients, Send(c, k) PROVE PageInv'
  <2>1. /\ pc[c] = "send" /\ k \in todo[c] /\ pc' = pc
        /\ UNCHANGED <<depth, subs, page, badge, raced>>
        /\ k \in subs /\ page[k] # "off"
    BY <1>3 DEF Send, LockInv
  <2>2. \A j \in Clients \ {k} :
          /\ buffer'[j] = buffer[j]
          /\ (j \in missed') <=> (j \in missed)
          /\ \A d \in Callers : (j \in todo'[d]) <=> (j \in todo[d])
    BY <1>3 DEF Send, LockInv
  <2>3. \A j \in Clients \ {k} : Latest(j)' = Latest(j) /\ (Sent(j)' <=> Sent(j))
    <3> TAKE j \in Clients \ {k}
    <3>1. Latest(j)' = Latest(j)
      BY <2>1, <2>2
    <3>2. Sent(j)' <=> Sent(j)
      BY <2>1, <2>2
    <3> QED
      BY <3>1, <3>2
  <2>4. /\ buffer' \in [Clients -> Seq(Int)]
        /\ ~raced /\ k \notin missed' => Latest(k)' = depth
    <3>1. CASE Len(buffer[k]) < Cap
      <4>1. /\ buffer' = [buffer EXCEPT ![k] = Append(@, seen[c])]
            /\ buffer[k] \in Seq(Int) /\ seen[c] \in Int
        BY <1>3, <3>1 DEF Send, AloneInv
      <4>2. /\ buffer'[k] \in Seq(Int) /\ buffer'[k] # <<>>
            /\ buffer'[k][Len(buffer'[k])] = seen[c]
        BY <4>1, AppendLatest
      <4>3. ~raced => seen[c] = depth
        BY <2>1 DEF AloneInv
      <4>4. Latest(k)' = seen[c]
        BY <4>2
      <4>5. buffer' \in [Clients -> Seq(Int)]
        BY <4>1, <4>2
      <4> QED
        BY <4>3, <4>4, <4>5
    <3>2. CASE ~ Len(buffer[k]) < Cap
      <4>1. buffer' = buffer /\ k \in missed'
        BY <1>3, <3>2 DEF Send
      <4> QED
        BY <4>1
    <3> QED
      BY <3>1, <3>2
  <2> HIDE DEF Latest, Sent
  <2>5. ASSUME ~raced', NEW j \in Clients \ missed', Sent(j)',
               page'[j] = "watching" \/ (page'[j] = "connecting" /\ buffer'[j] # <<>>)
        PROVE  Latest(j)' = depth'
    <3>1. CASE j = k
      BY <2>1, <2>4, <2>5, <3>1
    <3>2. CASE j # k
      BY <2>1, <2>2, <2>3, <2>5, <3>2
    <3> QED
      BY <3>1, <3>2
  <2>6. \A j \in Clients : page'[j] = "off" => buffer'[j] = <<>>
    BY <2>1, <2>2
  <2> QED
    BY <2>1, <2>4, <2>5, <2>6
<1>4. ASSUME NEW c \in Callers, UnlockBus(c) PROVE PageInv'
  BY <1>4 DEF UnlockBus, LockInv
<1>5. ASSUME NEW c \in Callers, SetGauge(c) PROVE PageInv'
  BY <1>5 DEF SetGauge, LockInv
<1>6. ASSUME NEW k \in Clients, Subscribe(k) PROVE PageInv'
  BY <1>6 DEF Subscribe, LockInv
<1>7. ASSUME NEW k \in Clients, ShowCurrent(k) PROVE PageInv'
  BY <1>7 DEF ShowCurrent, LockInv, AloneInv
<1>8. ASSUME NEW k \in Clients, Receive(k) PROVE PageInv'
  <2>1. buffer[k] \in Seq(Int) /\ buffer[k] # <<>>
    BY <1>8 DEF Receive
  <2>2. /\ buffer' = [buffer EXCEPT ![k] = Tail(buffer[k])]
        /\ badge' = [badge EXCEPT ![k] = Head(buffer[k])]
        /\ page[k] = "watching" /\ UNCHANGED <<depth, pc, todo, subs, page, raced, missed>>
    BY <1>8 DEF Receive
  <2>3. Head(buffer[k]) \in Int /\ Tail(buffer[k]) \in Seq(Int)
    BY <2>1, TailLatest
  <2>4. Latest(k)' = Latest(k)
    BY <2>1, <2>2, TailLatest
  <2>5. \A j \in Clients \ {k} : Latest(j)' = Latest(j) /\ buffer'[j] = buffer[j]
    BY <2>2
  <2>6. \A j \in Clients : Sent(j)' <=> Sent(j)
    BY <2>2
  <2> HIDE DEF Latest, Sent
  <2> QED
    BY <2>2, <2>3, <2>4, <2>5, <2>6
<1>9. ASSUME NEW k \in Clients, Disconnect(k) PROVE PageInv'
  BY <1>9 DEF Disconnect, LockInv
<1>10. ASSUME UNCHANGED vars PROVE PageInv'
  BY <1>10 DEF vars
<1> QED
  BY <1>1, <1>2, <1>3, <1>4, <1>5, <1>6, <1>7, <1>8, <1>9, <1>10
     DEF Next, PublishStep, PageStep

(* A page that has shown all that arrived shows the counter, whenever it   *)
(* has connected, if the latest change was published by itself and its     *)
(* channel had room for it.                                                *)
THEOREM PagesAreRight == Spec => []PageSettles
<1>1. Inv => PageSettles
  BY DEF Inv, PageInv, PageSettles, Settled, Sent, Latest
<1>2. Inv /\ [Next]_vars => Inv'
  BY LockStep, AloneStep, PageKept DEF Inv
<1>3. Init => Inv
  BY InitLockInv, InitAloneInv, InitPageInv DEF Inv
<1> QED
  BY <1>1, <1>2, <1>3, PTL DEF Spec

-----------------------------------------------------------------------------
(* queueDepth is the number of the callers that have counted themselves in *)
(* and not yet out: no caller is counted twice, and a caller that is about *)
(* to publish that it leaves is not counted any more.                      *)
Counted == {c \in Callers : pc[c] # "out" /\ c \notin leaving}

CountInv ==
  /\ pc \in [Callers -> Publishing \cup {"out", "inside"}]
  /\ leaving \subseteq {c \in Callers : pc[c] \in Publishing}
  /\ depth = Cardinality(Counted)

LEMMA SubsetsAreDepths ==
  ASSUME NEW S \in SUBSET Callers PROVE IsFiniteSet(S) /\ Cardinality(S) \in Depths
<1>1. /\ IsFiniteSet(S) /\ Cardinality(S) <= Cardinality(Callers)
      /\ Cardinality(S) \in Nat /\ Cardinality(Callers) \in Nat
  BY CallersAreFinite, FS_Subset, FS_CardinalityType
<1> QED BY <1>1 DEF Depths

LEMMA CountedIsFinite == IsFiniteSet(Counted) /\ Cardinality(Counted) \in Nat
<1>1. Counted \in SUBSET Callers
  BY DEF Counted
<1> QED BY <1>1, SubsetsAreDepths, FS_CardinalityType

LEMMA InitCountInv == Init => CountInv
<1> SUFFICES ASSUME Init PROVE CountInv
  OBVIOUS
<1>1. Counted = {}
  BY DEF Init, Counted
<1>2. depth = Cardinality(Counted)
  BY <1>1, FS_EmptySet DEF Init
<1> QED BY <1>2 DEF Init, CountInv, Publishing

LEMMA CountStep == CountInv /\ [Next]_vars => CountInv'
<1> SUFFICES ASSUME CountInv, [Next]_vars PROVE CountInv'
  OBVIOUS
<1> USE DEF CountInv, Publishing
<1>1. ASSUME Counted' = Counted, depth' = depth,
             pc' \in [Callers -> Publishing \cup {"out", "inside"}],
             leaving' \subseteq {c \in Callers : pc'[c] \in Publishing}
      PROVE  CountInv'
  BY <1>1
<1>2. ASSUME NEW c \in Callers, Enter(c) PROVE CountInv'
  <2>1. c \notin Counted /\ Counted' = Counted \cup {c}
    BY <1>2 DEF Enter, GoTo, Counted
  <2>2. Cardinality(Counted') = Cardinality(Counted) + 1
    BY <2>1, CountedIsFinite, FS_AddElement
  <2>3. depth' = Cardinality(Counted')
    BY <1>2, <2>2 DEF Enter
  <2>4. /\ pc' \in [Callers -> Publishing \cup {"out", "inside"}]
        /\ leaving' \subseteq {d \in Callers : pc'[d] \in Publishing}
    BY <1>2 DEF Enter, GoTo
  <2> QED BY <2>3, <2>4
<1>3. ASSUME NEW c \in Callers, Leave(c) PROVE CountInv'
  <2>1. c \in Counted /\ Counted' = Counted \ {c}
    BY <1>3 DEF Leave, GoTo, Counted
  <2>2. Cardinality(Counted') = Cardinality(Counted) - 1
    BY <2>1, CountedIsFinite, FS_RemoveElement
  <2>3. depth' = Cardinality(Counted')
    BY <1>3, <2>2 DEF Leave
  <2>4. /\ pc' \in [Callers -> Publishing \cup {"out", "inside"}]
        /\ leaving' \subseteq {d \in Callers : pc'[d] \in Publishing}
    BY <1>3 DEF Leave, GoTo
  <2> QED BY <2>3, <2>4
<1>4. ASSUME NEW c \in Callers, Load(c) \/ LockBus(c) \/ UnlockBus(c) PROVE CountInv'
  BY <1>1, <1>4 DEF Load, LockBus, UnlockBus, GoTo, Counted
<1>5. ASSUME NEW c \in Callers, SetGauge(c) PROVE CountInv'
  BY <1>1, <1>5 DEF SetGauge, GoTo, Counted
<1>6. CASE UNCHANGED callVars
  BY <1>1, <1>6 DEF callVars, Counted
<1>7. ASSUME NEW c \in Callers, NEW k \in Clients, Send(c, k) PROVE CountInv'
  BY <1>6, <1>7 DEF Send
<1>8. ASSUME NEW k \in Clients, PageStep(k) PROVE CountInv'
  BY <1>6, <1>8 DEF PageStep, Subscribe, ShowCurrent, Receive, Disconnect
<1>9. CASE UNCHANGED vars
  BY <1>6, <1>9 DEF vars
<1> QED BY <1>2, <1>3, <1>4, <1>5, <1>7, <1>8, <1>9 DEF Next, PublishStep

(* queueDepth is the number of callers in Ensure, at every moment: each    *)
(* that counts itself in counts itself out, once.                          *)
THEOREM DepthIsRight == Spec => [](depth = Cardinality(Counted))
<1>1. CountInv => depth = Cardinality(Counted)
  BY DEF CountInv
<1> QED BY InitCountInv, CountStep, <1>1, PTL DEF Spec

(* Once nobody is publishing the gauge is the number of callers that are   *)
(* inside Ensure, if the latest change was published by itself.            *)
THEOREM GaugeCountsCallers ==
  Spec => []((Settled /\ ~raced) => gauge = Cardinality({c \in Callers : pc[c] = "inside"}))
<1>1. ASSUME CountInv, GaugeSettles, Settled, ~raced
      PROVE  gauge = Cardinality({c \in Callers : pc[c] = "inside"})
  <2>1. Counted = {c \in Callers : pc[c] = "inside"}
    BY <1>1 DEF Settled, Counted, CountInv, Publishing
  <2> QED BY <1>1, <2>1 DEF GaugeSettles, CountInv
<1> QED BY <1>1, InitCountInv, CountStep, GaugeIsRight, PTL DEF Spec

LEMMA InitTypeOK == Init => TypeOK
<1> SUFFICES ASSUME Init PROVE TypeOK
  OBVIOUS
<1>1. 0 \in Depths
  <2>1. {} \in SUBSET Callers
    OBVIOUS
  <2> QED BY <2>1, SubsetsAreDepths, FS_EmptySet
<1>2. 0 \in 0..MaxCalls /\ 0 <= Cap /\ Len(<<>>) = 0 /\ <<>> \in Seq(Depths)
  BY BoundsAreNatural
<1>3. ASSUME NEW k \in Clients PROVE buffer[k] \in Seq(Depths) /\ Len(buffer[k]) <= Cap
  <2>1. buffer[k] = <<>>
    BY DEF Init
  <2> QED BY <1>2, <2>1
<1> HIDE DEF Depths
<1> QED BY <1>1, <1>2, <1>3 DEF Init, TypeOK, Publishing

LEMMA TypeStep == TypeOK /\ CountInv' /\ [Next]_vars => TypeOK'
<1> SUFFICES ASSUME TypeOK, CountInv', [Next]_vars PROVE TypeOK'
  OBVIOUS
<1>1. depth' \in Depths
  <2>1. Counted' \in SUBSET Callers
    BY DEF Counted
  <2>2. depth' = Cardinality(Counted')
    BY DEF CountInv
  <2> QED BY <2>1, <2>2, SubsetsAreDepths
<1> USE DEF TypeOK, Publishing, callVars, busVars, pageVars, histVars, GoTo
<1>2. ASSUME NEW c \in Callers, Enter(c) PROVE TypeOK'
  <2>1. calls[c] + 1 \in 0..MaxCalls
    BY <1>2, BoundsAreNatural DEF Enter
  <2> QED BY <1>1, <1>2, <2>1 DEF Enter, Changes
<1>3. ASSUME NEW c \in Callers, Leave(c) PROVE TypeOK'
  BY <1>1, <1>3 DEF Leave, Changes
<1>4. ASSUME NEW c \in Callers, Load(c) PROVE TypeOK'
  BY <1>4 DEF Load
<1>5. ASSUME NEW c \in Callers, LockBus(c) PROVE TypeOK'
  BY <1>5 DEF LockBus
<1>6. ASSUME NEW c \in Callers, NEW k \in Clients, Send(c, k) PROVE TypeOK'
  <2>1. seen[c] \in Depths /\ buffer[k] \in Seq(Depths) /\ Len(buffer[k]) \in Nat /\ Cap \in Nat
    BY BoundsAreNatural, LenProperties
  <2>2. /\ Append(buffer[k], seen[c]) \in Seq(Depths)
        /\ Len(Append(buffer[k], seen[c])) = Len(buffer[k]) + 1
    BY <2>1, AppendProperties
  <2>3. Len(buffer[k]) < Cap => Len(buffer[k]) + 1 <= Cap
    BY <2>1
  <2> QED BY <1>6, <2>2, <2>3 DEF Send
<1>7. ASSUME NEW c \in Callers, UnlockBus(c) PROVE TypeOK'
  BY <1>7 DEF UnlockBus
<1>8. ASSUME NEW c \in Callers, SetGauge(c) PROVE TypeOK'
  BY <1>8 DEF SetGauge
<1>9. ASSUME NEW k \in Clients, Subscribe(k) \/ ShowCurrent(k) \/ Disconnect(k) PROVE TypeOK'
  <2>1. CASE Subscribe(k)
    BY <2>1 DEF Subscribe
  <2>2. CASE ShowCurrent(k)
    BY <2>2 DEF ShowCurrent
  <2>3. CASE Disconnect(k)
    BY <2>3 DEF Disconnect
  <2> QED BY <1>9, <2>1, <2>2, <2>3
<1>10. ASSUME NEW k \in Clients, Receive(k) PROVE TypeOK'
  <2>1. buffer[k] \in Seq(Depths) /\ buffer[k] # <<>>
    BY <1>10 DEF Receive
  <2>2. /\ Head(buffer[k]) \in Depths /\ Tail(buffer[k]) \in Seq(Depths)
        /\ Len(Tail(buffer[k])) = Len(buffer[k]) - 1
    BY <2>1, HeadTailProperties
  <2>3. Len(Tail(buffer[k])) <= Cap
    BY <2>1, <2>2, LenProperties, BoundsAreNatural
  <2> QED BY <1>10, <2>2, <2>3 DEF Receive
<1>11. CASE UNCHANGED vars
  BY <1>11 DEF vars
<1> QED
  BY <1>2, <1>3, <1>4, <1>5, <1>6, <1>7, <1>8, <1>9, <1>10, <1>11
     DEF Next, PublishStep, PageStep

(* The type invariant: no event of a full channel is kept, and neither the *)
(* counter nor what is published of it is ever below zero or above the     *)
(* number of callers.                                                      *)
THEOREM TypeCorrect == Spec => []TypeOK
BY InitTypeOK, TypeStep, InitCountInv, CountStep, PTL DEF Spec
=============================================================================
