---------------------------- MODULE ManagerProofs ---------------------------
(***************************************************************************)
(* Proofs about Manager, for any sets of callers, models and instances.    *)
(*                                                                         *)
(* The argument: IndInv ties the point the lock's holder has reached to    *)
(* the slot, to the state of the instance in it and to its process group.  *)
(* Each action preserves it, so the safety invariants follow, and under    *)
(* it each action is a step of the one-slot specification or a stutter.    *)
(***************************************************************************)
EXTENDS Manager, TLAPS

USE DEF callVars, lockVars, slotVars, timerVars, procVars, pollVars, pubVars

-----------------------------------------------------------------------------
(* Type correctness.                                                       *)

LEMMA ViewTypes ==
  /\ \A i \in Instances \cup {Nil}, s \in States : ViewOf(i, s) \in Views
  /\ NoView \in Views
<1>1. \A i \in Instances \cup {Nil}, s \in States : ViewOf(i, s) \in Views
  BY DEF ViewOf, Views
<1> QED
  BY <1>1 DEF NoView, States

LEMMA PublishType ==
  ASSUME TypeOK, NEW i \in Instances, NEW s \in States, NEW m \in Models \cup {StopRequest},
         Publish(i, s, m)
  PROVE  view' \in Views /\ up' \subseteq Models \cup {StopRequest}
BY ViewTypes DEF TypeOK, Publish, SetInstanceUp

LEMMA SnapshotType == TypeOK => Snapshot \in Views
BY ViewTypes DEF TypeOK, Snapshot

LEMMA ClearStoppedType == TypeOK /\ ClearStopped =>
  /\ current' \in Instances \cup {Nil}
  /\ state' \in [Instances -> States]
  /\ view' \in Views
  /\ up' = {}
BY ViewTypes DEF TypeOK, ClearStopped, PublishEmpty, States

LEMMA InitTypes == Init => TypeOK
<1> SUFFICES ASSUME Init PROVE TypeOK
  OBVIOUS
<1>1. stale \in BOOLEAN
  BY DEF Init
<1>2. /\ snap \in [Instances -> Views] /\ view \in Views
      /\ up \subseteq Models \cup {StopRequest}
  BY ViewTypes DEF Init
<1> QED
  BY <1>1, <1>2 DEF Init, TypeOK, States, Stages

(* Every step keeps every variable in its type.                            *)
LEMMA TypeStep == TypeOK /\ SlotIsAt /\ PollerIsAt /\ [Next]_vars => TypeOK'
<1> SUFFICES ASSUME TypeOK, SlotIsAt, PollerIsAt, [Next]_vars PROVE TypeOK'
  OBVIOUS
<1> USE ConstantsApart DEF TypeOK, States, Stages
\* Callers come and go.
<1>1. ASSUME NEW c \in Callers, NEW m \in Models \cup {StopRequest}, CallEnsure(c, m) PROVE TypeOK'
  BY <1>1 DEF CallEnsure
<1>2. ASSUME NEW c \in Callers, FinishUse(c) PROVE TypeOK'
  BY <1>2 DEF FinishUse
\* Ensure and startLocked.
<1>3. ASSUME NEW c \in Callers, EnsureReuse(c) PROVE TypeOK'
  BY <1>3 DEF EnsureReuse, Reusable, Returns
<1>4. ASSUME NEW c \in Callers, EnsureSwap(c) PROVE TypeOK'
  BY <1>4 DEF EnsureSwap, Acquire, Terminate
<1>5. ASSUME SwapOut PROVE TypeOK'
  BY ClearStoppedType, <1>5 DEF SwapOut, ClearStopped
<1>6. ASSUME NEW c \in Callers, EnsureCold(c) PROVE TypeOK'
  BY <1>6 DEF EnsureCold, Acquire
<1>7. ASSUME NEW c \in Callers, PrepareFails(c) PROVE TypeOK'
  BY <1>7 DEF PrepareFails, Release, ReturnsEmpty
<1>8. ASSUME NEW c \in Callers, NEW i \in Instances, Create(c, i) PROVE TypeOK'
  BY PublishType, <1>8 DEF Create
<1>9. ASSUME NEW c \in Callers, SpawnFails(c) PROVE TypeOK'
  BY <1>9 DEF SpawnFails, Release, ReturnsEmpty
<1>10. ASSUME NEW c \in Callers, Spawn(c) PROVE TypeOK'
  BY <1>10 DEF Spawn
<1>11. ASSUME NEW c \in Callers, HealthOk(c) PROVE TypeOK'
  BY <1>11 DEF HealthOk
<1>12. ASSUME NEW c \in Callers, HealthFails(c) PROVE TypeOK'
  BY <1>12 DEF HealthFails, Terminate
<1>13. ASSUME NEW c \in Callers, AbortDone(c) PROVE TypeOK'
  BY ClearStoppedType, <1>13 DEF AbortDone, ClearStopped, Release, ReturnsEmpty
<1>14. ASSUME NEW c \in Callers, MarkReady(c) PROVE TypeOK'
  BY PublishType, <1>14 DEF MarkReady, SlotIsAt
<1>15. ASSUME NEW c \in Callers, ReturnReady(c) PROVE TypeOK'
  BY <1>15 DEF ReturnReady, Returns, Release, SlotIsAt
\* Stop, and the end of the grace period.
<1>16. ASSUME NEW c \in Callers, StopNothing(c) PROVE TypeOK'
  BY <1>16 DEF StopNothing, ReturnsEmpty
<1>17. ASSUME NEW c \in Callers, StopBegin(c) PROVE TypeOK'
  BY <1>17 DEF StopBegin, Acquire, Terminate
<1>18. ASSUME NEW c \in Callers, StopDone(c) PROVE TypeOK'
  BY ClearStoppedType, <1>18 DEF StopDone, ClearStopped, Release, ReturnsEmpty
<1>19. ASSUME GraceExpires PROVE TypeOK'
  BY <1>19 DEF GraceExpires
\* The idle timer.
<1>20. ASSUME NEW i \in Instances, IdleFires(i) PROVE TypeOK'
  BY <1>20 DEF IdleFires
<1>21. ASSUME NEW i \in Instances, IdleStale(i) PROVE TypeOK'
  BY <1>21 DEF IdleStale
<1>22. ASSUME NEW i \in Instances, IdleStop(i) PROVE TypeOK'
  BY <1>22 DEF IdleStop, Acquire
<1>23. ASSUME NEW i \in Instances, IdleStopDone(i) PROVE TypeOK'
  BY ClearStoppedType, <1>23 DEF IdleStopDone, ClearStopped, Release
\* The process group and the reap goroutine.
<1>24. ASSUME NEW i \in Instances, LeaderExits(i) PROVE TypeOK'
  BY <1>24 DEF LeaderExits
<1>25. ASSUME NEW i \in Instances, ChildrenExit(i) PROVE TypeOK'
  BY <1>25 DEF ChildrenExit
<1>26. ASSUME NEW i \in Instances, KillLands(i) PROVE TypeOK'
  BY <1>26 DEF KillLands
<1>27. ASSUME NEW i \in Instances, ReapExit(i) PROVE TypeOK'
  BY <1>27 DEF ReapExit
<1>28. ASSUME NEW i \in Instances, ReapPlanned(i) PROVE TypeOK'
  BY <1>28 DEF ReapPlanned
<1>29. ASSUME NEW i \in Instances, ReapCrash(i) PROVE TypeOK'
  BY ViewTypes, <1>29 DEF ReapCrash, PublishEmpty
\* pollStarting.
<1>30. ASSUME NEW i \in Instances, PollQuits(i) PROVE TypeOK'
  BY <1>30 DEF PollQuits
<1>31. ASSUME NEW i \in Instances, PollCheck(i) PROVE TypeOK'
  BY <1>31 DEF PollCheck
<1>32. ASSUME NEW i \in Instances, PollLoad(i) PROVE TypeOK'
  BY SnapshotType, <1>32 DEF PollLoad
<1>33. ASSUME NEW i \in Instances, PollRead(i) PROVE TypeOK'
  BY ViewTypes, <1>33 DEF PollRead, PollerIsAt, Views
<1>34. ASSUME NEW i \in Instances, PollEvent(i) PROVE TypeOK'
  BY <1>34 DEF PollEvent, Views
<1>35. ASSUME NEW i \in Instances, PollGauge(i) PROVE TypeOK'
  BY ViewTypes, <1>35 DEF PollGauge, SetInstanceUp
<1>36. ASSUME UNCHANGED vars PROVE TypeOK'
  BY <1>36 DEF vars
<1> QED
  BY <1>1, <1>2, <1>3, <1>4, <1>5, <1>6, <1>7, <1>8, <1>9, <1>10, <1>11,
     <1>12, <1>13, <1>14, <1>15, <1>16, <1>17, <1>18, <1>19, <1>20, <1>21,
     <1>22, <1>23, <1>24, <1>25, <1>26, <1>27, <1>28, <1>29, <1>30, <1>31,
     <1>32, <1>33, <1>34, <1>35, <1>36
     DEF Next, CallerStep, CallStop, CallerLocks, CallerProceeds, InstanceStep, IdleLocks,
         ReapLocks, PollStep

-----------------------------------------------------------------------------
(* The inductive invariant.                                                *)

LEMMA InitInv == Init => IndInv
BY ConstantsApart, InitTypes
   DEF Init, IndInv, HolderIsAt, SlotIsAt, ProcessIsAt, PollerIsAt, RestHasIdleTimer,
       NoStrayTimer, Live, Exited, NoView, ViewOf

(* Every step keeps the parts of the invariant that are not types.         *)
LEMMA PartsStep ==
  IndInv /\ [Next]_vars =>
    (HolderIsAt /\ SlotIsAt /\ ProcessIsAt /\ PollerIsAt /\ RestHasIdleTimer /\ NoStrayTimer)'
<1> DEFINE Parts ==
      HolderIsAt /\ SlotIsAt /\ ProcessIsAt /\ PollerIsAt /\ RestHasIdleTimer /\ NoStrayTimer
<1> SUFFICES ASSUME IndInv, [Next]_vars PROVE Parts'
  OBVIOUS
<1> USE ConstantsApart
    DEF IndInv, TypeOK, States, Stages, HolderIsAt, SlotIsAt, ProcessIsAt, PollerIsAt,
        RestHasIdleTimer, NoStrayTimer, Live, Exited
\* Callers come and go.
<1>1. ASSUME NEW c \in Callers, NEW m \in Models \cup {StopRequest}, CallEnsure(c, m) PROVE Parts'
  BY <1>1 DEF CallEnsure
<1>2. ASSUME NEW c \in Callers, FinishUse(c) PROVE Parts'
  BY <1>2 DEF FinishUse
\* Ensure and startLocked.
<1>3. ASSUME NEW c \in Callers, EnsureReuse(c) PROVE Parts'
  BY <1>3 DEF EnsureReuse, Reusable, Returns
<1>4. ASSUME NEW c \in Callers, EnsureSwap(c) PROVE Parts'
  BY <1>4 DEF EnsureSwap, Acquire, Terminate
<1>5. ASSUME SwapOut PROVE Parts'
  BY <1>5 DEF SwapOut, ClearStopped
<1>6. ASSUME NEW c \in Callers, EnsureCold(c) PROVE Parts'
  BY <1>6 DEF EnsureCold, Acquire
<1>7. ASSUME NEW c \in Callers, PrepareFails(c) PROVE Parts'
  BY <1>7 DEF PrepareFails, Release, ReturnsEmpty
<1>8. ASSUME NEW c \in Callers, NEW i \in Instances, Create(c, i) PROVE Parts'
  BY <1>8 DEF Create
<1>9. ASSUME NEW c \in Callers, SpawnFails(c) PROVE Parts'
  BY <1>9 DEF SpawnFails, Release, ReturnsEmpty
<1>10. ASSUME NEW c \in Callers, Spawn(c) PROVE Parts'
  BY <1>10 DEF Spawn
<1>11. ASSUME NEW c \in Callers, HealthOk(c) PROVE Parts'
  BY <1>11 DEF HealthOk
<1>12. ASSUME NEW c \in Callers, HealthFails(c) PROVE Parts'
  BY <1>12 DEF HealthFails, Terminate
<1>13. ASSUME NEW c \in Callers, AbortDone(c) PROVE Parts'
  BY <1>13 DEF AbortDone, ClearStopped, Release, ReturnsEmpty
<1>14. ASSUME NEW c \in Callers, MarkReady(c) PROVE Parts'
  BY <1>14 DEF MarkReady
<1>15. ASSUME NEW c \in Callers, ReturnReady(c) PROVE Parts'
  BY <1>15 DEF ReturnReady, Returns, Release
\* Stop, and the end of the grace period.
<1>16. ASSUME NEW c \in Callers, StopNothing(c) PROVE Parts'
  BY <1>16 DEF StopNothing, ReturnsEmpty
<1>17. ASSUME NEW c \in Callers, StopBegin(c) PROVE Parts'
  BY <1>17 DEF StopBegin, Acquire, Terminate
<1>18. ASSUME NEW c \in Callers, StopDone(c) PROVE Parts'
  BY <1>18 DEF StopDone, ClearStopped, Release, ReturnsEmpty
<1>19. ASSUME GraceExpires PROVE Parts'
  BY <1>19 DEF GraceExpires
\* The idle timer.
<1>20. ASSUME NEW i \in Instances, IdleFires(i) PROVE Parts'
  BY <1>20 DEF IdleFires
<1>21. ASSUME NEW i \in Instances, IdleStale(i) PROVE Parts'
  BY <1>21 DEF IdleStale
<1>22. ASSUME NEW i \in Instances, IdleStop(i) PROVE Parts'
  BY <1>22 DEF IdleStop, Acquire
<1>23. ASSUME NEW i \in Instances, IdleStopDone(i) PROVE Parts'
  BY <1>23 DEF IdleStopDone, ClearStopped, Release
\* The process group and the reap goroutine.
<1>24. ASSUME NEW i \in Instances, LeaderExits(i) PROVE Parts'
  BY <1>24 DEF LeaderExits
<1>25. ASSUME NEW i \in Instances, ChildrenExit(i) PROVE Parts'
  BY <1>25 DEF ChildrenExit
<1>26. ASSUME NEW i \in Instances, KillLands(i) PROVE Parts'
  BY <1>26 DEF KillLands
<1>27. ASSUME NEW i \in Instances, ReapExit(i) PROVE Parts'
  BY <1>27 DEF ReapExit
<1>28. ASSUME NEW i \in Instances, ReapPlanned(i) PROVE Parts'
  BY <1>28 DEF ReapPlanned
<1>29. ASSUME NEW i \in Instances, ReapCrash(i) PROVE Parts'
  BY <1>29 DEF ReapCrash
\* pollStarting.
<1>30. ASSUME NEW i \in Instances, PollQuits(i) PROVE Parts'
  BY <1>30 DEF PollQuits, Ticks
<1>31. ASSUME NEW i \in Instances, PollCheck(i) PROVE Parts'
  BY <1>31 DEF PollCheck, Ticks
<1>32. ASSUME NEW i \in Instances, PollLoad(i) PROVE Parts'
  BY <1>32 DEF PollLoad, Snapshot, NoView, ViewOf
<1>33. ASSUME NEW i \in Instances, PollRead(i) PROVE Parts'
  BY <1>33 DEF PollRead, ViewOf
<1>34. ASSUME NEW i \in Instances, PollEvent(i) PROVE Parts'
  BY <1>34 DEF PollEvent
<1>35. ASSUME NEW i \in Instances, PollGauge(i) PROVE Parts'
  BY <1>35 DEF PollGauge, NoView, ViewOf
<1>36. ASSUME UNCHANGED vars PROVE Parts'
  BY <1>36 DEF vars
<1> QED
  BY <1>1, <1>2, <1>3, <1>4, <1>5, <1>6, <1>7, <1>8, <1>9, <1>10, <1>11,
     <1>12, <1>13, <1>14, <1>15, <1>16, <1>17, <1>18, <1>19, <1>20, <1>21,
     <1>22, <1>23, <1>24, <1>25, <1>26, <1>27, <1>28, <1>29, <1>30, <1>31,
     <1>32, <1>33, <1>34, <1>35, <1>36
     DEF Next, CallerStep, CallStop, CallerLocks, CallerProceeds, InstanceStep, IdleLocks,
         ReapLocks, PollStep

(* The inductive invariant holds in every reachable state: wherever the    *)
(* lock's holder has got to, the slot, the instance's state and its        *)
(* process group are what that point of the code relies on.                *)
THEOREM Invariance == Spec => []IndInv
<1>1. IndInv /\ [Next]_vars => IndInv'
  BY TypeStep, PartsStep DEF IndInv
<1> QED
  BY InitInv, <1>1, PTL DEF Spec

(* Every variable keeps its type.                                          *)
THEOREM TypeCorrect == Spec => []TypeOK
<1>1. IndInv => TypeOK
  BY DEF IndInv
<1> QED
  BY Invariance, <1>1, PTL

(* At most one instance has a running process group, the one in the slot.  *)
THEOREM OneInstanceLives == Spec => []LiveIsCurrent
<1>1. IndInv => LiveIsCurrent
  BY DEF IndInv, ProcessIsAt, LiveIsCurrent
<1> QED
  BY Invariance, <1>1, PTL

(* With the lock free the slot is empty or holds a Ready instance.         *)
THEOREM RestIsClean == Spec => []AtRest
<1>1. IndInv => AtRest
  BY DEF IndInv, HolderIsAt, SlotIsAt, AtRest
<1> QED
  BY Invariance, <1>1, PTL

(* An instance at rest has its idle timer running or its callback due.     *)
THEOREM RestIsTimed == Spec => []RestHasIdleTimer
<1>1. IndInv => RestHasIdleTimer
  BY DEF IndInv
<1> QED
  BY Invariance, <1>1, PTL

(* No idle timer runs for an instance that is not Ready in the slot.       *)
THEOREM TimersAreOwned == Spec => []NoStrayTimer
<1>1. IndInv => NoStrayTimer
  BY DEF IndInv
<1> QED
  BY Invariance, <1>1, PTL

-----------------------------------------------------------------------------
(* What is published.                                                      *)

(* A poller that is not late publishes what is there, and sets the gauge   *)
(* of the instance that is there, or of any model if none is.              *)
LEMMA PollKeepsPublished ==
  ASSUME IndInv, NEW i \in Instances, PollEvent(i) \/ PollGauge(i), snap[i] = Snapshot,
         PublishedIsAt
  PROVE  PublishedIsAt'
<1> USE ConstantsApart DEF IndInv, TypeOK, HolderIsAt, SlotIsAt, PollerIsAt, PublishedIsAt
<1>1. UNCHANGED <<at, current, state, model, proc>>
  BY DEF PollEvent, PollGauge
<1>2. CASE PollEvent(i)
  <2>1. view' = Snapshot /\ UNCHANGED up
    BY <1>2 DEF PollEvent
  <2> QED
    BY <1>1, <2>1 DEF Snapshot, NoView
<1>3. CASE PollGauge(i)
  <2>1. UNCHANGED view
    BY <1>3 DEF PollGauge
  <2>2. PICK m \in due[i] : SetInstanceUp(m, snap[i].state)
    BY <1>3 DEF PollGauge
  <2>3. CASE current = Nil
    <3>1. up' = up \ {m}
      BY <2>2, <2>3 DEF Snapshot, NoView, ViewOf, SetInstanceUp
    <3> QED
      BY <1>1, <2>1, <2>3, <3>1
  <2>4. CASE current # Nil
    <3>1. snap[i].inst = current /\ snap[i].state = state[current] /\ m = model[current]
      BY <2>4 DEF Snapshot, ViewOf
    <3>2. up' = IF state[current] = "ready" THEN up \cup {model[current]} ELSE up \ {model[current]}
      BY <2>2, <3>1 DEF SetInstanceUp
    <3> QED
      BY <1>1, <2>1, <2>4, <3>2
  <2> QED
    BY <2>3, <2>4
<1> QED
  BY <1>2, <1>3

LEMMA PublishedStep == IndInv /\ (stale \/ PublishedIsAt) /\ [Next]_vars => (stale \/ PublishedIsAt)'
<1> DEFINE Parts == stale \/ PublishedIsAt
<1> SUFFICES ASSUME IndInv, Parts, [Next]_vars PROVE Parts'
  OBVIOUS
<1> USE ConstantsApart
    DEF IndInv, TypeOK, States, HolderIsAt, SlotIsAt, ProcessIsAt, PublishedIsAt
<1>stutter. ASSUME UNCHANGED <<at, current, model, proc, view, up, stale>> PROVE Parts'
  BY <1>stutter
\* Callers come and go.
<1>1. ASSUME NEW c \in Callers, NEW m \in Models \cup {StopRequest}, CallEnsure(c, m) PROVE Parts'
  BY <1>1, <1>stutter DEF CallEnsure
<1>2. ASSUME NEW c \in Callers, FinishUse(c) PROVE Parts'
  BY <1>2, <1>stutter DEF FinishUse
\* Ensure and startLocked.
<1>3. ASSUME NEW c \in Callers, EnsureReuse(c) PROVE Parts'
  BY <1>3, <1>stutter DEF EnsureReuse, Returns
<1>4. ASSUME NEW c \in Callers, EnsureSwap(c) PROVE Parts'
  BY <1>4 DEF EnsureSwap, Acquire, Terminate
<1>5. ASSUME SwapOut PROVE Parts'
  BY <1>5 DEF SwapOut, ClearStopped, PublishEmpty
<1>6. ASSUME NEW c \in Callers, EnsureCold(c) PROVE Parts'
  BY <1>6 DEF EnsureCold, Acquire
<1>7. ASSUME NEW c \in Callers, PrepareFails(c) PROVE Parts'
  BY <1>7 DEF PrepareFails, Release
<1>8. ASSUME NEW c \in Callers, NEW i \in Instances, Create(c, i) PROVE Parts'
  BY <1>8 DEF Create, Publish, SetInstanceUp, ViewOf
<1>9. ASSUME NEW c \in Callers, SpawnFails(c) PROVE Parts'
  BY <1>9 DEF SpawnFails, Release, ViewOf
<1>10. ASSUME NEW c \in Callers, Spawn(c) PROVE Parts'
  BY <1>10 DEF Spawn
<1>11. ASSUME NEW c \in Callers, HealthOk(c) PROVE Parts'
  BY <1>11 DEF HealthOk
<1>12. ASSUME NEW c \in Callers, HealthFails(c) PROVE Parts'
  BY <1>12 DEF HealthFails, Terminate
<1>13. ASSUME NEW c \in Callers, AbortDone(c) PROVE Parts'
  BY <1>13 DEF AbortDone, ClearStopped, PublishEmpty, Release
<1>14. ASSUME NEW c \in Callers, MarkReady(c) PROVE Parts'
  BY <1>14 DEF MarkReady, Publish, SetInstanceUp
<1>15. ASSUME NEW c \in Callers, ReturnReady(c) PROVE Parts'
  BY <1>15 DEF ReturnReady, Returns, Release
\* Stop, and the end of the grace period.
<1>16. ASSUME NEW c \in Callers, StopNothing(c) PROVE Parts'
  BY <1>16, <1>stutter DEF StopNothing
<1>17. ASSUME NEW c \in Callers, StopBegin(c) PROVE Parts'
  BY <1>17 DEF StopBegin, Acquire, Terminate
<1>18. ASSUME NEW c \in Callers, StopDone(c) PROVE Parts'
  BY <1>18 DEF StopDone, ClearStopped, PublishEmpty, Release
<1>19. ASSUME GraceExpires PROVE Parts'
  BY <1>19, <1>stutter DEF GraceExpires
\* The goroutines of an instance.
<1>20. ASSUME NEW i \in Instances, IdleFires(i) \/ IdleStale(i) \/ ReapExit(i) \/ ReapPlanned(i)
       PROVE  Parts'
  BY <1>20, <1>stutter DEF IdleFires, IdleStale, ReapExit, ReapPlanned
<1>21. ASSUME NEW i \in Instances, IdleStop(i) PROVE Parts'
  BY <1>21 DEF IdleStop, Acquire
<1>22. ASSUME NEW i \in Instances, IdleStopDone(i) PROVE Parts'
  BY <1>22 DEF IdleStopDone, ClearStopped, PublishEmpty, Release
<1>23. ASSUME NEW i \in Instances, ReapCrash(i) PROVE Parts'
  BY <1>23 DEF ReapCrash, PublishEmpty
\* A process that ends has been started.
<1>24. ASSUME NEW i \in Instances, LeaderExits(i) \/ ChildrenExit(i) \/ KillLands(i) PROVE Parts'
  <2>1. /\ UNCHANGED <<at, current, model, view, up, stale>>
        /\ \A j \in Instances : proc[j] = "none" => proc'[j] = "none"
    BY <1>24 DEF LeaderExits, ChildrenExit, KillLands, Live
  <2> QED
    BY <2>1 DEF Views
\* pollStarting.
<1>25. ASSUME NEW i \in Instances, PollQuits(i) \/ PollCheck(i) \/ PollLoad(i) \/ PollRead(i)
       PROVE  Parts'
  BY <1>25, <1>stutter DEF PollQuits, PollCheck, PollLoad, PollRead
<1>26. ASSUME NEW i \in Instances, PollEvent(i) \/ PollGauge(i) PROVE Parts'
  <2>1. CASE ~stale /\ snap[i] = Snapshot
    BY <1>26, <2>1, PollKeepsPublished
  <2>2. CASE stale \/ snap[i] # Snapshot
    BY <1>26, <2>2 DEF PollEvent, PollGauge
  <2> QED
    BY <2>1, <2>2
<1>27. ASSUME UNCHANGED vars PROVE Parts'
  BY <1>27, <1>stutter DEF vars
<1> QED
  BY <1>1, <1>2, <1>3, <1>4, <1>5, <1>6, <1>7, <1>8, <1>9, <1>10, <1>11, <1>12, <1>13, <1>14,
     <1>15, <1>16, <1>17, <1>18, <1>19, <1>20, <1>21, <1>22, <1>23, <1>24, <1>25, <1>26, <1>27
     DEF Next, CallerStep, CallStop, CallerLocks, CallerProceeds, InstanceStep, IdleLocks,
         ReapLocks, PollStep

(* Wherever the holder of the lock has got to, what is published is what   *)
(* its last publication said, unless a poller was late.                    *)
THEOREM PublishedInvariance == Spec => [](stale \/ PublishedIsAt)
<1>1. Init => PublishedIsAt
  BY DEF Init, PublishedIsAt
<1> QED
  BY <1>1, PublishedStep, Invariance, PTL DEF Spec

(* The gauge is that of the instance in the slot.                          *)
THEOREM GaugeIsRight == Spec => []GaugeFollowsSlot
<1>1. IndInv /\ (stale \/ PublishedIsAt) => GaugeFollowsSlot
  <2> SUFFICES ASSUME IndInv, PublishedIsAt, at = "free"
               PROVE  up = {model[i] : i \in Instances \cap {current}}
    BY DEF GaugeFollowsSlot, IndInv, HolderIsAt
  <2>1. CASE current = Nil
    <3>1. Instances \cap {current} = {}
      BY <2>1, ConstantsApart
    <3> QED
      BY <2>1, <3>1 DEF PublishedIsAt
  <2>2. CASE current # Nil
    <3>1. Instances \cap {current} = {current}
      BY <2>2 DEF IndInv, TypeOK
    <3> QED
      BY <2>2, <3>1 DEF PublishedIsAt
  <2> QED
    BY <2>1, <2>2
<1> QED
  BY <1>1, Invariance, PublishedInvariance, PTL

(* The pages show the instance in the slot.                                *)
THEOREM ViewIsRight == Spec => []ViewIsCurrent
<1>1. IndInv /\ (stale \/ PublishedIsAt) => ViewIsCurrent
  BY DEF IndInv, HolderIsAt, SlotIsAt, PublishedIsAt, ViewIsCurrent, Snapshot
<1> QED
  BY <1>1, Invariance, PublishedInvariance, PTL

-----------------------------------------------------------------------------
(* Refinement: each step is a step of InstanceSlot or leaves its variables *)
(* alone.                                                                  *)
LEMMA SlotStep == IndInv /\ [Next]_vars => [Slot!Next]_(Slot!vars)
<1> DEFINE Mapped == [Slot!Next]_(Slot!vars)
<1> SUFFICES ASSUME IndInv, [Next]_vars PROVE Mapped
  OBVIOUS
<1> USE ConstantsApart
    DEF IndInv, TypeOK, States, Stages, HolderIsAt, SlotIsAt, ProcessIsAt, Live, Exited,
        Slot!Next, Slot!vars
<1>stutter. ASSUME UNCHANGED <<current, state, proc>> PROVE Mapped
  BY <1>stutter
\* Callers come and go.
<1>1. ASSUME NEW c \in Callers, NEW m \in Models \cup {StopRequest}, CallEnsure(c, m) PROVE Mapped
  BY <1>1, <1>stutter DEF CallEnsure
<1>2. ASSUME NEW c \in Callers, FinishUse(c) PROVE Mapped
  BY <1>2, <1>stutter DEF FinishUse
\* Ensure and startLocked.
<1>3. ASSUME NEW c \in Callers, EnsureReuse(c) PROVE Mapped
  BY <1>3, <1>stutter DEF EnsureReuse, Returns
<1>4. ASSUME NEW c \in Callers, EnsureSwap(c) PROVE Mapped
  BY <1>4 DEF EnsureSwap, Acquire, Terminate, Slot!Drain
<1>5. ASSUME SwapOut PROVE Mapped
  BY <1>5 DEF SwapOut, ClearStopped, Slot!Vacate
<1>6. ASSUME NEW c \in Callers, EnsureCold(c) PROVE Mapped
  BY <1>6, <1>stutter DEF EnsureCold, Acquire
<1>7. ASSUME NEW c \in Callers, PrepareFails(c) PROVE Mapped
  BY <1>7, <1>stutter DEF PrepareFails
<1>8. ASSUME NEW c \in Callers, NEW i \in Instances, Create(c, i) PROVE Mapped
  BY <1>8 DEF Create, Slot!Fill
<1>9. ASSUME NEW c \in Callers, SpawnFails(c) PROVE Mapped
  BY <1>9 DEF SpawnFails, Release, ReturnsEmpty, Slot!Vacate
<1>10. ASSUME NEW c \in Callers, Spawn(c) PROVE Mapped
  BY <1>10 DEF Spawn, Slot!Spawn
<1>11. ASSUME NEW c \in Callers, HealthOk(c) PROVE Mapped
  BY <1>11, <1>stutter DEF HealthOk
<1>12. ASSUME NEW c \in Callers, HealthFails(c) PROVE Mapped
  BY <1>12 DEF HealthFails, Terminate, Slot!Drain
<1>13. ASSUME NEW c \in Callers, AbortDone(c) PROVE Mapped
  BY <1>13 DEF AbortDone, ClearStopped, Release, ReturnsEmpty, Slot!Vacate
<1>14. ASSUME NEW c \in Callers, MarkReady(c) PROVE Mapped
  BY <1>14 DEF MarkReady, Slot!Ready
<1>15. ASSUME NEW c \in Callers, ReturnReady(c) PROVE Mapped
  BY <1>15, <1>stutter DEF ReturnReady, Returns, Release
\* Stop, and the end of the grace period.
<1>16. ASSUME NEW c \in Callers, StopNothing(c) PROVE Mapped
  BY <1>16, <1>stutter DEF StopNothing
<1>17. ASSUME NEW c \in Callers, StopBegin(c) PROVE Mapped
  BY <1>17 DEF StopBegin, Acquire, Terminate, Slot!Drain
<1>18. ASSUME NEW c \in Callers, StopDone(c) PROVE Mapped
  BY <1>18 DEF StopDone, ClearStopped, Release, ReturnsEmpty, Slot!Vacate
<1>19. ASSUME GraceExpires PROVE Mapped
  BY <1>19, <1>stutter DEF GraceExpires
\* The idle timer.
<1>20. ASSUME NEW i \in Instances, IdleFires(i) PROVE Mapped
  BY <1>20, <1>stutter DEF IdleFires
<1>21. ASSUME NEW i \in Instances, IdleStale(i) PROVE Mapped
  BY <1>21, <1>stutter DEF IdleStale
<1>22. ASSUME NEW i \in Instances, IdleStop(i) PROVE Mapped
  BY <1>22 DEF IdleStop, Acquire, Slot!Drain
<1>23. ASSUME NEW i \in Instances, IdleStopDone(i) PROVE Mapped
  BY <1>23 DEF IdleStopDone, ClearStopped, Release, Slot!Vacate
\* The process group and the reap goroutine.
<1>24. ASSUME NEW i \in Instances, LeaderExits(i) PROVE Mapped
  BY <1>24 DEF LeaderExits, Slot!Die
<1>25. ASSUME NEW i \in Instances, ChildrenExit(i) PROVE Mapped
  BY <1>25 DEF ChildrenExit, Slot!Die
<1>26. ASSUME NEW i \in Instances, KillLands(i) PROVE Mapped
  BY <1>26 DEF KillLands, Slot!Die
<1>27. ASSUME NEW i \in Instances, ReapExit(i) PROVE Mapped
  BY <1>27, <1>stutter DEF ReapExit
<1>28. ASSUME NEW i \in Instances, ReapPlanned(i) PROVE Mapped
  BY <1>28, <1>stutter DEF ReapPlanned
<1>29. ASSUME NEW i \in Instances, ReapCrash(i) PROVE Mapped
  BY <1>29 DEF ReapCrash, Slot!Vacate
\* pollStarting.
<1>30. ASSUME NEW i \in Instances, PollQuits(i) PROVE Mapped
  BY <1>30, <1>stutter DEF PollQuits
<1>31. ASSUME NEW i \in Instances, PollCheck(i) PROVE Mapped
  BY <1>31, <1>stutter DEF PollCheck
<1>32. ASSUME NEW i \in Instances, PollLoad(i) PROVE Mapped
  BY <1>32, <1>stutter DEF PollLoad
<1>33. ASSUME NEW i \in Instances, PollRead(i) PROVE Mapped
  BY <1>33, <1>stutter DEF PollRead
<1>34. ASSUME NEW i \in Instances, PollEvent(i) PROVE Mapped
  BY <1>34, <1>stutter DEF PollEvent
<1>35. ASSUME NEW i \in Instances, PollGauge(i) PROVE Mapped
  BY <1>35, <1>stutter DEF PollGauge
<1>36. ASSUME UNCHANGED vars PROVE Mapped
  BY <1>36, <1>stutter DEF vars
<1> QED
  BY <1>1, <1>2, <1>3, <1>4, <1>5, <1>6, <1>7, <1>8, <1>9, <1>10, <1>11,
     <1>12, <1>13, <1>14, <1>15, <1>16, <1>17, <1>18, <1>19, <1>20, <1>21,
     <1>22, <1>23, <1>24, <1>25, <1>26, <1>27, <1>28, <1>29, <1>30, <1>31,
     <1>32, <1>33, <1>34, <1>35, <1>36
     DEF Next, CallerStep, CallStop, CallerLocks, CallerProceeds, InstanceStep, IdleLocks,
         ReapLocks, PollStep

LEMMA SlotInit == Init => Slot!Init
BY DEF Init, Slot!Init, Live

(* The manager implements the one-slot specification, whatever the number  *)
(* of callers, models and instances.                                       *)
THEOREM Refinement == Spec => ImplementsSlot
BY SlotInit, SlotStep, Invariance, PTL DEF Spec, ImplementsSlot, Slot!Spec

-----------------------------------------------------------------------------
(* What Ensure and Stop return.                                            *)

(* The steps by which a call returns.                                      *)
LEMMA WhoReturns ==
  ASSUME TypeOK, NEW c \in Callers, [Next]_vars, pc[c] = "calling", pc'[c] # "calling"
  PROVE  \/ EnsureReuse(c) \/ ReturnReady(c)
         \/ pc'[c] = "out" /\ (\/ StopNothing(c) \/ StopDone(c) \/ PrepareFails(c)
                               \/ SpawnFails(c) \/ AbortDone(c))
<1> USE DEF TypeOK
<1>1. ASSUME NEW i \in Instances, InstanceStep(i) PROVE pc' = pc
  BY <1>1 DEF InstanceStep, IdleFires, IdleLocks, IdleStale, IdleStop, IdleStopDone,
     LeaderExits, ChildrenExit, KillLands, ReapExit, ReapLocks, ReapPlanned, ReapCrash,
     PollStep, PollQuits, PollCheck, PollLoad, PollRead, PollEvent, PollGauge
<1>2. ASSUME SwapOut \/ GraceExpires PROVE pc' = pc
  BY <1>2 DEF SwapOut, GraceExpires
<1>3. ASSUME NEW d \in Callers, CallerStep(d), d # c PROVE pc'[c] = pc[c]
  BY <1>3 DEF CallerStep, CallEnsure, CallStop, FinishUse, CallerLocks, EnsureReuse,
     EnsureSwap, EnsureCold, StopNothing, StopBegin, CallerProceeds, PrepareFails, Create,
     SpawnFails, Spawn, HealthOk, HealthFails, AbortDone, MarkReady, ReturnReady, StopDone,
     Returns, ReturnsEmpty
<1>4. CallerStep(c)
  BY <1>1, <1>2, <1>3 DEF Next, vars
<1>5. ~(\E m \in Models : CallEnsure(c, m)) /\ ~CallStop(c) /\ ~FinishUse(c)
  BY DEF CallEnsure, CallStop, FinishUse
<1>6. /\ ~EnsureSwap(c) /\ ~EnsureCold(c) /\ ~StopBegin(c)
      /\ ~(\E i \in Instances : Create(c, i)) /\ ~Spawn(c) /\ ~HealthOk(c)
      /\ ~HealthFails(c) /\ ~MarkReady(c)
  BY DEF EnsureSwap, EnsureCold, StopBegin, Create, Spawn, HealthOk, HealthFails, MarkReady
<1> QED
  BY <1>4, <1>5, <1>6 DEF CallerStep, CallerLocks, CallerProceeds, StopNothing, StopDone,
     PrepareFails, SpawnFails, AbortDone, ReturnsEmpty

(* Ensure returns the instance in the slot, Ready, of the model asked for. *)
THEOREM DeliversWhatWasAsked == Spec => EnsureDelivers
<1>1. ASSUME IndInv, [Next]_vars, NEW c \in Callers, pc[c] = "calling", pc'[c] = "using"
      PROVE  /\ got'[c] = current'
             /\ state'[got'[c]] = "ready"
             /\ model'[got'[c]] = req[c]
  <2> USE <1>1 DEF IndInv, TypeOK, HolderIsAt, SlotIsAt
  <2>1. CASE EnsureReuse(c)
    BY <2>1 DEF EnsureReuse, Returns, Reusable
  <2>2. CASE ReturnReady(c)
    BY <2>2 DEF ReturnReady, Returns, Release
  <2> QED
    BY <2>1, <2>2, WhoReturns
<1>2. IndInv /\ [Next]_vars =>
        \A c \in Callers :
          (pc[c] = "calling" /\ pc'[c] = "using")
            => /\ got'[c] = current'
               /\ state'[got'[c]] = "ready"
               /\ model'[got'[c]] = req[c]
  BY <1>1
<1> QED
  BY <1>2, Invariance, PTL DEF Spec, EnsureDelivers

(* When Stop returns, no process group is running.                         *)
THEOREM StopIsComplete == Spec => StopLeavesNothing
<1>1. ASSUME IndInv, [Next]_vars, NEW c \in Callers, NEW i \in Instances,
             pc[c] = "calling", req[c] = StopRequest, pc'[c] = "out"
      PROVE  ~Live(i)'
  <2> USE <1>1, ConstantsApart DEF IndInv, TypeOK, HolderIsAt, ProcessIsAt, Live, Exited
  <2>1. CASE StopNothing(c)
    BY <2>1 DEF StopNothing
  <2>2. CASE StopDone(c)
    BY <2>2 DEF StopDone, ClearStopped
  <2>3. CASE PrepareFails(c) \/ SpawnFails(c) \/ AbortDone(c)
    BY <2>3 DEF PrepareFails, SpawnFails, AbortDone
  <2>4. ~EnsureReuse(c) /\ ~ReturnReady(c)
    BY DEF EnsureReuse, ReturnReady, Returns
  <2> QED
    BY <2>1, <2>2, <2>3, <2>4, WhoReturns
<1>2. IndInv /\ [Next]_vars =>
        \A c \in Callers :
          (pc[c] = "calling" /\ req[c] = StopRequest /\ pc'[c] = "out")
            => \A i \in Instances : ~Live(i)'
  BY <1>1
<1> QED
  BY <1>2, Invariance, PTL DEF Spec, StopLeavesNothing

-----------------------------------------------------------------------------
(* What the liveness of the manager rests on. The instance in the slot has *)
(* a reap goroutine that has not looked yet, from the moment it is spawned *)
(* until the slot is given up: whenever it dies somebody will notice.      *)
ReaperStands == (current # Nil /\ at # "spawn") => reaper[current] \in {"waiting", "exited"}

(* Whoever waits in terminate for the exit of an instance, with swapMu     *)
(* held, waits for a goroutine that does not need swapMu to announce it,   *)
(* and that goroutine for a process group there is: no instance whose      *)
(* process was never spawned is ever waited for.                           *)
TerminateIsAnswered ==
  at \in {"swap", "abort", "stop"} =>
    /\ current # Nil
    /\ \/ Exited(current)
       \/ reaper[current] = "waiting" /\ (Live(current) \/ proc[current] = "gone")

LEMMA ReaperStep == IndInv /\ ReaperStands /\ [Next]_vars => ReaperStands'
<1> SUFFICES ASSUME IndInv, ReaperStands, [Next]_vars PROVE ReaperStands'
  OBVIOUS
<1> USE ConstantsApart DEF IndInv, TypeOK, HolderIsAt, SlotIsAt, ProcessIsAt, ReaperStands, Exited
\* Most steps leave the slot and its goroutine alone.
<1>1. ASSUME UNCHANGED <<current, reaper>>, at = "spawn" => at' = "spawn" PROVE ReaperStands'
  BY <1>1
<1>2. ASSUME current' = Nil PROVE ReaperStands'
  BY <1>2
<1>3. ASSUME NEW c \in Callers, CallerStep(c) PROVE ReaperStands'
  <2>1. ASSUME NEW m \in Models \cup {StopRequest}, CallEnsure(c, m) PROVE ReaperStands'
    BY <1>1, <2>1 DEF CallEnsure
  <2>2. CASE FinishUse(c)
    BY <1>1, <2>2 DEF FinishUse
  <2>3. CASE CallerLocks(c)
    BY <1>1, <2>3
       DEF CallerLocks, EnsureReuse, EnsureSwap, EnsureCold, StopNothing, StopBegin, Acquire,
           Terminate, Returns, ReturnsEmpty
  <2>4. ASSUME NEW i \in Instances, Create(c, i) PROVE ReaperStands'
    BY <2>4 DEF Create
  <2>5. CASE SpawnFails(c) \/ AbortDone(c) \/ StopDone(c)
    BY <1>2, <2>5 DEF SpawnFails, AbortDone, StopDone, ClearStopped
  <2>6. CASE Spawn(c)
    BY <2>6 DEF Spawn
  <2>7. CASE PrepareFails(c) \/ HealthOk(c) \/ HealthFails(c) \/ MarkReady(c) \/ ReturnReady(c)
    BY <1>1, <2>7
       DEF PrepareFails, HealthOk, HealthFails, MarkReady, ReturnReady, Terminate, Returns, Release
  <2> QED
    BY <1>3, <2>1, <2>2, <2>3, <2>4, <2>5, <2>6, <2>7 DEF CallerStep, CallStop, CallerProceeds
<1>4. ASSUME NEW i \in Instances, InstanceStep(i) PROVE ReaperStands'
  <2>1. CASE IdleFires(i) \/ IdleLocks(i)
    BY <1>1, <2>1 DEF IdleFires, IdleLocks, IdleStale, IdleStop, Acquire
  <2>2. CASE IdleStopDone(i)
    BY <1>2, <2>2 DEF IdleStopDone, ClearStopped
  <2>3. CASE LeaderExits(i) \/ ChildrenExit(i) \/ KillLands(i) \/ PollStep(i)
    BY <1>1, <2>3 DEF LeaderExits, ChildrenExit, KillLands, PollStep, PollQuits, PollCheck,
                      PollLoad, PollRead, PollEvent, PollGauge
  <2>4. CASE ReapExit(i)
    BY <2>4 DEF ReapExit
  \* with the lock free the instance in the slot is Ready, so it has crashed
  <2>5. CASE ReapPlanned(i)
    <3>1. current # i
      BY <2>5 DEF ReapPlanned
    <3> QED BY <2>5, <3>1 DEF ReapPlanned
  <2>6. CASE ReapCrash(i)
    BY <1>2, <2>6 DEF ReapCrash
  <2> QED BY <1>4, <2>1, <2>2, <2>3, <2>4, <2>5, <2>6 DEF InstanceStep, ReapLocks
<1>5. CASE SwapOut
  BY <1>2, <1>5 DEF SwapOut, ClearStopped
<1>6. CASE GraceExpires
  BY <1>1, <1>6 DEF GraceExpires
<1>7. CASE UNCHANGED vars
  BY <1>1, <1>7 DEF vars
<1> QED BY <1>3, <1>4, <1>5, <1>6, <1>7 DEF Next

(* No instance is in the slot without a goroutine that will notice its     *)
(* death.                                                                  *)
THEOREM CrashesAreWatched == Spec => []ReaperStands
<1>1. Init => ReaperStands
  BY DEF Init, ReaperStands
<1> QED BY <1>1, ReaperStep, Invariance, PTL DEF Spec

(* The lock is never held in a wait that nobody can end.                   *)
THEOREM WaitsAreAnswered == Spec => []TerminateIsAnswered
<1>1. IndInv /\ ReaperStands => TerminateIsAnswered
  <2> SUFFICES ASSUME IndInv, ReaperStands, at \in {"swap", "abort", "stop"}
               PROVE  TerminateIsAnswered
    BY DEF TerminateIsAnswered
  <2>1. current # Nil /\ current \in Instances /\ reaper[current] \in {"waiting", "exited"}
    BY DEF IndInv, TypeOK, SlotIsAt, ReaperStands
  <2>2. proc[current] # "none"
    BY <2>1 DEF IndInv, ProcessIsAt
  <2> QED BY <2>1, <2>2 DEF TerminateIsAnswered, IndInv, TypeOK, Live, Exited
<1> QED BY <1>1, CrashesAreWatched, Invariance, PTL
=============================================================================
