------------------------------ MODULE LimProofs ------------------------------
(***************************************************************************)
(* Proofs about Lim. What lim does to its instances are steps of Manager,  *)
(* so the manager's invariant holds of it; LimInv adds where main is.      *)
(***************************************************************************)
EXTENDS Lim, ManagerProofs

USE DEF callVars, lockVars, slotVars, timerVars, procVars, pollVars, pubVars

-----------------------------------------------------------------------------
(* Lim's steps are the manager's.                                          *)
LEMMA LimStepIsManagerStep == LimNext => [Next]_vars
<1> SUFFICES ASSUME LimNext PROVE [Next]_vars
  OBVIOUS
<1>1. CASE UNCHANGED vars
  BY <1>1
<1>2. CASE \E c \in Handlers : HandlerCalls(c)
  BY <1>2 DEF Handlers, HandlerCalls, Next, CallerStep
<1>3. CASE Signal
  BY <1>3, MainIsCaller DEF Signal, Next, CallerStep
<1>4. CASE ManagerStep
  BY <1>4 DEF ManagerStep, Next, CallerStep
<1>5. CASE Survivors
  BY <1>5 DEF Survivors, Next, InstanceStep
<1> QED
  BY <1>1, <1>2, <1>3, <1>4, <1>5
     DEF LimNext, Load, LoadFails, Fetch, Preloaded, Notify, Abort, MainGoes, Accept, Answer,
         CloseServer, Exit

(* lim is a manager: whatever main and the handlers do, from loading the   *)
(* configuration to what survives the exit, is what Manager allows, so     *)
(* each of the manager's safety theorems holds of the whole program.       *)
THEOREM LimIsAManager == LimSpec => Spec
<1>1. LimInit => Init
  BY DEF LimInit
<1>2. [LimNext]_limVars => [Next]_vars
  BY LimStepIsManagerStep DEF limVars
<1> QED
  BY <1>1, <1>2, PTL DEF LimSpec, Spec

(* Nothing that lim does, from its start to its exit, disturbs the         *)
(* invariant of the manager.                                               *)
THEOREM ManagerInvariance == LimSpec => []IndInv
BY LimIsAManager, Invariance, PTL

(* What the manager promises of the slot, lim keeps: from its start to its *)
(* exit, and when it is only the process groups that go on, the slot is    *)
(* filled, used and given up as InstanceSlot says.                         *)
THEOREM LimKeepsTheSlot == LimSpec => ImplementsSlot
BY LimIsAManager, Refinement, PTL

(* What the program delivers and shows is what its manager does: Ensure    *)
(* returns what was asked for, Stop leaves nothing, one instance lives,    *)
(* and the gauges and the pages show it, but for the stale snapshot of a   *)
(* poller.                                                                 *)
THEOREM LimDelivers ==
  LimSpec => /\ EnsureDelivers /\ StopLeavesNothing
             /\ [](LiveIsCurrent /\ AtRest /\ GaugeFollowsSlot /\ ViewIsCurrent)
BY LimIsAManager, DeliversWhatWasAsked, StopIsComplete, OneInstanceLives, RestIsClean,
   GaugeIsRight, ViewIsRight, PTL

-----------------------------------------------------------------------------
(* By itself the manager makes no calls.                                   *)
LEMMA NoNewCalls ==
  ASSUME TypeOK, HolderIsAt, ManagerStep, NEW c \in Callers
  PROVE  /\ req' = req
         /\ pc'[c] = pc[c] \/ pc[c] = "calling" \/ (pc[c] = "using" /\ pc'[c] = "out")
<1> USE DEF TypeOK
<1>1. ASSUME NEW i \in Instances, InstanceStep(i) PROVE UNCHANGED <<pc, req>>
  BY <1>1 DEF InstanceStep, IdleFires, IdleLocks, IdleStale, IdleStop, IdleStopDone,
     LeaderExits, ChildrenExit, KillLands, ReapExit, ReapLocks, ReapPlanned, ReapCrash,
     PollStep, PollQuits, PollCheck, PollLoad, PollRead, PollEvent, PollGauge
<1>2. ASSUME SwapOut \/ GraceExpires PROVE UNCHANGED <<pc, req>>
  BY <1>2 DEF SwapOut, GraceExpires
<1>3. ASSUME NEW d \in Callers, FinishUse(d)
      PROVE  req' = req /\ (pc'[c] = pc[c] \/ (pc[c] = "using" /\ pc'[c] = "out"))
  BY <1>3 DEF FinishUse
<1>4. ASSUME NEW d \in Callers, CallerLocks(d)
      PROVE  req' = req /\ (pc'[c] = pc[c] \/ pc[c] = "calling")
  BY <1>4 DEF CallerLocks, EnsureReuse, EnsureSwap, EnsureCold, StopNothing, StopBegin,
     Returns, ReturnsEmpty
<1>5. ASSUME NEW d \in Callers, CallerProceeds(d)
      PROVE  req' = req /\ (pc'[c] = pc[c] \/ pc[c] = "calling")
  BY <1>5 DEF CallerProceeds, HolderIsAt, PrepareFails, Create, SpawnFails, Spawn, HealthOk,
     HealthFails, AbortDone, MarkReady, ReturnReady, StopDone, Returns, ReturnsEmpty
<1> QED
  BY <1>1, <1>2, <1>3, <1>4, <1>5 DEF ManagerStep

(* Unless somebody calls, nothing new gets into the slot.                  *)
LEMMA SlotOnlyEmpties ==
  ASSUME IndInv, ManagerStep, \A c \in Callers : pc[c] # "calling"
  PROVE  current' \in {current, Nil}
<1> USE DEF IndInv, TypeOK, HolderIsAt
<1>1. ASSUME NEW i \in Instances, InstanceStep(i) PROVE current' \in {current, Nil}
  BY <1>1 DEF InstanceStep, IdleFires, IdleLocks, IdleStale, IdleStop, IdleStopDone, ClearStopped,
     LeaderExits, ChildrenExit, KillLands, ReapExit, ReapLocks, ReapPlanned, ReapCrash,
     PollStep, PollQuits, PollCheck, PollLoad, PollRead, PollEvent, PollGauge
<1>2. ASSUME SwapOut \/ GraceExpires PROVE current' \in {current, Nil}
  BY <1>2 DEF SwapOut, ClearStopped, GraceExpires
<1>3. ASSUME NEW c \in Callers, FinishUse(c) PROVE current' \in {current, Nil}
  BY <1>3 DEF FinishUse
<1>4. ASSUME NEW c \in Callers PROVE ~CallerLocks(c)
  BY DEF CallerLocks, EnsureReuse, EnsureSwap, EnsureCold, StopNothing, StopBegin
<1>5. ASSUME NEW c \in Callers PROVE ~CallerProceeds(c)
  BY DEF CallerProceeds, PrepareFails, Create, SpawnFails, Spawn, HealthOk,
     HealthFails, AbortDone, MarkReady, ReturnReady, StopDone
<1> QED
  BY <1>1, <1>2, <1>3, <1>4, <1>5 DEF ManagerStep

(* Main's Stop leaves the slot empty.                                      *)
LEMMA StopEmpties ==
  ASSUME LimInv, ManagerStep, pc[Main] = "calling", pc'[Main] # "calling"
  PROVE  pc'[Main] = "out" /\ current' = Nil
<1> USE MainIsCaller, ConstantsApart DEF LimInv, IndInv, TypeOK, HolderIsAt, MainIsAt
<1>1. req[Main] = StopRequest /\ Main \in Callers
  OBVIOUS
<1>2. [Next]_vars
  BY DEF ManagerStep, Next, CallerStep
<1>3. \/ EnsureReuse(Main) \/ ReturnReady(Main)
      \/ pc'[Main] = "out" /\ (\/ StopNothing(Main) \/ StopDone(Main) \/ PrepareFails(Main)
                               \/ SpawnFails(Main) \/ AbortDone(Main))
  BY <1>1, <1>2, WhoReturns
<1>4. /\ ~EnsureReuse(Main) /\ ~ReturnReady(Main) /\ ~PrepareFails(Main)
      /\ ~SpawnFails(Main) /\ ~AbortDone(Main)
  BY <1>1 DEF EnsureReuse, ReturnReady, PrepareFails, SpawnFails, AbortDone
<1> QED
  BY <1>3, <1>4 DEF StopNothing, StopDone, ClearStopped

LEMMA LimInitInv == LimInit => LimInv
BY InitInv, MainIsCaller DEF LimInit, LimInv, MainIsAt, QuietInv, Init

LEMMA LimStep == LimInv /\ [LimNext]_limVars => LimInv'
<1> DEFINE Parts == MainIsAt /\ QuietInv
<1> SUFFICES ASSUME LimInv, [LimNext]_limVars PROVE Parts'
  <2>1. [LimNext]_limVars => [Next]_vars
    BY LimStepIsManagerStep DEF limVars
  <2> QED
    BY <2>1, TypeStep, PartsStep DEF LimInv, IndInv
<1> USE MainIsCaller, ConstantsApart DEF LimInv, MainIsAt, QuietInv, Wanting, Handlers
<1>1. TypeOK /\ HolderIsAt
  BY DEF IndInv
<1>2. CASE UNCHANGED <<vars, open>> /\ (Load \/ LoadFails \/ Preloaded \/ Notify \/ Abort)
  BY <1>2 DEF vars, Load, LoadFails, Preloaded, Notify, MainGoes, Abort
<1>3. ASSUME NEW e \in Entries, Fetch(e) PROVE Parts'
  BY <1>3 DEF Fetch, vars
<1>4. ASSUME NEW c \in Handlers, Accept(c) PROVE Parts'
  BY <1>4 DEF Accept, vars
<1>5. ASSUME NEW c \in Handlers, Answer(c) PROVE Parts'
  BY <1>5 DEF Answer, vars
<1>6. ASSUME NEW c \in Handlers, HandlerCalls(c) PROVE Parts'
  BY <1>1, <1>6 DEF HandlerCalls, CallStop, CallEnsure, TypeOK
<1>7. CASE Signal
  BY <1>1, <1>7 DEF Signal, CallStop, CallEnsure, TypeOK
<1>8. CASE CloseServer \/ Exit
  BY <1>8 DEF CloseServer, Exit, vars
<1>9. CASE ManagerStep
  <2>1. UNCHANGED <<phase, open, late>>
    BY <1>9 DEF ManagerStep
  <2>2. \A c \in Callers :
          /\ req' = req
          /\ pc'[c] = pc[c] \/ pc[c] = "calling" \/ (pc[c] = "using" /\ pc'[c] = "out")
    BY <1>1, <1>9, NoNewCalls
  <2>3. \A c \in Handlers : ~Wanting(c) => ~Wanting(c)'
    BY <2>1, <2>2
  <2>4. CASE pc[Main] = "calling" /\ pc'[Main] # "calling"
    BY <1>9, <2>1, <2>2, <2>3, <2>4, StopEmpties
  <2>5. CASE pc'[Main] = pc[Main]
    <3>1. MainIsAt'
      BY <2>1, <2>2, <2>5
    <3>2. QuietInv'
      <4>1. SUFFICES ASSUME phase \in {"stopping", "closing", "exited"}, ~late, pc[Main] = "out"
                     PROVE  current' = Nil
        BY <2>1, <2>3, <2>5
      <4>2. \A c \in Callers : pc[c] # "calling"
        BY <4>1
      <4> QED
        BY <1>9, <4>1, <4>2, SlotOnlyEmpties
    <3> QED
      BY <3>1, <3>2
  <2> QED
    BY <2>2, <2>4, <2>5
<1>10. CASE Survivors
  BY <1>10 DEF Survivors, LeaderExits, ChildrenExit, KillLands
<1>11. CASE UNCHANGED limVars
  BY <1>11 DEF limVars, vars
<1> QED
  BY <1>2, <1>3, <1>4, <1>5, <1>6, <1>7, <1>8, <1>9, <1>10, <1>11
     DEF LimNext, Load, LoadFails, Preloaded, Notify, MainGoes, Abort

(* Wherever main is, the manager is in a state it can be in; and after a   *)
(* quiet shutdown has begun nothing can get into the slot any more.        *)
THEOREM LimInvariance == LimSpec => []LimInv
BY LimInitInv, LimStep, PTL DEF LimSpec

(* A shutdown during which nobody wants an instance leaves no process.     *)
THEOREM ShutdownIsClean == LimSpec => []QuietShutdown
<1>1. LimInv => QuietShutdown
  BY ConstantsApart
     DEF LimInv, QuietInv, MainIsAt, QuietShutdown, NoOrphan, IndInv, ProcessIsAt
<1> QED
  BY <1>1, LimInvariance, PTL
=============================================================================
