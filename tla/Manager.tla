------------------------------ MODULE Manager -------------------------------
(***************************************************************************)
(* The instance manager (src/internal/manager): the goroutines that call   *)
(* Ensure and Stop, the swap lock they compete for, the idle timer's       *)
(* callbacks, the goroutines startLocked launches for every instance (reap *)
(* and pollStarting) and the llama-server process group itself.            *)
(*                                                                         *)
(* Everything done under swapMu between two points where other goroutines  *)
(* or the process can make a difference is one action; `at' is the point   *)
(* the lock's holder has reached.  A goroutine of instance i that holds    *)
(* the lock (its idle callback) holds it as i.                             *)
(***************************************************************************)
CONSTANTS Callers,       \* HTTP handlers and main, which call Ensure and Stop
          Models,        \* the canonical model names of the configuration
          Instances,     \* the Instance values startLocked may allocate
          Nil,           \* no instance
          NoOne,         \* nobody holds swapMu
          StopRequest,   \* what a caller of Stop asks for, in place of a model
          StartMayFail,  \* TRUE if cmd.Start can fail (no such program, ...)
          Polling        \* the instances whose pollStarting gets a tick in time

ASSUME ConstantsApart ==
  /\ Callers \cap Instances = {}
  /\ Nil \notin Instances
  /\ NoOne \notin Callers \cup Instances
  /\ StopRequest \notin Models
  /\ StartMayFail \in BOOLEAN
  /\ Polling \subseteq Instances

VARIABLES
  pc,       \* where each caller is: "out", "calling" or "using" an instance
  req,      \* what each caller last asked for
  got,      \* the instance Ensure last returned to each caller
  holder,   \* who holds swapMu
  at,       \* the point the holder has reached
  current,  \* m.current
  model,    \* Instance.Model
  state,    \* Instance.state ("unborn" before it is allocated)
  armed,    \* the instances whose idle timer is running
  idleDue,  \* the instances with an idle callback that has yet to run
  proc,     \* the process group: "none", "up", "children" only, "gone"
  killed,   \* the instances that were sent SIGKILL
  reaper,   \* where the reap goroutine of each instance is
  poller,   \* where the pollStarting goroutine of each instance is
  snap,     \* the snapshot each poller has taken
  due,      \* the models whose gauge each poller has yet to set
  view,     \* the last snapshot published on the instances topic
  up,       \* the models whose lim_instance_up gauge is 1
  stale     \* history: a poller has published, or set a gauge for, what no
            \* longer held, and the slot has not been published empty since

callVars  == <<pc, req, got>>
lockVars  == <<holder, at>>
slotVars  == <<current, model, state>>
timerVars == <<armed, idleDue>>
procVars  == <<proc, killed>>
pollVars  == <<poller, snap, due>>
pubVars   == <<view, up, stale>>
vars == <<callVars, lockVars, slotVars, timerVars, procVars, reaper, pollVars, pubVars>>

-----------------------------------------------------------------------------
States == {"unborn", "starting", "ready", "stopping", "stopped"}
Stages == {"free", "swap", "launch", "spawn", "health", "healthy", "ready",
           "abort", "stop"}

Live(i) == proc[i] \in {"up", "children"}

\* inst.exited is closed
Exited(i) == reaper[i] \in {"exited", "done"}

\* What Snapshot shows of instance i in state s, and of an empty slot.
ViewOf(i, s) == [inst |-> i, state |-> s]
NoView       == ViewOf(Nil, "stopped")
Snapshot     == IF current = Nil THEN NoView ELSE ViewOf(current, state[current])
Views        == [inst : Instances \cup {Nil}, state : States]

TypeOK ==
  /\ pc \in [Callers -> {"out", "calling", "using"}]
  /\ req \in [Callers -> Models \cup {StopRequest}]
  /\ got \in [Callers -> Instances \cup {Nil}]
  /\ holder \in Callers \cup Instances \cup {NoOne}
  /\ at \in Stages
  /\ current \in Instances \cup {Nil}
  /\ model \in [Instances -> Models \cup {StopRequest}]
  /\ state \in [Instances -> States]
  /\ armed \subseteq Instances
  /\ idleDue \subseteq Instances
  /\ proc \in [Instances -> {"none", "up", "children", "gone"}]
  /\ killed \subseteq Instances
  /\ reaper \in [Instances -> {"none", "waiting", "exited", "done"}]
  /\ poller \in [Instances -> {"off", "ticking", "checked", "loaded", "snapped"}]
  /\ snap \in [Instances -> Views]
  /\ due \in [Instances -> SUBSET (Models \cup {StopRequest})]
  /\ view \in Views
  /\ up \subseteq Models \cup {StopRequest}
  /\ stale \in BOOLEAN

Init ==
  /\ pc = [c \in Callers |-> "out"]
  /\ req = [c \in Callers |-> StopRequest]
  /\ got = [c \in Callers |-> Nil]
  /\ holder = NoOne /\ at = "free"
  /\ current = Nil
  /\ model = [i \in Instances |-> StopRequest]
  /\ state = [i \in Instances |-> "unborn"]
  /\ armed = {} /\ idleDue = {}
  /\ proc = [i \in Instances |-> "none"]
  /\ killed = {}
  /\ reaper = [i \in Instances |-> "none"]
  /\ poller = [i \in Instances |-> "off"]
  /\ snap = [i \in Instances |-> NoView]
  /\ due = [i \in Instances |-> {}]
  /\ view = NoView /\ up = {} /\ stale = FALSE

-----------------------------------------------------------------------------
(* Helpers shared by the actions.                                          *)

\* mutex hand-over
Acquire(g, stage) == holder = NoOne /\ holder' = g /\ at' = stage
Release == holder' = NoOne /\ at' = "free"

\* the caller's Ensure or Stop returns without an instance
ReturnsEmpty(c) == pc' = [pc EXCEPT ![c] = "out"] /\ UNCHANGED <<req, got>>

\* the caller's Ensure returns instance i, its idle timer (re)armed
Returns(c, i) ==
  /\ pc' = [pc EXCEPT ![c] = "using"]
  /\ got' = [got EXCEPT ![c] = i]
  /\ armed' = armed \cup {i}
  /\ UNCHANGED <<req, idleDue>>

\* terminate, up to its select: Stopping, the idle timer stopped, SIGTERM sent
Terminate(i) ==
  /\ state' = [state EXCEPT ![i] = "stopping"]
  /\ armed' = armed \ {i}
  /\ UNCHANGED <<current, model, idleDue>>

\* the gauge of model m, for an instance in state s
SetInstanceUp(m, s) == up' = IF s = "ready" THEN up \cup {m} ELSE up \ {m}

\* publisher.Publish of a snapshot of instance i of model m in state s, and of
\* an empty slot, which clears the gauge of every model.  The lock's holder
\* does it in one step: what a poller does between the event and the gauge is
\* about another gauge or says the same, and might as well come before or
\* after, or the snapshot it holds is outdated by then (see stale).
Publish(i, s, m) == view' = ViewOf(i, s) /\ SetInstanceUp(m, s)

\* Mutant: an empty slot leaves the gauges alone.
PublishEmpty_GaugesKept == view' = NoView /\ UNCHANGED up

PublishEmpty == view' = NoView /\ up' = {}

\* Mutant: the slot is cleared without waiting for the exit.
ClearStopped_NoWait ==
  /\ current # Nil
  /\ state' = [state EXCEPT ![current] = "stopped"]
  /\ current' = Nil
  /\ PublishEmpty /\ stale' = FALSE
  /\ UNCHANGED <<model, timerVars, procVars, reaper, pollVars>>

\* the rest of terminate and stopCurrentLocked, after inst.exited is closed
ClearStopped ==
  /\ current # Nil
  /\ Exited(current)
  /\ state' = [state EXCEPT ![current] = "stopped"]
  /\ current' = Nil
  /\ PublishEmpty /\ stale' = FALSE
  /\ UNCHANGED <<model, timerVars, procVars, reaper, pollVars>>

\* Mutant: any Ready instance will do.
Reusable_AnyModel(m) == current # Nil /\ state[current] = "ready"

\* the instance Ensure may hand out without starting one
Reusable(m) == current # Nil /\ model[current] = m /\ state[current] = "ready"

-----------------------------------------------------------------------------
(* Callers: Ensure and Stop are called, and a proxied request ends.        *)

CallEnsure(c, m) ==
  /\ pc[c] = "out"
  /\ pc' = [pc EXCEPT ![c] = "calling"]
  /\ req' = [req EXCEPT ![c] = m]
  /\ UNCHANGED <<got, lockVars, slotVars, timerVars, procVars, reaper, pollVars, pubVars>>

CallStop(c) == CallEnsure(c, StopRequest)

FinishUse(c) ==
  /\ pc[c] = "using"
  /\ pc' = [pc EXCEPT ![c] = "out"]
  /\ got' = [got EXCEPT ![c] = Nil]
  /\ UNCHANGED <<req, lockVars, slotVars, timerVars, procVars, reaper, pollVars, pubVars>>

-----------------------------------------------------------------------------
(* Ensure, with the lock.                                                  *)

EnsureReuse(c) ==
  /\ pc[c] = "calling" /\ req[c] \in Models
  /\ holder = NoOne
  /\ Reusable(req[c])
  /\ Returns(c, current)
  /\ UNCHANGED <<lockVars, slotVars, procVars, reaper, pollVars, pubVars>>

EnsureSwap(c) ==
  /\ pc[c] = "calling" /\ req[c] \in Models
  /\ Acquire(c, "swap")
  /\ current # Nil /\ ~Reusable(req[c])
  /\ Terminate(current)
  /\ UNCHANGED <<callVars, procVars, reaper, pollVars, pubVars>>

SwapOut ==
  /\ at = "swap"
  /\ ClearStopped
  /\ at' = "launch"
  /\ UNCHANGED <<callVars, holder>>

EnsureCold(c) ==
  /\ pc[c] = "calling" /\ req[c] \in Models
  /\ Acquire(c, "launch")
  /\ current = Nil
  /\ UNCHANGED <<callVars, slotVars, timerVars, procVars, reaper, pollVars, pubVars>>

-----------------------------------------------------------------------------
(* startLocked.                                                            *)

\* freePort or cfg.Args fails
PrepareFails(c) ==
  /\ holder = c /\ at = "launch"
  /\ Release
  /\ ReturnsEmpty(c)
  /\ UNCHANGED <<slotVars, timerVars, procVars, reaper, pollVars, pubVars>>

\* Mutant: an Instance of an earlier start is used again.
Create_Recycled(c, i) ==
  /\ holder = c /\ at = "launch"
  /\ state[i] \in {"unborn", "stopped"}
  /\ model' = [model EXCEPT ![i] = req[c]]
  /\ state' = [state EXCEPT ![i] = "starting"]
  /\ current' = i
  /\ Publish(i, "starting", req[c])
  /\ at' = "spawn"
  /\ UNCHANGED <<callVars, holder, timerVars, procVars, reaper, pollVars, stale>>

Create(c, i) ==
  /\ holder = c /\ at = "launch"
  /\ state[i] = "unborn"
  /\ model' = [model EXCEPT ![i] = req[c]]
  /\ state' = [state EXCEPT ![i] = "starting"]
  /\ current' = i
  /\ Publish(i, "starting", req[c])
  /\ at' = "spawn"
  /\ UNCHANGED <<callVars, holder, timerVars, procVars, reaper, pollVars, stale>>

\* cmd.Start fails: the slot is emptied, and nothing is published
SpawnFails(c) ==
  /\ StartMayFail
  /\ holder = c /\ at = "spawn"
  /\ current' = Nil
  /\ Release
  /\ ReturnsEmpty(c)
  /\ UNCHANGED <<model, state, timerVars, procVars, reaper, pollVars, pubVars>>

Spawn(c) ==
  /\ holder = c /\ at = "spawn"
  /\ proc' = [proc EXCEPT ![current] = "up"]
  /\ reaper' = [reaper EXCEPT ![current] = "waiting"]
  /\ poller' = [poller EXCEPT ![current] = IF current \in Polling THEN "ticking" ELSE "off"]
  /\ at' = "health"
  /\ UNCHANGED <<callVars, holder, slotVars, timerVars, killed, snap, due, pubVars>>

\* the leader answers 200; it may die before the state is set
HealthOk(c) ==
  /\ holder = c /\ at = "health"
  /\ proc[current] = "up"
  /\ at' = "healthy"
  /\ UNCHANGED <<callVars, holder, slotVars, timerVars, procVars, reaper, pollVars, pubVars>>

\* the exit is seen, or HealthTimeout is over whatever the process does
HealthFails(c) ==
  /\ holder = c /\ at = "health"
  /\ Terminate(current)
  /\ at' = "abort"
  /\ UNCHANGED <<callVars, holder, procVars, reaper, pollVars, pubVars>>

\* Mutant: a failed start leaves the slot filled.
AbortDone_KeepsSlot(c) ==
  /\ holder = c /\ at = "abort"
  /\ Exited(current)
  /\ state' = [state EXCEPT ![current] = "stopped"]
  /\ Release
  /\ ReturnsEmpty(c)
  /\ UNCHANGED <<current, model, timerVars, procVars, reaper, pollVars, pubVars>>

AbortDone(c) ==
  /\ holder = c /\ at = "abort"
  /\ ClearStopped
  /\ Release
  /\ ReturnsEmpty(c)

MarkReady(c) ==
  /\ holder = c /\ at = "healthy"
  /\ state' = [state EXCEPT ![current] = "ready"]
  /\ Publish(current, "ready", model[current])
  /\ at' = "ready"
  /\ UNCHANGED <<callVars, holder, current, model, timerVars, procVars, reaper, pollVars, stale>>

\* Mutant: only a reused instance gets its idle timer reset.
ReturnReady_NoTimer(c) ==
  /\ holder = c /\ at = "ready"
  /\ pc' = [pc EXCEPT ![c] = "using"]
  /\ got' = [got EXCEPT ![c] = current]
  /\ Release
  /\ UNCHANGED <<req, slotVars, timerVars, procVars, reaper, pollVars, pubVars>>

ReturnReady(c) ==
  /\ holder = c /\ at = "ready"
  /\ Returns(c, current)
  /\ Release
  /\ UNCHANGED <<slotVars, procVars, reaper, pollVars, pubVars>>

-----------------------------------------------------------------------------
(* Stop, and terminate's grace period, which every way to stop shares.     *)

\* Mutant: Stop looks at the slot before it takes the lock.
StopNothing_Unlocked(c) ==
  /\ pc[c] = "calling" /\ req[c] = StopRequest
  /\ current \in {Nil} \cup {i \in Instances : state[i] = "starting"}
  /\ ReturnsEmpty(c)
  /\ UNCHANGED <<lockVars, slotVars, timerVars, procVars, reaper, pollVars, pubVars>>

StopNothing(c) ==
  /\ pc[c] = "calling" /\ req[c] = StopRequest
  /\ holder = NoOne
  /\ current = Nil
  /\ ReturnsEmpty(c)
  /\ UNCHANGED <<lockVars, slotVars, timerVars, procVars, reaper, pollVars, pubVars>>

StopBegin(c) ==
  /\ pc[c] = "calling" /\ req[c] = StopRequest
  /\ Acquire(c, "stop")
  /\ current # Nil
  /\ Terminate(current)
  /\ UNCHANGED <<callVars, procVars, reaper, pollVars, pubVars>>

StopDone(c) ==
  /\ holder = c /\ at = "stop"
  /\ ClearStopped
  /\ Release
  /\ ReturnsEmpty(c)

\* Mutant: no SIGKILL for an instance that never got healthy.
GraceExpires_NotOnAbort ==
  /\ at \in {"swap", "stop"}
  /\ current # Nil /\ ~Exited(current)
  /\ killed' = killed \cup {current}
  /\ UNCHANGED <<callVars, lockVars, slotVars, timerVars, proc, reaper, pollVars, pubVars>>

GraceExpires ==
  /\ at \in {"swap", "abort", "stop"}
  /\ current # Nil /\ ~Exited(current)
  /\ killed' = killed \cup {current}
  /\ UNCHANGED <<callVars, lockVars, slotVars, timerVars, proc, reaper, pollVars, pubVars>>

-----------------------------------------------------------------------------
(* The idle timer: it fires, and its callback runs once it gets the lock.  *)
(* Callbacks of one instance that wait at the same time count as one: all  *)
(* but the first find the slot changed.                                    *)

IdleFires(i) ==
  /\ i \in armed
  /\ armed' = armed \ {i}
  /\ idleDue' = idleDue \cup {i}
  /\ UNCHANGED <<callVars, lockVars, slotVars, procVars, reaper, pollVars, pubVars>>

IdleStale(i) ==
  /\ i \in idleDue
  /\ holder = NoOne
  /\ ~(current = i /\ state[i] = "ready")
  /\ idleDue' = idleDue \ {i}
  /\ UNCHANGED <<callVars, lockVars, slotVars, armed, procVars, reaper, pollVars, pubVars>>

IdleStop(i) ==
  /\ i \in idleDue
  /\ Acquire(i, "stop")
  /\ current = i /\ state[i] = "ready"
  /\ state' = [state EXCEPT ![i] = "stopping"]
  /\ armed' = armed \ {i}
  /\ idleDue' = idleDue \ {i}
  /\ UNCHANGED <<callVars, current, model, procVars, reaper, pollVars, pubVars>>

IdleStopDone(i) ==
  /\ holder = i /\ at = "stop"
  /\ ClearStopped
  /\ Release
  /\ UNCHANGED callVars

-----------------------------------------------------------------------------
(* The process group, and the reap goroutine that waits for it.  cmd.Wait  *)
(* also waits for whoever holds the output pipe, so it returns only when   *)
(* the leader and its children are gone, as long as lim's own terminal     *)
(* takes the output: if it fails (LogBuffer) the copying ends before.      *)

LeaderExits(i) ==
  /\ proc[i] = "up"
  /\ \E rest \in {"children", "gone"} : proc' = [proc EXCEPT ![i] = rest]
  /\ UNCHANGED <<callVars, lockVars, slotVars, timerVars, killed, reaper, pollVars, pubVars>>

ChildrenExit(i) ==
  /\ proc[i] = "children"
  /\ proc' = [proc EXCEPT ![i] = "gone"]
  /\ UNCHANGED <<callVars, lockVars, slotVars, timerVars, killed, reaper, pollVars, pubVars>>

\* SIGKILL reaches the whole group
KillLands(i) ==
  /\ i \in killed /\ Live(i)
  /\ proc' = [proc EXCEPT ![i] = "gone"]
  /\ UNCHANGED <<callVars, lockVars, slotVars, timerVars, killed, reaper, pollVars, pubVars>>

\* Mutant: the goroutine waits for the leader only.
ReapExit_LeaderOnly(i) ==
  /\ reaper[i] = "waiting" /\ proc[i] \in {"children", "gone"}
  /\ reaper' = [reaper EXCEPT ![i] = "exited"]
  /\ UNCHANGED <<callVars, lockVars, slotVars, timerVars, procVars, pollVars, pubVars>>

ReapExit(i) ==
  /\ reaper[i] = "waiting" /\ proc[i] = "gone"
  /\ reaper' = [reaper EXCEPT ![i] = "exited"]
  /\ UNCHANGED <<callVars, lockVars, slotVars, timerVars, procVars, pollVars, pubVars>>

ReapPlanned(i) ==
  /\ reaper[i] = "exited"
  /\ holder = NoOne
  /\ ~(current = i /\ state[i] = "ready")
  /\ reaper' = [reaper EXCEPT ![i] = "done"]
  /\ UNCHANGED <<callVars, lockVars, slotVars, timerVars, procVars, pollVars, pubVars>>

\* Mutants: the crash is not published; the goroutine only closes inst.exited.
ReapCrash_Silent(i) ==
  /\ reaper[i] = "exited"
  /\ holder = NoOne
  /\ current = i /\ state[i] = "ready"
  /\ state' = [state EXCEPT ![i] = "stopped"]
  /\ armed' = armed \ {i}
  /\ current' = Nil
  /\ reaper' = [reaper EXCEPT ![i] = "done"]
  /\ UNCHANGED <<callVars, lockVars, model, idleDue, procVars, pollVars, pubVars>>

ReapCrash_OnlyCloses(i) ==
  /\ reaper[i] = "exited"
  /\ holder = NoOne
  /\ reaper' = [reaper EXCEPT ![i] = "done"]
  /\ UNCHANGED <<callVars, lockVars, slotVars, timerVars, procVars, pollVars, pubVars>>

ReapCrash(i) ==
  /\ reaper[i] = "exited"
  /\ holder = NoOne
  /\ current = i /\ state[i] = "ready"
  /\ state' = [state EXCEPT ![i] = "stopped"]
  /\ armed' = armed \ {i}
  /\ current' = Nil
  /\ PublishEmpty /\ stale' = FALSE
  /\ reaper' = [reaper EXCEPT ![i] = "done"]
  /\ UNCHANGED <<callVars, lockVars, model, idleDue, procVars, pollVars>>

-----------------------------------------------------------------------------
(* pollStarting, which takes no lock: the check at a tick, the two loads   *)
(* of its snapshot, the event and each gauge it sets are separate steps.   *)

\* the next tick, once Publish has returned
Ticks(i) == poller[i] = "ticking" /\ due[i] = {}

\* Mutant: only the exit ends the poller.
PollQuits_OnExit(i) ==
  /\ Ticks(i)
  /\ Exited(i)
  /\ poller' = [poller EXCEPT ![i] = "off"]
  /\ UNCHANGED <<callVars, lockVars, slotVars, timerVars, procVars, reaper, snap, due, pubVars>>

PollQuits(i) ==
  /\ Ticks(i)
  /\ Exited(i) \/ state[i] # "starting"
  /\ poller' = [poller EXCEPT ![i] = "off"]
  /\ UNCHANGED <<callVars, lockVars, slotVars, timerVars, procVars, reaper, snap, due, pubVars>>

PollCheck(i) ==
  /\ Ticks(i)
  /\ state[i] = "starting"
  /\ poller' = [poller EXCEPT ![i] = "checked"]
  /\ UNCHANGED <<callVars, lockVars, slotVars, timerVars, procVars, reaper, snap, due, pubVars>>

\* Snapshot loads the pointer and then the state it points to
PollLoad(i) ==
  /\ poller[i] = "checked"
  /\ snap' = [snap EXCEPT ![i] = Snapshot]
  /\ poller' = [poller EXCEPT ![i] = IF current = Nil THEN "snapped" ELSE "loaded"]
  /\ UNCHANGED <<callVars, lockVars, slotVars, timerVars, procVars, reaper, due, pubVars>>

PollRead(i) ==
  /\ poller[i] = "loaded"
  /\ snap' = [snap EXCEPT ![i] = ViewOf(snap[i].inst, state[snap[i].inst])]
  /\ poller' = [poller EXCEPT ![i] = "snapped"]
  /\ UNCHANGED <<callVars, lockVars, slotVars, timerVars, procVars, reaper, due, pubVars>>

\* Publish by the poller: the event, then one gauge, or that of every model
PollEvent(i) ==
  /\ poller[i] = "snapped"
  /\ view' = snap[i]
  /\ due' = [due EXCEPT ![i] =
               IF snap[i].inst = Nil THEN Models ELSE {model[snap[i].inst]}]
  /\ poller' = [poller EXCEPT ![i] = "ticking"]
  /\ stale' = (stale \/ snap[i] # Snapshot)
  /\ UNCHANGED <<callVars, lockVars, slotVars, timerVars, procVars, reaper, snap, up>>

PollGauge(i) ==
  /\ \E m \in due[i] :
       /\ SetInstanceUp(m, snap[i].state)
       /\ due' = [due EXCEPT ![i] = @ \ {m}]
       /\ snap' = [snap EXCEPT ![i] = IF due[i] = {m} THEN NoView ELSE @]
  /\ stale' = (stale \/ snap[i] # Snapshot)
  /\ UNCHANGED <<callVars, lockVars, slotVars, timerVars, procVars, reaper, poller, view>>

-----------------------------------------------------------------------------
\* what a goroutine does when it gets the lock
CallerLocks(c) ==
  EnsureReuse(c) \/ EnsureSwap(c) \/ EnsureCold(c) \/ StopNothing(c) \/ StopBegin(c)

\* what the lock's holder c does, c a caller
CallerProceeds(c) ==
  \/ PrepareFails(c) \/ (\E i \in Instances : Create(c, i))
  \/ SpawnFails(c) \/ Spawn(c)
  \/ HealthOk(c) \/ HealthFails(c) \/ AbortDone(c)
  \/ MarkReady(c) \/ ReturnReady(c) \/ StopDone(c)

CallerStep(c) ==
  \/ (\E m \in Models : CallEnsure(c, m)) \/ CallStop(c) \/ FinishUse(c)
  \/ CallerLocks(c) \/ CallerProceeds(c)

IdleLocks(i) == IdleStale(i) \/ IdleStop(i)
ReapLocks(i) == ReapPlanned(i) \/ ReapCrash(i)

PollStep(i) == PollQuits(i) \/ PollCheck(i) \/ PollLoad(i) \/ PollRead(i)
               \/ PollEvent(i) \/ PollGauge(i)

InstanceStep(i) ==
  \/ IdleFires(i) \/ IdleLocks(i) \/ IdleStopDone(i)
  \/ LeaderExits(i) \/ ChildrenExit(i) \/ KillLands(i)
  \/ ReapExit(i) \/ ReapLocks(i)
  \/ PollStep(i)

Next ==
  \/ \E c \in Callers : CallerStep(c)
  \/ \E i \in Instances : InstanceStep(i)
  \/ SwapOut \/ GraceExpires

Spec == Init /\ [][Next]_vars

(* Fairness.  sync.Mutex hands itself to a goroutine that has waited 1 ms  *)
(* before any that has just arrived, so each waiter gets it in the end:    *)
(* strong fairness of every acquisition.  The holder goes on: every wait   *)
(* of it has a timeout.  SIGKILL kills, cmd.Wait returns once the group is *)
(* gone, a timer fires unless a call of Ensure may still re-arm it, and a  *)
(* poller gets its ticks.                                                  *)
(* The process is under no obligation to become healthy or to exit, and no *)
(* caller to finish a request.                                             *)
Quiet == \A c \in Callers : pc[c] # "calling"

HolderProceeds ==
  \/ (\E c \in Callers : CallerProceeds(c)) \/ (\E i \in Instances : IdleStopDone(i))
  \/ SwapOut \/ GraceExpires

Fairness ==
  /\ WF_vars(HolderProceeds)
  /\ \A c \in Callers : SF_vars(CallerLocks(c))
  /\ \A i \in Instances :
       /\ SF_vars(IdleLocks(i)) /\ SF_vars(ReapLocks(i))
       /\ WF_vars(KillLands(i)) /\ WF_vars(ReapExit(i))
       /\ WF_vars(Quiet /\ IdleFires(i))
       /\ WF_vars(PollStep(i))

FairSpec == Spec /\ Fairness

-----------------------------------------------------------------------------
(* Safety.                                                                 *)

(* At most one model is on the GPU: a process group that is still running, *)
(* even if only children of the leader are left, belongs to the instance   *)
(* in the slot.  A swap therefore waits for the whole group, also when the *)
(* leader ignores SIGTERM, and no path of startLocked forgets a process.   *)
LiveIsCurrent == \A i \in Instances : Live(i) => current = i

(* Whenever swapMu is free the slot is empty or holds a Ready instance:    *)
(* no failed start, stop or crash leaves a half-way instance for the next  *)
(* caller to find.                                                         *)
AtRest == holder = NoOne => (current = Nil \/ state[current] = "ready")

(* An instance at rest will be unloaded: its idle timer is running or its  *)
(* callback is on its way, whatever starts, reuses, swaps and stale        *)
(* callbacks went before (otherwise the model stays on the GPU for ever).  *)
RestHasIdleTimer ==
  (holder = NoOne /\ current # Nil) => current \in armed \cup idleDue

(* terminate and reap stop the timer of the instance they retire, and only *)
(* the goroutine that returns an instance arms one: no timer runs for an   *)
(* instance that is gone, and none while an instance is still starting.    *)
NoStrayTimer ==
  \A i \in armed : current = i /\ state[i] = "ready" /\ at # "ready"

(* "1 when a model instance is running" (lim_instance_up): with the lock   *)
(* free the gauge is 1 for the model of the instance in the slot and 0 for *)
(* every other, after any sequence of starts, failed starts, swaps, stops  *)
(* and crashes, and while pollStarting publishes without the lock, between *)
(* its event and its gauges too; unless it published a snapshot, or set a  *)
(* gauge after one, that held no more, until the slot is emptied.          *)
GaugeFollowsSlot ==
  (holder = NoOne /\ ~stale) => up = {model[i] : i \in Instances \cap {current}}

(* "The SSE stream reflects state changes as they happen." (startInstance) *)
(* With the lock free the last snapshot that went out is the one Snapshot  *)
(* would give, with the same exception, and that of a cmd.Start that       *)
(* failed, which leaves the pages with an instance that never ran.         *)
ViewIsCurrent ==
  (holder = NoOne /\ ~stale)
    => \/ view = Snapshot
       \/ current = Nil /\ view.inst # Nil /\ proc[view.inst] = "none"

(* When Ensure returns an instance it is the one in the slot, it is Ready, *)
(* and it serves the model that was asked for: however long the caller     *)
(* waited for the lock, what it returns is not what it saw before.         *)
EnsureDelivers ==
  [][\A c \in Callers :
       (pc[c] = "calling" /\ pc'[c] = "using")
         => /\ got'[c] = current'
            /\ state'[got'[c]] = "ready"
            /\ model'[got'[c]] = req[c]]_vars

(* When Stop returns, no process group that lim started is running: not    *)
(* that of an instance started while Stop waited for the lock, and not the *)
(* children of one that crashed.                                           *)
StopLeavesNothing ==
  [][\A c \in Callers :
       (pc[c] = "calling" /\ req[c] = StopRequest /\ pc'[c] = "out")
         => \A i \in Instances : ~Live(i)']_vars

(* The inductive invariant: how the holder's point in the code, the slot,  *)
(* the state of the instance in it and its process group go together.  It  *)
(* says, among other things, that inst.exited is closed only when nothing  *)
(* of the process group is left, which is what lets terminate rely on it.  *)
HolderIsAt ==
  /\ at = "free" <=> holder = NoOne
  /\ holder \in Callers => pc[holder] = "calling"
  /\ holder \in Instances => at = "stop"
  /\ at \in {"swap", "launch", "spawn", "health", "healthy", "ready", "abort"}
       => holder \in Callers /\ req[holder] \in Models

SlotIsAt ==
  /\ at = "free" /\ current # Nil => state[current] = "ready"
  /\ at = "launch" => current = Nil
  /\ at \in {"spawn", "health", "healthy"} => current # Nil /\ state[current] = "starting"
  /\ at = "ready" => current # Nil /\ state[current] = "ready"
  /\ at \in {"swap", "abort", "stop"} => current # Nil /\ state[current] = "stopping"
  /\ at \in {"spawn", "health", "healthy", "ready"} => model[current] = req[holder]
  /\ at = "spawn" => proc[current] = "none"

ProcessIsAt ==
  \A i \in Instances :
    /\ Live(i) => current = i
    /\ proc[i] = "none" <=> reaper[i] = "none"
    /\ Exited(i) => proc[i] = "gone"
    /\ state[i] = "unborn" => proc[i] = "none"

PollerIsAt ==
  \A i \in Instances :
    /\ poller[i] = "loaded" => snap[i].inst # Nil
    /\ snap[i].inst # Nil =>
         /\ state[snap[i].inst] # "unborn"
         /\ due[i] \subseteq {model[snap[i].inst]}
    /\ due[i] # {} => poller[i] = "ticking"
    /\ proc[i] = "none" => poller[i] = "off"

(* What is published at each point, unless a poller was late.              *)
PublishedIsAt ==
  /\ at \in {"free", "ready"} /\ current # Nil
       => up = {model[current]} /\ view = ViewOf(current, "ready")
  /\ at \in {"free", "launch"} /\ current = Nil
       => up = {} /\ (view = NoView \/ (view.inst # Nil /\ proc[view.inst] = "none"))
  /\ at \in {"spawn", "health", "healthy"}
       => up = {} /\ view = ViewOf(current, "starting")

IndInv ==
  /\ TypeOK /\ HolderIsAt /\ SlotIsAt /\ ProcessIsAt /\ PollerIsAt
  /\ RestHasIdleTimer /\ NoStrayTimer

(* The manager implements the one-slot specification.                      *)
Slot == INSTANCE InstanceSlot WITH
  slot  <- current,
  phase <- IF current = Nil THEN "empty" ELSE state[current],
  live  <- {i \in Instances : Live(i)},
  used  <- {i \in Instances : state[i] # "unborn"}

ImplementsSlot == Slot!Spec

-----------------------------------------------------------------------------
(* Liveness.                                                               *)

(* An instance whose process group has died does not stay in the slot,     *)
(* also when no timer is due and nobody calls Ensure.                      *)
CrashNoticed == \A i \in Instances : (current = i /\ proc[i] = "gone") ~> current # i

(* Once nobody calls Ensure or Stop any more the GPU is released for good, *)
(* also when requests hang in the instance that is running.                *)
EventuallyUnloaded ==
  <>[]Quiet => <>[](current = Nil /\ \A i \in Instances : ~Live(i))

(* The poller of an instance that has left its start ends, also one that   *)
(* was between its check and its publication: none is left behind for      *)
(* every start, however the start went.                                    *)
PollersEnd ==
  \A i \in Instances : (state[i] \notin {"unborn", "starting"}) ~> poller[i] = "off"

-----------------------------------------------------------------------------
(* What the documentation says and the code does not do.                   *)

(* "idle seconds before an instance is stopped" (config.go, default_ttl):  *)
(* the timer does not stop an instance that is serving a request.          *)
IdleSparesBusy ==
  [][\A i \in Instances :
       IdleStop(i) => \A c \in Callers : ~(pc[c] = "using" /\ got[c] = i)]_vars

=============================================================================
