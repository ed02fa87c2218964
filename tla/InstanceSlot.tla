---------------------------- MODULE InstanceSlot ----------------------------
(***************************************************************************)
(* What the manager promises about the one slot it has for llama-server:   *)
(* the slot is filled only when no process group of an earlier instance    *)
(* is left, an instance is used once, it becomes ready only after it was   *)
(* starting, and the slot is given up either before anything was spawned   *)
(* or once the process group is dead.  Who asks for an instance, the lock, *)
(* the timers and the goroutines that make this true are in Manager.       *)
(***************************************************************************)
CONSTANTS Instances,  \* every instance that will ever be created
          Nil         \* no instance

VARIABLES slot,   \* the instance in the slot, or Nil
          phase,  \* how far the instance in the slot has come
          live,   \* the instances with a running process group
          used    \* the instances that have ever been put in the slot

vars == <<slot, phase, live, used>>

Init == slot = Nil /\ phase = "empty" /\ live = {} /\ used = {}

Fill(i) ==
  /\ slot = Nil /\ live = {} /\ i \notin used
  /\ slot' = i /\ phase' = "starting" /\ used' = used \cup {i}
  /\ UNCHANGED live

Spawn ==
  /\ phase = "starting" /\ live = {}
  /\ live' = {slot}
  /\ UNCHANGED <<slot, phase, used>>

Ready == phase = "starting" /\ phase' = "ready" /\ UNCHANGED <<slot, live, used>>

Drain ==
  /\ phase \in {"starting", "ready"} /\ phase' = "stopping"
  /\ UNCHANGED <<slot, live, used>>

Die == live # {} /\ live' = {} /\ UNCHANGED <<slot, phase, used>>

Vacate ==
  /\ slot # Nil /\ live = {}
  /\ slot' = Nil /\ phase' = "empty"
  /\ UNCHANGED <<live, used>>

Next == (\E i \in Instances : Fill(i)) \/ Spawn \/ Ready \/ Drain \/ Die \/ Vacate

Spec == Init /\ [][Next]_vars
=============================================================================
