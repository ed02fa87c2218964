----------------------------- MODULE QueueFeed ------------------------------
(***************************************************************************)
(* How the queue depth reaches the dashboard and /metrics.  Every Ensure   *)
(* counts itself in and out of queueDepth; after each change publishQueue  *)
(* loads the counter and publishes the value: publisher.Publish sends it   *)
(* to the event bus, subscriber by subscriber under the bus's read lock,   *)
(* and then sets the gauge.  An SSE handler subscribes, shows the current  *)
(* depth, and then shows what arrives in its channel.                      *)
(*                                                                         *)
(* What happens between the two counts is Manager's subject.  The bus is   *)
(* the same for the topics instances and requests.                         *)
(***************************************************************************)
EXTENDS Integers, Sequences, FiniteSets

CONSTANTS Callers,   \* the goroutines that call Ensure
          Clients,   \* the SSE connections, each with a channel of its own
          Cap,       \* the capacity of a channel (32 in the code)
          MaxCalls   \* how often each caller calls Ensure (a bound of the model)

ASSUME BoundsAreNatural == Cap \in Nat \ {0} /\ MaxCalls \in Nat
ASSUME CallersAreFinite == IsFiniteSet(Callers)

VARIABLES
  depth,    \* m.queueDepth
  pc,       \* where each caller is
  leaving,  \* the callers that count themselves out, not in
  calls,    \* how often each caller has called
  seen,     \* the value publishQueue has loaded
  readers,  \* the publishers that hold bus.mu for reading
  todo,     \* the channels each publisher has yet to send to
  subs,     \* the channels in bus.subs
  closed,   \* the channels that are closed
  buffer,   \* what is in each channel
  page,     \* where each SSE handler is
  badge,    \* the depth each page shows
  gauge,    \* lim_queue_depth
  raced,    \* history: another publication overlapped the latest
  missed    \* history: the channels that were full when last sent to

callVars  == <<depth, pc, leaving, calls, seen>>
busVars   == <<readers, todo, subs, closed, buffer>>
pageVars  == <<page, badge>>
histVars  == <<raced, missed>>
vars == <<callVars, busVars, pageVars, gauge, histVars>>

Publishing == {"load", "lock", "send", "gauge"}
Depths     == 0..Cardinality(Callers)

TypeOK ==
  /\ depth \in Depths
  /\ pc \in [Callers -> Publishing \cup {"out", "inside"}]
  /\ leaving \subseteq Callers
  /\ calls \in [Callers -> 0..MaxCalls]
  /\ seen \in [Callers -> Depths]
  /\ readers \subseteq Callers
  /\ todo \in [Callers -> SUBSET Clients]
  /\ subs \subseteq Clients
  /\ closed \subseteq Clients
  /\ \A k \in Clients : buffer[k] \in Seq(Depths) /\ Len(buffer[k]) <= Cap
  /\ page \in [Clients -> {"off", "connecting", "watching", "gone"}]
  /\ badge \in [Clients -> Depths]
  /\ gauge \in Depths
  /\ raced \in BOOLEAN
  /\ missed \subseteq Clients

Init ==
  /\ depth = 0 /\ gauge = 0
  /\ pc = [c \in Callers |-> "out"]
  /\ leaving = {}
  /\ calls = [c \in Callers |-> 0]
  /\ seen = [c \in Callers |-> 0]
  /\ readers = {} /\ subs = {} /\ closed = {}
  /\ todo = [c \in Callers |-> {}]
  /\ buffer = [k \in Clients |-> <<>>]
  /\ page = [k \in Clients |-> "off"]
  /\ badge = [k \in Clients |-> 0]
  /\ raced = FALSE /\ missed = {}

-----------------------------------------------------------------------------
(* Ensure and publishQueue.                                                *)

GoTo(c, label) == pc' = [pc EXCEPT ![c] = label]

\* the counter is changed and will be published, perhaps at the same time as
\* another caller's change
Changes(c) ==
  /\ raced' = \E d \in Callers \ {c} : pc[d] \in Publishing
  /\ UNCHANGED missed

Enter(c) ==
  /\ pc[c] = "out" /\ calls[c] < MaxCalls
  /\ depth' = depth + 1
  /\ calls' = [calls EXCEPT ![c] = @ + 1]
  /\ GoTo(c, "load")
  /\ Changes(c)
  /\ UNCHANGED <<leaving, seen, busVars, pageVars, gauge>>

Leave(c) ==
  /\ pc[c] = "inside"
  /\ depth' = depth - 1
  /\ leaving' = leaving \cup {c}
  /\ GoTo(c, "load")
  /\ Changes(c)
  /\ UNCHANGED <<calls, seen, busVars, pageVars, gauge>>

Load(c) ==
  /\ pc[c] = "load"
  /\ seen' = [seen EXCEPT ![c] = depth]
  /\ GoTo(c, "lock")
  /\ UNCHANGED <<depth, leaving, calls, busVars, pageVars, gauge, histVars>>

\* Mutant: the gauge is set only when the counter went up.
SetGauge_Entering(c) ==
  /\ pc[c] = "gauge"
  /\ gauge' = IF c \in leaving THEN gauge ELSE seen[c]
  /\ leaving' = leaving \ {c}
  /\ GoTo(c, IF c \in leaving THEN "out" ELSE "inside")
  /\ UNCHANGED <<depth, calls, seen, busVars, pageVars, histVars>>

SetGauge(c) ==
  /\ pc[c] = "gauge"
  /\ gauge' = seen[c]
  /\ leaving' = leaving \ {c}
  /\ GoTo(c, IF c \in leaving THEN "out" ELSE "inside")
  /\ UNCHANGED <<depth, calls, seen, busVars, pageVars, histVars>>

-----------------------------------------------------------------------------
(* Bus.Publish.                                                            *)

LockBus(c) ==
  /\ pc[c] = "lock"
  /\ readers' = readers \cup {c}
  /\ todo' = [todo EXCEPT ![c] = subs]
  /\ GoTo(c, "send")
  /\ UNCHANGED <<depth, leaving, calls, seen, subs, closed, buffer, pageVars, gauge, histVars>>

\* Mutant: the publisher waits for room in the channel.
Send_Blocking(c, k) ==
  /\ pc[c] = "send" /\ k \in todo[c]
  /\ Len(buffer[k]) < Cap
  /\ buffer' = [buffer EXCEPT ![k] = Append(@, seen[c])]
  /\ missed' = missed \ {k}
  /\ todo' = [todo EXCEPT ![c] = @ \ {k}]
  /\ UNCHANGED <<callVars, readers, subs, closed, pageVars, gauge, raced>>

Send(c, k) ==
  /\ pc[c] = "send" /\ k \in todo[c]
  /\ buffer' = [buffer EXCEPT ![k] = IF Len(@) < Cap THEN Append(@, seen[c]) ELSE @]
  /\ missed' = IF Len(buffer[k]) < Cap THEN missed \ {k} ELSE missed \cup {k}
  /\ todo' = [todo EXCEPT ![c] = @ \ {k}]
  /\ UNCHANGED <<callVars, readers, subs, closed, pageVars, gauge, raced>>

UnlockBus(c) ==
  /\ pc[c] = "send" /\ todo[c] = {}
  /\ readers' = readers \ {c}
  /\ GoTo(c, "gauge")
  /\ UNCHANGED <<depth, leaving, calls, seen, todo, subs, closed, buffer, pageVars, gauge, histVars>>

-----------------------------------------------------------------------------
(* The SSE handler.                                                        *)

Subscribe(k) ==
  /\ page[k] = "off" /\ readers = {}
  /\ subs' = subs \cup {k}
  /\ page' = [page EXCEPT ![k] = "connecting"]
  /\ UNCHANGED <<callVars, readers, todo, closed, buffer, badge, gauge, histVars>>

\* Mutant: the handler shows nothing until an event arrives.
ShowCurrent_Missing(k) ==
  /\ page[k] = "connecting"
  /\ page' = [page EXCEPT ![k] = "watching"]
  /\ UNCHANGED <<callVars, busVars, badge, gauge, histVars>>

ShowCurrent(k) ==
  /\ page[k] = "connecting"
  /\ badge' = [badge EXCEPT ![k] = depth]
  /\ page' = [page EXCEPT ![k] = "watching"]
  /\ UNCHANGED <<callVars, busVars, gauge, histVars>>

Receive(k) ==
  /\ page[k] = "watching" /\ buffer[k] # <<>>
  /\ badge' = [badge EXCEPT ![k] = Head(buffer[k])]
  /\ buffer' = [buffer EXCEPT ![k] = Tail(@)]
  /\ UNCHANGED <<callVars, readers, todo, subs, closed, page, gauge, histVars>>

\* Mutant: the channel is closed without the lock.
Disconnect_Unlocked(k) ==
  /\ page[k] = "watching"
  /\ subs' = subs \ {k}
  /\ closed' = closed \cup {k}
  /\ page' = [page EXCEPT ![k] = "gone"]
  /\ UNCHANGED <<callVars, readers, todo, buffer, badge, gauge, histVars>>

\* the request's context is done, and the deferred cancel runs
Disconnect(k) ==
  /\ page[k] = "watching" /\ readers = {}
  /\ subs' = subs \ {k}
  /\ closed' = closed \cup {k}
  /\ page' = [page EXCEPT ![k] = "gone"]
  /\ UNCHANGED <<callVars, readers, todo, buffer, badge, gauge, histVars>>

-----------------------------------------------------------------------------
PublishStep(c) ==
  Load(c) \/ LockBus(c) \/ (\E k \in Clients : Send(c, k)) \/ UnlockBus(c) \/ SetGauge(c)

PageStep(k) == Subscribe(k) \/ ShowCurrent(k) \/ Receive(k) \/ Disconnect(k)

Next ==
  \/ \E c \in Callers : Enter(c)
  \/ \E c \in Callers : Leave(c)
  \/ \E c \in Callers : PublishStep(c)
  \/ \E k \in Clients : PageStep(k)

Spec == Init /\ [][Next]_vars

(* A publisher that can go on does.  Nothing is assumed of the browsers,   *)
(* nor of how long a caller stays inside Ensure.                           *)
FairSpec == Spec /\ \A c \in Callers : WF_vars(PublishStep(c))

-----------------------------------------------------------------------------
\* nobody is between a change of the counter and the end of its publication
Settled == \A c \in Callers : pc[c] \in {"out", "inside"}

(* Publish never sends on a closed channel, which would panic: a browser   *)
(* that goes away while an event is sent to it waits for the publisher.    *)
NoSendOnClosed == \A c \in Callers : pc[c] = "send" => todo[c] \cap closed = {}

(* "Requests waiting for an instance to become ready" (lim_queue_depth):   *)
(* once nobody is publishing the gauge is the counter, if the latest       *)
(* change was published by itself.  When two publications overlap, each    *)
(* may set what the other has made stale, and the gauge stays wrong until  *)
(* the next change.                                                        *)
GaugeSettles == (Settled /\ ~raced) => gauge = depth

(* "a freshly loaded page is accurate" (events): a page that connects at   *)
(* any moment of the publications and has shown all that arrived shows the *)
(* counter, with the same exception, and unless its channel was full when  *)
(* the latest change was sent, so that just this event was dropped.        *)
PageSettles ==
  (Settled /\ ~raced) =>
    \A k \in Clients \ missed :
      (page[k] = "watching" /\ buffer[k] = <<>>) => badge[k] = depth

(* "Publishing never blocks: a slow subscriber simply drops events" (bus): *)
(* no caller of Ensure hangs in a publication, whatever the browsers do.   *)
PublishEnds == \A c \in Callers : pc[c] \in Publishing ~> pc[c] \notin Publishing
=============================================================================
