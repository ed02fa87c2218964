-------------------------------- MODULE Lim ---------------------------------
(***************************************************************************)
(* The whole process (src/cmd/lim): main loads the configuration, fetches  *)
(* what the models declare, starts the HTTP server and waits for a signal. *)
(* The server accepts requests whose handlers call the manager. On a       *)
(* signal main calls Stop, closes the server, which waits at most 5 s for  *)
(* the handlers, and returns. Then every goroutine is gone, and what is    *)
(* left of the process groups goes on without a parent.                    *)
(***************************************************************************)
EXTENDS Manager

CONSTANTS Main,    \* the main goroutine, as a caller of Stop
          Entries  \* the downloads of all models

ASSUME MainIsCaller == Main \in Callers

VARIABLES
  phase,   \* how far main has come
  untried, \* the entries Preload has still to fetch
  open,    \* the handlers that have yet to call Ensure or Stop
  late     \* history: a request wanted the manager after the signal

limVars == <<vars, phase, untried, open, late>>

Handlers == Callers \ {Main}
Busy(c)  == c \in open \/ pc[c] # "out"

\* a request that has still to get the manager's answer
Wanting(c) == c \in open \/ pc[c] = "calling"

\* main has returned, or the process was ended before it could
Over == phase \in {"exited", "aborted"}

LimInit ==
  Init /\ phase = "loading" /\ untried = Entries /\ open = {} /\ late = FALSE

-----------------------------------------------------------------------------
(* Start-up. A handler may run before main has asked for the signal.       *)
MainGoes(from, to) ==
  phase = from /\ phase' = to /\ UNCHANGED <<vars, untried, open, late>>

\* the configuration is loaded and the database open, with -preload or not
Load == MainGoes("loading", "preloading") \/ MainGoes("loading", "listening")

\* hf ends, with the files or without them: that it failed is logged, and
\* makes no difference to what Preload and main do next.  Nothing bounds how
\* long it takes, and lim may stay here until a signal aborts it.
Fetch(e) ==
  /\ phase = "preloading" /\ e \in untried
  /\ untried' = untried \ {e}
  /\ UNCHANGED <<vars, phase, open, late>>

Preloaded == untried = {} /\ MainGoes("preloading", "listening")

Notify == MainGoes("listening", "serving")

\* log.Fatalf without a configuration or a database
LoadFails == MainGoes("loading", "aborted")

\* Before signal.Notify a signal does what it does by default; and a
\* listener that cannot be opened, or breaks, is fatal at any time. Requests
\* may have started an instance by then.
Abort ==
  /\ phase \in {"preloading", "listening", "serving", "stopping"}
  /\ phase' = "aborted"
  /\ UNCHANGED <<vars, untried, open, late>>

-----------------------------------------------------------------------------
\* the listener is open until srv.Shutdown closes it
Accept(c) ==
  /\ phase \in {"listening", "serving", "stopping"}
  /\ ~Busy(c)
  /\ open' = open \cup {c}
  /\ late' = (late \/ phase = "stopping")
  /\ UNCHANGED <<vars, phase, untried>>

\* the handler answers by itself: no token, no such model, ...
Answer(c) ==
  /\ c \in open /\ ~Over
  /\ open' = open \ {c}
  /\ UNCHANGED <<vars, phase, untried, late>>

HandlerCalls(c) ==
  /\ c \in open /\ ~Over
  /\ (\E m \in Models : CallEnsure(c, m)) \/ CallStop(c)
  /\ open' = open \ {c}
  /\ UNCHANGED <<phase, untried, late>>

\* Mutant: main leaves Stop to a goroutine that nobody waits for.
Signal_Async ==
  /\ phase = "serving"
  /\ late' = (\E c \in Handlers : Wanting(c))
  /\ CallStop(Main)
  /\ phase' = "closing"
  /\ UNCHANGED <<open, untried>>

Signal ==
  /\ phase = "serving"
  /\ late' = (\E c \in Handlers : Wanting(c))
  /\ CallStop(Main)
  /\ phase' = "stopping"
  /\ UNCHANGED <<open, untried>>

CloseServer ==
  /\ phase = "stopping" /\ pc[Main] = "out"
  /\ phase' = "closing"
  /\ UNCHANGED <<vars, open, untried, late>>

\* Mutant: srv.Shutdown has no deadline.
Exit_Patient ==
  /\ phase = "closing"
  /\ \A c \in Handlers : ~Busy(c)
  /\ phase' = "exited"
  /\ UNCHANGED <<vars, open, untried, late>>

\* srv.Shutdown returns: the handlers are done, or the 5 s are over
Exit ==
  /\ phase = "closing"
  /\ phase' = "exited"
  /\ UNCHANGED <<vars, open, untried, late>>

-----------------------------------------------------------------------------
\* what the manager's goroutines do by themselves
ManagerStep ==
  /\ ~Over
  /\ \/ \E c \in Callers : FinishUse(c) \/ CallerLocks(c) \/ CallerProceeds(c)
     \/ \E i \in Instances : InstanceStep(i)
     \/ SwapOut \/ GraceExpires
  /\ UNCHANGED <<phase, untried, open, late>>

\* the process groups that survive main
Survivors ==
  /\ phase = "exited"
  /\ \E i \in Instances : LeaderExits(i) \/ ChildrenExit(i) \/ KillLands(i)
  /\ UNCHANGED <<phase, untried, open, late>>

LimNext ==
  \/ Load \/ LoadFails \/ (\E e \in Entries : Fetch(e)) \/ Preloaded \/ Notify \/ Abort
  \/ \E c \in Handlers : Accept(c)
  \/ \E c \in Handlers : Answer(c)
  \/ \E c \in Handlers : HandlerCalls(c)
  \/ Signal \/ CloseServer \/ Exit
  \/ ManagerStep \/ Survivors

LimSpec == LimInit /\ [][LimNext]_limVars

(* As in Manager while lim runs; and once the signal has come main goes on *)
(* and the deadline of srv.Shutdown expires.  hf need not end.             *)
Running(A) == ~Over /\ A /\ UNCHANGED <<phase, untried, open, late>>

LimFairness ==
  /\ WF_limVars(CloseServer) /\ WF_limVars(Exit)
  /\ WF_limVars(Running(HolderProceeds))
  /\ \A c \in Callers : SF_limVars(Running(CallerLocks(c)))
  /\ \A i \in Instances :
       WF_limVars(Running(KillLands(i))) /\ WF_limVars(Running(ReapExit(i)))

LimFairSpec == LimSpec /\ LimFairness

-----------------------------------------------------------------------------
(* "Graceful shutdown: stop the llama-server instance, then the HTTP       *)
(* server." (main): lim leaves no process group behind when main returns.  *)
(* (A process that is ended by Abort leaves behind what it runs, and is    *)
(* not followed any further.)                                              *)
NoOrphan == phase = "exited" => \A i \in Instances : ~Live(i)

(* The part of it that holds: if every request that is open when the       *)
(* signal comes has its instance, and none comes after it, lim leaves no   *)
(* process group behind, whatever idle timers, crashes and stubborn        *)
(* processes there are on the way.                                         *)
QuietShutdown == ~late => NoOrphan

(* Its inductive invariant: main calls Stop once and nothing else; and if  *)
(* it was quiet when the signal came nobody wants the manager any more, so *)
(* that the slot stays as empty as Stop left it.                           *)
MainIsAt ==
  /\ open \subseteq Handlers
  /\ pc[Main] = "out" \/ (pc[Main] = "calling" /\ phase \in {"stopping", "aborted"})
  /\ pc[Main] = "calling" => req[Main] = StopRequest

QuietInv ==
  phase \in {"stopping", "closing", "exited"} /\ ~late =>
    /\ \A c \in Handlers : ~Wanting(c)
    /\ pc[Main] = "out" => current = Nil

LimInv == IndInv /\ MainIsAt /\ QuietInv

(* As long as lim runs every Ensure and every Stop returns, whatever the   *)
(* processes do: a model that never gets healthy, ignores SIGTERM or has   *)
(* crashed, and competing callers, cannot block a caller for ever.         *)
CallsReturn ==
  \A c \in Callers : pc[c] = "calling" ~> (pc[c] # "calling" \/ Over)

(* Once the signal has come lim exits, also when a start is under way, the *)
(* instance ignores SIGTERM, other handlers compete for the lock, and a    *)
(* request never ends.                                                     *)
MainExits == phase = "stopping" ~> Over
=============================================================================
