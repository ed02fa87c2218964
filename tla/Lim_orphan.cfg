\* A signal while a request waits for the lock.
CONSTANTS
  Callers = {main, h1, h2}
  Models = {m1}
  Instances = {i1}
  Nil = Nil
  NoOne = NoOne
  StopRequest = StopRequest
  StartMayFail = TRUE
  Polling = {}
  Main = main
  Entries = {}
SPECIFICATION LimSpec
INVARIANTS NoOrphan
\* lim exits, and what it leaves may be gone
CHECK_DEADLOCK FALSE
