\* A signal at any moment, with requests that compete with main for the lock.
CONSTANTS
  Callers = {main, h1, h2}
  Models = {m1, m2}
  Instances = {i1}
  Nil = Nil
  NoOne = NoOne
  StopRequest = StopRequest
  StartMayFail = TRUE
  Polling = {}
  Main = main
  Entries = {d1, d2}
SPECIFICATION LimFairSpec
INVARIANTS QuietShutdown
PROPERTIES CallsReturn MainExits
\* lim exits, and what it leaves may be gone
CHECK_DEADLOCK FALSE
