\* One caller who sees one instance after the other, the first with a poller.
\* No symmetry: it is not sound for liveness.
CONSTANTS
  Callers = {c1}
  Models = {m1}
  Instances = {i1, i2}
  Nil = Nil
  NoOne = NoOne
  StopRequest = StopRequest
  StartMayFail = TRUE
  Polling = {i1}
SPECIFICATION FairSpec
PROPERTIES CrashNoticed EventuallyUnloaded PollersEnd
