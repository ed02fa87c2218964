\* The idle timer against a request in flight.
CONSTANTS
  Callers = {c1}
  Models = {m1}
  Instances = {i1}
  Nil = Nil
  NoOne = NoOne
  StopRequest = StopRequest
  StartMayFail = FALSE
  Polling = {}
SPECIFICATION Spec
PROPERTIES IdleSparesBusy
