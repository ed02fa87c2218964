\* Two competing callers, a swap, every way a start can fail, and the first
\* instance's poller, which publishes in the middle of all of it.
CONSTANTS
  Callers = {c1, c2}
  Models = {m1, m2}
  Instances = {i1, i2}
  Nil = Nil
  NoOne = NoOne
  StopRequest = StopRequest
  StartMayFail = TRUE
  Polling = {i1}
SYMMETRY Symmetry
SPECIFICATION Spec
INVARIANTS IndInv LiveIsCurrent AtRest RestHasIdleTimer GaugeFollowsSlot ViewIsCurrent
PROPERTIES EnsureDelivers StopLeavesNothing ImplementsSlot
