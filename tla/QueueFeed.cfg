\* Two publishers at once, and channels that overflow.
CONSTANTS
  Callers = {c1, c2}
  Clients = {k1}
  Cap = 1
  MaxCalls = 2
SPECIFICATION FairSpec
INVARIANTS NoSendOnClosed GaugeSettles PageSettles
PROPERTIES PublishEnds
\* the callers have made their calls and the browsers have gone
CHECK_DEADLOCK FALSE
