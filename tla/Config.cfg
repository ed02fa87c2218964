CONSTANTS
  Configurations <- MCConfigurations
  DefaultTTLs = {0, 5}
SPECIFICATION Spec
INVARIANTS AcceptanceIsOrderFree ResolveFindsOwner IdleTimeIsPositive
\* Load returns: there is nothing left to do.
CHECK_DEADLOCK FALSE
