CONSTANTS
  Configurations <- ExampleConfigurations
  DefaultTTLs = {300}
SPECIFICATION Spec
INVARIANTS ExampleLoads
\* Load returns: there is nothing left to do.
CHECK_DEADLOCK FALSE
