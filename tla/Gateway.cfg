\* Two instances after each other, on the same port or not.
CONSTANTS
  Instances = {i1, i2}
  Nil = Nil
  Models = {m1, m2}
  Ports = {p1, p2}
  Requests = {r1}
  NoPort = NoPort
  Stranger = Stranger
  Nobody = Nobody
  Values <- MCValues
  MaxLabels = 2
  MaxLines = 1
SYMMETRY Symmetry
SPECIFICATION GatewaySpec
INVARIANTS GatewayInv SafeToProxy AnswersAreOwn SamplesAreLabelled
\* the instances are used up
CHECK_DEADLOCK FALSE
