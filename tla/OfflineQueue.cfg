CONSTANTS
  Msgs = {m1, m2, m3}
  MaxLen = 2
  TTL = 1
  MaxTime = 3
  MaxDelivered = 3
SPECIFICATION Spec
CONSTRAINT FewDelivered
SYMMETRY Symmetry
INVARIANTS RestartIsTransparent LateOnlyAfterRestart DeliveredInOrder
CHECK_DEADLOCK FALSE
