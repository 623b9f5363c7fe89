SPECIFICATION Spec
CONSTANTS
  Client = {c1, c2}
  Target = {t1, t2}
  Operation = {"info", "device", "shutdown"}
  HostOperation = {"info", "shutdown"}
  MaxSignals = 1
  None = None
INVARIANTS EndsInOrder
PROPERTIES ControllerStays Answered Terminates
CHECK_DEADLOCK FALSE
