SPECIFICATION Spec
CONSTANTS
  Client = {c1}
  Target = {t1}
  Operation = {"device"}
  HostOperation = {"device"}
  MaxSignals = 0
  None = None
PROPERTIES OperationEnds
CHECK_DEADLOCK FALSE
