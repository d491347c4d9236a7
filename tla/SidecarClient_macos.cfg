SPECIFICATION Spec
CONSTANTS
  Callers = {c1}
  Reader = Reader
  Monitor = Monitor
  Nil = Nil
  Terminates = FALSE
  Kinds = {"action"}
  PipeSize = 1
  Rounds = 1
PROPERTY QuarantineHolds
CHECK_DEADLOCK FALSE
