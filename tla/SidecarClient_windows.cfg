SPECIFICATION FairSpec
CONSTANTS
  Callers = {c1, c2}
  Reader = Reader
  Monitor = Monitor
  Nil = Nil
  Terminates = TRUE
  Kinds = {"action", "shutdown"}
  PipeSize = 0
  Rounds = 2
INVARIANT IInv
PROPERTIES QuarantineHolds CallsSpec CallsReturn
CHECK_DEADLOCK FALSE
