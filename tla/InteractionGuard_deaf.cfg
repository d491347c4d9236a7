SPECIFICATION Spec
CONSTANTS
  Sessions = {s1}
  Nil = Nil
  MaxEvents = 1
INVARIANT FailsClosed
