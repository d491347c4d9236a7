SPECIFICATION StopSpec
CONSTANTS
  Sessions = {s1}
  Nil = Nil
  MaxEvents = 1
PROPERTY NothingInherited
