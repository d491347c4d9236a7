SPECIFICATION Spec
CONSTANTS
  Sessions = {s1}
  Nil = Nil
  MaxEvents = 2
INVARIANTS IInv AloneAsHeard FreshAfterConflict
