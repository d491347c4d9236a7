SPECIFICATION Spec
CONSTANTS
  Tasks = {t1, t2}
  Owners = {o1}
  Requests = {q1}
  Sensitive = {}
  Nil = Nil
  MaxGen = 2
  MaxSid = 2
  MaxLease = 1
  RestartLimit = 1
SYMMETRY Symm
INVARIANTS IInv SessionsCurrent SentRemembered SessionNotOlder
PROPERTY WriterSpec
