SPECIFICATION FairSpec
CONSTANTS
  Tasks = {t1, t2}
  Owners = {o1}
  Requests = {q1}
  Sensitive = {q1}
  Nil = Nil
  MaxGen = 1
  MaxSid = 1
  MaxLease = 2
  RestartLimit = 0
INVARIANTS TypeOK ExactlyOnce GateExclusive
PROPERTY LocksReleased
