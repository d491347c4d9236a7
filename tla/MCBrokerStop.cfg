SPECIFICATION StopSpec
CONSTANTS
  Tasks = {t1, t2}
  Owners = {o1}
  Requests = {q1}
  Sensitive = {}
  Nil = Nil
  MaxGen = 1
  MaxSid = 1
  MaxLease = 1
  RestartLimit = 0
PROPERTY StopCancels
