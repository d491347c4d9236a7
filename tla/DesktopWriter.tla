--------------------------- MODULE DesktopWriter ---------------------------
(***************************************************************************)
(* What the broker promises about desktop input, without sessions, leases, *)
(* restarts or approvals: actions are written to the desktop one at a time *)
(* and none is written twice.                                              *)
(***************************************************************************)
CONSTANT Actions

VARIABLES
  reserved,   \* the action admitted and not yet written, if any
  writing,    \* the action written and not yet answered, if any
  written     \* every action ever written

vars == <<reserved, writing, written>>

Init == reserved = {} /\ writing = {} /\ written = {}

Reserve(a) ==
  /\ reserved = {} /\ writing = {} /\ a \notin written
  /\ reserved' = {a}
  /\ UNCHANGED <<writing, written>>

Cancel ==
  /\ reserved # {}
  /\ reserved' = {}
  /\ UNCHANGED <<writing, written>>

Write(a) ==
  /\ reserved = {a}
  /\ reserved' = {}
  /\ writing' = {a}
  /\ written' = written \union {a}

Answer ==
  /\ writing # {}
  /\ writing' = {}
  /\ UNCHANGED <<reserved, written>>

Next == Cancel \/ Answer \/ \E a \in Actions : Reserve(a) \/ Write(a)

Spec == Init /\ [][Next]_vars
=============================================================================
