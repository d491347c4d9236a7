---------------------------- MODULE RemoteCalls ----------------------------
(***************************************************************************)
(* What a client of the sidecar promises to its callers, without pipes,    *)
(* threads or a pending map: a request is performed once at most, never    *)
(* after its answer was handed out, and none is performed after a timeout  *)
(* was reported, where the process can be killed.  A call that fails in    *)
(* any other way promises nothing: its action may still be performed.      *)
(***************************************************************************)
CONSTANTS
  Requests,
  Quarantines    \* a timeout ends the process

VARIABLES
  asked,         \* requests of calls that began
  running,       \* requests of calls that did not return yet
  answered,      \* requests whose answer was handed out
  timedOut,      \* requests whose timeout was reported
  performed      \* actions performed

vars == <<asked, running, answered, timedOut, performed>>

Init == asked = {} /\ running = {} /\ answered = {} /\ timedOut = {} /\ performed = {}

Ask(i) ==
  /\ i \notin asked
  /\ asked' = asked \union {i} /\ running' = running \union {i}
  /\ UNCHANGED <<answered, timedOut, performed>>

Perform(i) ==
  /\ i \in asked \ (performed \union answered)
  /\ Quarantines => timedOut = {}
  /\ performed' = performed \union {i}
  /\ UNCHANGED <<asked, running, answered, timedOut>>

Open(i) == i \in running \ (answered \union timedOut)

\* The call returns with its answer, or does something more first.
Answer(i) ==
  /\ Open(i)
  /\ answered' = answered \union {i} /\ running' \in {running, running \ {i}}
  /\ UNCHANGED <<asked, timedOut, performed>>

Expire(i) ==
  /\ Open(i)
  /\ timedOut' = timedOut \union {i}
  /\ UNCHANGED <<asked, running, answered, performed>>

Return(i) ==
  /\ i \in running
  /\ running' = running \ {i}
  /\ UNCHANGED <<asked, answered, timedOut, performed>>

Next == \E i \in Requests : Ask(i) \/ Perform(i) \/ Answer(i) \/ Expire(i) \/ Return(i)

Spec == Init /\ [][Next]_vars
=============================================================================
