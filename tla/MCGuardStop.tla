---------------------------- MODULE MCGuardStop ----------------------------
(***************************************************************************)
(* InteractionGuard with the memory of what was pressed when a Stop Turn   *)
(* interrupted the session.                                                *)
(***************************************************************************)
EXTENDS InteractionGuard

VARIABLE inherited   \* sessions whose input is pressed since a Stop Turn

Pressing == {s \in Sessions : pressed[s] # {}}

StopInit == Init /\ inherited = {}

StopNext ==
  \/ ResetAfterInterrupt /\ inherited' = Pressing
  \/ Next /\ inherited' = inherited \intersect Pressing'

StopSpec == StopInit /\ [][StopNext]_<<vars, inherited>>

\* reset_after_interrupt, "The next action ... must not inherit pressed-state
\* or UX state from the interrupted action": no action of a session begins
\* with input pressed before a Stop Turn.
NothingInherited ==
  [][pc = "idle" /\ pc' = "begun" => sess' \notin inherited]_<<vars, inherited>>
=============================================================================
