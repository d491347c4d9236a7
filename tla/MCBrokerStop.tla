---------------------------- MODULE MCBrokerStop ----------------------------
(***************************************************************************)
(* Broker with the memory of which executions a Stop Turn interrupted.     *)
(***************************************************************************)
EXTENDS Broker

VARIABLE stopped   \* calls inside the action gate when the turn was stopped

StopInit == Init /\ stopped = {}

StopNext ==
  \/ /\ \E t \in Tasks : ResetAfterInterrupt(t)
     /\ stopped' = {t \in Tasks : pc[t] \in GatedPC}
  \/ Next /\ stopped' = {t \in stopped : pc'[t] \in GatedPC}

StopSpec == StopInit /\ [][StopNext]_<<vars, stopped>>

\* reset_after_interrupt, "Stop Turn is a desktop-input cancellation
\* boundary": an execution under way when the turn is stopped sends no input
\* afterwards.
StopCancels ==
  [][\A t \in stopped : pc'[t] = "sent" => pc[t] = "sent"]_<<vars, stopped>>
=============================================================================
