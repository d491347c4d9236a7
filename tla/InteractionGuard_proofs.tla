----------------------- MODULE InteractionGuard_proofs -----------------------
(***************************************************************************)
(* Proofs about InteractionGuard, for every set of sessions and any number *)
(* of input events: what is performed was performed alone as far as the    *)
(* hooks heard, and a conflict is reported once.                           *)
(***************************************************************************)
EXTENDS InteractionGuard, TLAPS

-----------------------------------------------------------------------------
(* Types.                                                                  *)

\* Counters all at zero are a snapshot.
LEMMA ZeroTyped == Zero \in Snapshot
BY DEF Zero, Snapshot

\* A verdict is a state of the guard.
LEMMA VerdictTyped == Verdict \in InteractionStates
BY DEF Verdict, InteractionStates

\* So is what an observation reports.
LEMMA ObservedTyped == ObservedState \in InteractionStates
BY DEF ObservedState, InteractionStates

\* Clearing gestures keeps them typed.
LEMMA ClearTyped ==
  ASSUME GestureTypeOK, NEW S, ClearGestures(S)
  PROVE  GestureTypeOK'
BY ZeroTyped DEF GestureTypeOK, ClearGestures

\* A return leaves a typed idle call.
LEMMA ReturnTyped ==
  ASSUME Return
  PROVE  CallTypeOK'
BY ZeroTyped DEF Return, CallTypeOK, PC, Actions

\* A move to another program point of the same call keeps the call typed.
LEMMA GotoTyped ==
  ASSUME CallTypeOK, pc # "idle", NEW p \in PC, Goto(p)
  PROVE  CallTypeOK'
BY DEF Goto, callVars, CallTypeOK

\* A conflict keeps the guard and the call typed.
LEMMA ConflictTyped ==
  ASSUME TypeOK, pc # "idle", NEW state \in InteractionStates, Conflict(state),
         UNCHANGED <<monVars, open, pressed>>
  PROVE  GuardTypeOK' /\ CallTypeOK'
<1>1. CallTypeOK'
  BY GotoTyped DEF Conflict, TypeOK, PC
<1>2. GuardTypeOK'
  BY DEF Conflict, TypeOK, GuardTypeOK, CallTypeOK, monVars
<1> QED BY <1>1, <1>2

\* Pressing or releasing keeps the pressed input typed.
LEMMA TouchedTyped ==
  ASSUME TypeOK, pc # "idle"
  PROVE  Touched \in [Sessions -> SUBSET {"key", "button"}]
<1>1. Input(act) \in {"key", "button"}
  BY DEF Input
<1>2. sess \in Sessions /\ pressed \in [Sessions -> SUBSET {"key", "button"}]
  BY DEF TypeOK, GuardTypeOK, CallTypeOK
<1>3. BeginsHeld(act) => ~EndsHeld(act)
  BY DEF BeginsHeld, EndsHeld
<1> QED BY <1>1, <1>2, <1>3 DEF Touched

\* Every step of the execution keeps every variable in its type.
LEMMA ExecutionTyped ==
  ASSUME TypeOK, Execution
  PROVE  TypeOK'
<1> USE DEF TypeOK
<1>1. ASSUME NEW s \in Sessions, NEW a \in Actions, Begin(s, a) PROVE TypeOK'
  <2>1. GuardTypeOK'
    BY <1>1 DEF Begin, GuardTypeOK, monVars, InteractionStates
  <2>2. GestureTypeOK'
    BY <1>1 DEF Begin, GestureTypeOK, gestureVars
  <2>3. CallTypeOK'
    BY <1>1 DEF Begin, CallTypeOK, GuardTypeOK, GestureTypeOK, PC, Exposed, Admission
  <2> QED BY <2>1, <2>2, <2>3
<1>2. ASSUME Refuse \/ ExecuteFails \/ FocusUnverified PROVE TypeOK'
  <2>1. CallTypeOK'
    BY <1>2, ReturnTyped DEF Refuse, ExecuteFails, FocusUnverified
  <2>2. GestureTypeOK'
    BY <1>2 DEF Refuse, ExecuteFails, FocusUnverified, GestureTypeOK, gestureVars
  <2>3. pressed' \in [Sessions -> SUBSET {"key", "button"}]
    BY <1>2, TouchedTyped DEF Refuse, ExecuteFails, FocusUnverified, GuardTypeOK
  <2> QED BY <1>2, <2>1, <2>2, <2>3
       DEF Refuse, ExecuteFails, FocusUnverified, GuardTypeOK, monVars
<1>3. ASSUME AskApproval PROVE TypeOK'
  <2>1. CallTypeOK' /\ GestureTypeOK'
    BY <1>3, ReturnTyped, ClearTyped DEF AskApproval
  <2> QED BY <1>3, <2>1, ObservedTyped DEF AskApproval, GuardTypeOK, monVars
<1>4. ASSUME Preflight PROVE TypeOK'
  <2>1. CallTypeOK'
    BY <1>4, GotoTyped DEF Preflight, PC, Exposed, Admission
  <2> QED BY <1>4, <2>1
       DEF Preflight, GuardTypeOK, GestureTypeOK, monVars, gestureVars, InteractionStates
<1>5. ASSUME PreflightConflict PROVE TypeOK'
  <2>1. pc # "idle"
    BY <1>5 DEF PreflightConflict, Admission
  <2>2. PICK state \in InteractionStates : Conflict(state)
    BY <1>5, VerdictTyped DEF PreflightConflict, InteractionStates
  <2>3. GuardTypeOK' /\ CallTypeOK'
    BY <1>5, <2>1, <2>2, ConflictTyped DEF PreflightConflict
  <2> QED BY <1>5, <2>3 DEF PreflightConflict, GestureTypeOK, gestureVars
<1>6. ASSUME Execute PROVE TypeOK'
  <2>1. pressed' \in [Sessions -> SUBSET {"key", "button"}]
    BY <1>6, TouchedTyped DEF Execute, GuardTypeOK
  <2>2. CallTypeOK'
    BY <1>6 DEF Execute, CallTypeOK, PC, Exposed
  <2> QED BY <1>6, <2>1, <2>2 DEF Execute, GuardTypeOK, GestureTypeOK, monVars, gestureVars
<1>7. ASSUME FocusMissed \/ Postflight PROVE TypeOK'
  <2>1. CallTypeOK'
    BY <1>7, GotoTyped DEF FocusMissed, Postflight, PC
  <2> QED BY <1>7, <2>1
       DEF FocusMissed, Postflight, GuardTypeOK, GestureTypeOK, monVars, gestureVars
<1>8. ASSUME PostflightConflict PROVE TypeOK'
  <2>1. GuardTypeOK' /\ CallTypeOK'
    BY <1>8, VerdictTyped, ConflictTyped DEF PostflightConflict
  <2> QED BY <1>8, <2>1 DEF PostflightConflict, GestureTypeOK, gestureVars
<1>9. ASSUME Commit PROVE TypeOK'
  <2>1. CallTypeOK'
    BY <1>9, ReturnTyped DEF Commit
  <2>2. GestureTypeOK'
    <3>1. sess \in Sessions /\ count \in Snapshot
      BY <1>9 DEF Commit, CallTypeOK, GuardTypeOK
    <3>2. CASE ClearGestures({sess})
      BY <3>2, ClearTyped
    <3>3. CASE UNCHANGED gestureVars
      BY <3>3 DEF GestureTypeOK, gestureVars
    <3> QED BY <1>9, <3>1, <3>2, <3>3 DEF Commit, GestureTypeOK
  <2> QED BY <1>9, <2>1, <2>2 DEF Commit, GuardTypeOK, monVars
<1>10. ASSUME NotPerformed PROVE TypeOK'
  <2>1. CallTypeOK'
    BY <1>10, GotoTyped, ReturnTyped DEF NotPerformed, PC
  <2> QED BY <1>10, <2>1
       DEF NotPerformed, GuardTypeOK, GestureTypeOK, monVars, gestureVars
<1>11. ASSUME CleanUp PROVE TypeOK'
  <2>1. CallTypeOK' /\ GestureTypeOK'
    BY <1>11, ReturnTyped, ClearTyped DEF CleanUp
  <2>2. pressed' \in [Sessions -> SUBSET {"key", "button"}]
    BY <1>11 DEF CleanUp, GuardTypeOK
  <2> QED BY <1>11, <2>1, <2>2 DEF CleanUp, GuardTypeOK, monVars
<1> QED BY <1>1, <1>2, <1>3, <1>4, <1>5, <1>6, <1>7, <1>8, <1>9, <1>10, <1>11
     DEF Execution

\* Every step of the other callers and of the monitor does, too.
LEMMA OthersTyped ==
  ASSUME TypeOK, Others
  PROVE  TypeOK'
<1> USE DEF TypeOK
<1>1. ASSUME Observe PROVE TypeOK'
  BY <1>1, ObservedTyped
  DEF Observe, GuardTypeOK, GestureTypeOK, CallTypeOK, monVars, gestureVars, callVars
<1>2. ASSUME NEW S, ClearGestures(S), UNCHANGED <<monVars, pressed, pc, callVars, blamed>>,
             guard' \in {guard, ObservedState}, open' \subseteq open
      PROVE  TypeOK'
  <2>1. GestureTypeOK'
    BY <1>2, ClearTyped
  <2>2. CallTypeOK'
    BY <1>2 DEF CallTypeOK, callVars
  <2> QED BY <1>2, <2>1, <2>2, ObservedTyped DEF GuardTypeOK, monVars
<1>3. ASSUME ResetAfterInterrupt \/ ClearAll PROVE TypeOK'
  <2>1. ClearGestures(Sessions) /\ open' \subseteq open
        /\ guard' \in {guard, ObservedState}
        /\ UNCHANGED <<monVars, pressed, pc, callVars, blamed>>
    BY <1>3 DEF ResetAfterInterrupt, ClearAll
  <2> QED BY <1>2, <2>1
<1>4. ASSUME NEW s \in Sessions, ReleaseForApproval(s) \/ CloseSession(s)
      PROVE TypeOK'
  <2>1. ClearGestures({s}) /\ open' \subseteq open
        /\ guard' \in {guard, ObservedState}
        /\ UNCHANGED <<monVars, pressed, pc, callVars, blamed>>
    BY <1>4 DEF ReleaseForApproval, CloseSession
  <2> QED BY <1>2, <2>1
<1>5. ASSUME NEW s \in Sessions, SidecarClose(s) PROVE TypeOK'
  BY <1>5 DEF SidecarClose, GuardTypeOK, GestureTypeOK, CallTypeOK, monVars,
              gestureVars, callVars
<1>6. ASSUME HooksEnd \/ MonitorLost PROVE TypeOK'
  BY <1>6 DEF HooksEnd, MonitorLost, GuardTypeOK, GestureTypeOK, CallTypeOK, gestureVars, callVars
<1>7. ASSUME NEW c \in Inputs, Event(c) PROVE TypeOK'
  <2> DEFINE e == [input |-> c, heard |-> Heard(c)]
  <2>0. e \in Happened /\ (Heard(c) => c \in Channels)
    BY <1>7 DEF Happened, Heard, Inputs, TypeOK, GuardTypeOK
  <2>1. events' \in 0..MaxEvents
    BY <1>7, EventsAssumption DEF Event, GuardTypeOK
  <2>2. count' \in Snapshot
    BY <1>7, <2>0 DEF Event, GuardTypeOK, Snapshot
  <2>3. GestureTypeOK'
    BY <1>7, <2>0 DEF Event, GestureTypeOK
  <2>4. CallTypeOK'
    BY <1>7, <2>0 DEF Event, CallTypeOK
  <2> QED BY <1>7, <2>1, <2>2, <2>3, <2>4 DEF Event, GuardTypeOK
<1> QED BY <1>1, <1>3, <1>4, <1>5, <1>6, <1>7 DEF Others

-----------------------------------------------------------------------------
(* Baselines and conflicts.                                                *)

\* What a step that neither counts, samples nor reports leaves alone: the
\* counters, the call if it stays exposed, and the gestures it keeps.
CountKept == count' = count /\ (hooked' => hooked)
CallKept  == pc' \in Exposed => /\ pc \in Exposed
                                /\ UNCHANGED <<base, during, sess>>
GesturesKept ==
  \A s \in watched' : s \in watched /\ held'[s] = held[s] /\ since'[s] = since[s]

\* Such a step keeps the baseline of the call behind the counters,
LEMMA BaseKept ==
  ASSUME BaseBehind, CountKept, CallKept
  PROVE  BaseBehind'
BY DEF BaseBehind, CountKept, CallKept, Told

\* the baselines of the gestures too,
LEMMA HeldKept ==
  ASSUME HeldBehind, CountKept, GesturesKept
  PROVE  HeldBehind'
BY DEF HeldBehind, CountKept, GesturesKept, Told

\* and no conflict gets younger than a baseline.
LEMMA BlamedKept ==
  ASSUME BlamedBehind, CountKept, GesturesKept, blamed' = blamed,
         \A s \in watched' : pc = "cleaning" /\ sess = s
            => pc' = "cleaning" /\ sess' = s
  PROVE  BlamedBehind'
BY DEF BlamedBehind, CountKept, GesturesKept

\* Clearing gestures keeps those that are not cleared.
LEMMA ClearKeeps ==
  ASSUME GestureTypeOK, NEW S, ClearGestures(S)
  PROVE  GesturesKept
BY DEF GestureTypeOK, ClearGestures, GesturesKept

\* What the invariant says beyond types.
Behind == BaseBehind /\ HeldBehind /\ BlamedBehind
Reported == AloneAsHeard /\ FreshAfterConflict

\* A step that keeps a checked call keeps what is known of it.
LEMMA ReportedKept ==
  ASSUME Reported, CallKept, blamed' = blamed,
         pc' = "checked" => pc = "checked" /\ UNCHANGED <<during, act>>,
         hooked' => hooked
  PROVE  Reported'
BY DEF Reported, AloneAsHeard, Intruders, FreshAfterConflict, CallKept

\* What is known of the intruders of a call.
OnlyUnheard == \A e \in Intruders : ~e.heard /\ (e.input = "side" \/ ~hooked)

\* Without a verdict against it, no blocking input was heard since the baseline.
LEMMA VerdictAlone ==
  ASSUME TypeOK, BaseBehind, pc \in Exposed, Verdict = "NoConflict"
  PROVE  OnlyUnheard
<1>1. ~Moved("unknown") /\ ~Moved("other") /\ ~Moved("hardware")
      /\ (BlocksMouseMove(act) => ~Moved("otherMove") /\ ~Moved("hardwareMove"))
  BY DEF Verdict
<1> SUFFICES ASSUME NEW e \in during, e.input \in Blocking(act)
    PROVE  ~e.heard /\ (e.input = "side" \/ ~hooked)
  BY DEF OnlyUnheard, Intruders
<1>2. e.heard \in BOOLEAN
  BY DEF TypeOK, CallTypeOK, Happened
<1>3. IF e.heard THEN e.input \in Channels /\ Moved(e.input)
                 ELSE e.input = "side" \/ ~hooked
  BY DEF BaseBehind, Told, Moved
<1>4. e.input \in Channels => ~Moved(e.input)
  BY <1>1 DEF Blocking, Inputs, Channels, Moves
<1> QED BY <1>2, <1>3, <1>4

\* Steps of the execution that end it, or change nothing but its place.
LEMMA QuietExecution ==
  ASSUME TypeOK, Behind, Reported, CountKept, CallKept, GesturesKept,
         blamed' = blamed, pc' # "checked",
         pc = "cleaning" => sess \notin watched'
  PROVE  Behind' /\ Reported'
<1>1. BaseBehind' /\ HeldBehind'
  BY BaseKept, HeldKept DEF Behind
<1>2. BlamedBehind'
  BY BlamedKept DEF Behind
<1>3. Reported'
  BY ReportedKept DEF CountKept
<1> QED BY <1>1, <1>2, <1>3 DEF Behind

\* A conflict makes the counters of now the ones to be older than.
LEMMA ConflictStep ==
  ASSUME TypeOK, Behind, Reported, pc \in Exposed, NEW state, Conflict(state),
         UNCHANGED <<monVars, gestureVars>>
  PROVE  Behind' /\ Reported'
<1>1. /\ pc' = "cleaning" /\ sess' = sess /\ sess \in Sessions
      /\ count' = count /\ hooked' = hooked
      /\ watched' = watched /\ held' = held /\ since' = since
      /\ blamed' = [blamed EXCEPT ![sess] = count]
  BY DEF Conflict, Goto, callVars, monVars, gestureVars, TypeOK, CallTypeOK,
         Exposed, Admission
<1>2. BaseBehind' /\ Reported'
  BY <1>1 DEF BaseBehind, Reported, AloneAsHeard, FreshAfterConflict, Exposed, Admission
<1>3. HeldBehind'
  BY <1>1, HeldKept DEF CountKept, GesturesKept, Behind
<1>4. BlamedBehind'
  <2> SUFFICES ASSUME NEW s \in Sessions, NEW c \in Channels
      PROVE  /\ count'[c] >= blamed'[s][c]
             /\ s \in watched' /\ ~(pc' = "cleaning" /\ sess' = s)
                  => held'[s][c] >= blamed'[s][c]
    BY DEF BlamedBehind
  <2>1. CASE s = sess
    <3>1. blamed'[s] = count
      BY <1>1, <2>1 DEF TypeOK, GuardTypeOK
    <3>2. count[c] \in Nat
      BY DEF TypeOK, GuardTypeOK, Snapshot
    <3> QED BY <1>1, <2>1, <3>1, <3>2
  <2>2. CASE s # sess
    <3>1. blamed'[s] = blamed[s]
      BY <1>1, <2>2 DEF TypeOK, GuardTypeOK
    <3>2. pc = "cleaning" => pc \notin Exposed
      BY DEF Exposed, Admission
    <3> QED BY <1>1, <2>2, <3>1, <3>2 DEF Behind, BlamedBehind
  <2> QED BY <2>1, <2>2
<1> QED BY <1>2, <1>3, <1>4 DEF Behind

\* Every step of the execution keeps baselines and reports in order.
LEMMA ExecutionStep ==
  ASSUME TypeOK, Behind, Reported, Execution
  PROVE  Behind' /\ Reported'
<1>1. ASSUME NEW s \in Sessions, NEW a \in Actions, Begin(s, a)
      PROVE  Behind' /\ Reported'
  <2>1. /\ pc = "idle" /\ sess' = s /\ UNCHANGED <<hooked, count, watched, held, since>>
        /\ count \in Snapshot
        /\ base' = (IF s \in watched THEN held[s] ELSE count)
        /\ during' = (IF s \in watched THEN since[s] ELSE {})
    BY <1>1 DEF Begin, monVars, gestureVars, TypeOK, GuardTypeOK
  <2>2. BaseBehind'
    BY <2>1 DEF BaseBehind, Behind, HeldBehind, Told, Snapshot
  <2>3. HeldBehind'
    BY <2>1, HeldKept DEF CountKept, GesturesKept, Behind
  <2>4. CASE pc' = "begun" /\ blamed' = blamed
    <3>1. BlamedBehind'
      BY <2>1, <2>4, BlamedKept DEF CountKept, GesturesKept, Behind
    <3>2. Reported'
      BY <2>1, <2>4 DEF Reported, AloneAsHeard, FreshAfterConflict, Behind, BlamedBehind
    <3> QED BY <2>2, <2>3, <3>1, <3>2 DEF Behind
  <2>5. CASE pc' = "cleaning" /\ blamed' = [blamed EXCEPT ![s] = count]
    <3>1. BlamedBehind'
      <4> SUFFICES ASSUME NEW r \in Sessions, NEW c \in Channels
          PROVE  /\ count'[c] >= blamed'[r][c]
                 /\ r \in watched' /\ ~(pc' = "cleaning" /\ sess' = r)
                      => held'[r][c] >= blamed'[r][c]
        BY DEF BlamedBehind
      <4>1. CASE r = s
        <5>1. blamed'[r] = count
          BY <2>5, <4>1 DEF TypeOK, GuardTypeOK
        <5>2. count[c] \in Nat
          BY DEF TypeOK, GuardTypeOK, Snapshot
        <5> QED BY <2>1, <2>5, <4>1, <5>1, <5>2
      <4>2. CASE r # s
        <5>1. blamed'[r] = blamed[r]
          BY <2>5, <4>2 DEF TypeOK, GuardTypeOK
        <5> QED BY <2>1, <4>2, <5>1 DEF Behind, BlamedBehind
      <4> QED BY <4>1, <4>2
    <3>2. Reported'
      BY <2>5 DEF Reported, AloneAsHeard, FreshAfterConflict, Exposed, Admission
    <3> QED BY <2>2, <2>3, <3>1, <3>2 DEF Behind
  <2> QED BY <1>1, <2>4, <2>5 DEF Begin
<1>2. ASSUME UNCHANGED <<monVars, gestureVars, blamed>>, pc # "cleaning", Return
      PROVE  Behind' /\ Reported'
  <2>1. CountKept /\ CallKept /\ GesturesKept /\ pc' # "checked" /\ blamed' = blamed
    BY <1>2 DEF CountKept, CallKept, GesturesKept, monVars, gestureVars, Return,
                Exposed, Admission
  <2> QED BY <1>2, <2>1, QuietExecution
<1>3. ASSUME UNCHANGED <<monVars, blamed>>, GesturesKept, Return,
             pc = "cleaning" => sess \notin watched'
      PROVE  Behind' /\ Reported'
  <2>1. CountKept /\ CallKept /\ pc' # "checked" /\ blamed' = blamed
    BY <1>3 DEF CountKept, CallKept, monVars, Return, Exposed, Admission
  <2> QED BY <1>3, <2>1, QuietExecution
<1>4. ASSUME Refuse \/ ExecuteFails \/ FocusUnverified PROVE Behind' /\ Reported'
  <2>1. UNCHANGED <<monVars, gestureVars, blamed>> /\ pc # "cleaning" /\ Return
    BY <1>4 DEF Refuse, ExecuteFails, FocusUnverified, Admission
  <2> QED BY <1>2, <2>1
<1>5. ASSUME AskApproval PROVE Behind' /\ Reported'
  <2>1. GesturesKept
    BY <1>5, ClearKeeps DEF AskApproval, TypeOK
  <2> QED BY <1>3, <1>5, <2>1 DEF AskApproval
<1>6. ASSUME UNCHANGED <<monVars, gestureVars, blamed>>, pc \in Exposed,
             UNCHANGED <<base, during, sess>>,
             pc' \in Exposed \union {"cleaning"}
      PROVE  Behind' /\ Reported'
  <2>1. CountKept /\ CallKept /\ GesturesKept /\ pc' # "checked" /\ blamed' = blamed
    BY <1>6 DEF CountKept, CallKept, GesturesKept, monVars, gestureVars,
                Exposed, Admission
  <2>2. pc # "cleaning"
    BY <1>6 DEF Exposed, Admission
  <2> QED BY <2>1, <2>2, QuietExecution
<1>7. ASSUME Preflight PROVE Behind' /\ Reported'
  <2>1. UNCHANGED <<monVars, gestureVars, blamed>> /\ pc \in Exposed
        /\ UNCHANGED <<base, during, sess>> /\ pc' \in Exposed
    BY <1>7 DEF Preflight, Goto, callVars, Exposed, Admission
  <2> QED BY <1>6, <2>1
<1>8. ASSUME PreflightConflict PROVE Behind' /\ Reported'
  <2>1. PICK state \in InteractionStates : Conflict(state)
    BY <1>8, VerdictTyped DEF PreflightConflict, InteractionStates
  <2>2. pc \in Exposed /\ UNCHANGED <<monVars, gestureVars>>
    BY <1>8 DEF PreflightConflict, Exposed
  <2> QED BY <2>1, <2>2, ConflictStep
<1>9. ASSUME Execute PROVE Behind' /\ Reported'
  <2>1. UNCHANGED <<monVars, gestureVars, blamed>> /\ pc \in Exposed
        /\ UNCHANGED <<base, during, sess>> /\ pc' \in Exposed
    BY <1>9 DEF Execute, Exposed, Admission
  <2> QED BY <1>6, <2>1
<1>10. ASSUME FocusMissed PROVE Behind' /\ Reported'
  <2>1. UNCHANGED <<monVars, gestureVars, blamed>> /\ pc \in Exposed
        /\ UNCHANGED <<base, during, sess>> /\ pc' = "cleaning"
    BY <1>10 DEF FocusMissed, Goto, callVars, Exposed, Admission
  <2> QED BY <1>6, <2>1
<1>11. ASSUME Postflight PROVE Behind' /\ Reported'
  <2>1. pc \in Exposed /\ pc # "cleaning" /\ pc' = "checked" /\ Verdict = "NoConflict"
        /\ UNCHANGED <<sess, act, during>> /\ blamed' = blamed
    BY <1>11 DEF Postflight, Goto, callVars, Exposed, Admission
  <2>2. CountKept /\ CallKept /\ GesturesKept
    BY <1>11 DEF Postflight, Goto, callVars, CountKept, CallKept, GesturesKept,
                 monVars, gestureVars, Exposed, Admission
  <2>3. Behind'
    BY <2>1, <2>2, BaseKept, HeldKept, BlamedKept DEF Behind
  <2>4. AloneAsHeard'
    <3>1. OnlyUnheard
      BY <2>1, VerdictAlone DEF Behind
    <3>2. Intruders' = Intruders /\ (hooked' => hooked)
      BY <2>1, <2>2 DEF Intruders, CountKept
    <3> QED BY <3>1, <3>2 DEF AloneAsHeard, OnlyUnheard
  <2>5. FreshAfterConflict'
    BY <2>1 DEF FreshAfterConflict, Exposed, Admission
  <2> QED BY <2>3, <2>4, <2>5 DEF Reported
<1>12. ASSUME PostflightConflict PROVE Behind' /\ Reported'
  <2>1. pc \in Exposed /\ UNCHANGED <<monVars, gestureVars>> /\ Conflict(Verdict)
    BY <1>12 DEF PostflightConflict, Exposed
  <2> QED BY <2>1, ConflictStep
<1>13. ASSUME Commit PROVE Behind' /\ Reported'
  <2>1. CASE UNCHANGED gestureVars
    BY <1>2, <1>13, <2>1 DEF Commit
  <2>2. CASE ClearGestures({sess})
    <3>1. GesturesKept
      BY <2>2, ClearKeeps DEF TypeOK
    <3> QED BY <1>3, <1>13, <3>1 DEF Commit
  <2>3. CASE /\ watched' = watched \union {sess}
             /\ held' = [held EXCEPT ![sess] = count]
             /\ since' = [since EXCEPT ![sess] = {}]
    <3>1. sess \in Sessions /\ count \in Snapshot /\ UNCHANGED <<hooked, count, blamed>>
          /\ held'[sess] = count /\ since'[sess] = {}
          /\ \A s \in Sessions \ {sess} : held'[s] = held[s] /\ since'[s] = since[s]
      BY <1>13, <2>3 DEF Commit, monVars, TypeOK, GuardTypeOK, GestureTypeOK, CallTypeOK
    <3>2. \A c \in Channels : count[c] \in Nat
      BY <3>1 DEF Snapshot
    <3>3. pc = "checked" /\ pc' = "idle"
      BY <1>13 DEF Commit, Return
    <3>4. HeldBehind'
      BY <2>3, <3>1, <3>2 DEF Behind, HeldBehind, Told, TypeOK, GestureTypeOK
    <3>5. BlamedBehind'
      BY <2>3, <3>1, <3>2, <3>3 DEF Behind, BlamedBehind
    <3>6. BaseBehind' /\ Reported'
      BY <3>3 DEF BaseBehind, Reported, AloneAsHeard, FreshAfterConflict,
                  Exposed, Admission
    <3> QED BY <3>4, <3>5, <3>6 DEF Behind
  <2> QED BY <1>13, <2>1, <2>2, <2>3 DEF Commit
<1>14. ASSUME NotPerformed PROVE Behind' /\ Reported'
  <2>1. CountKept /\ CallKept /\ GesturesKept /\ pc' # "checked" /\ blamed' = blamed
        /\ pc # "cleaning"
    BY <1>14 DEF NotPerformed, Goto, Return, CountKept, CallKept, GesturesKept,
                 monVars, gestureVars, Exposed, Admission
  <2> QED BY <2>1, QuietExecution
<1>15. ASSUME CleanUp PROVE Behind' /\ Reported'
  <2>1. GesturesKept /\ sess \notin watched'
    BY <1>15, ClearKeeps DEF CleanUp, ClearGestures, TypeOK
  <2> QED BY <1>3, <1>15, <2>1 DEF CleanUp
<1> QED BY <1>1, <1>4, <1>5, <1>7, <1>8, <1>9, <1>10, <1>11, <1>12, <1>13, <1>14, <1>15
     DEF Execution

\* So does every step outside the execution.
LEMMA OthersStep ==
  ASSUME TypeOK, Behind, Reported, Others
  PROVE  Behind' /\ Reported'
<1>1. ASSUME CountKept, GesturesKept, UNCHANGED <<pc, callVars, blamed>>
      PROVE  Behind' /\ Reported'
  <2>1. CallKept
    BY <1>1 DEF CallKept, callVars
  <2>2. UNCHANGED <<during, act, sess>> /\ blamed' = blamed /\ pc' = pc
        /\ (hooked' => hooked)
    BY <1>1 DEF callVars, CountKept
  <2>3. Behind'
    BY <1>1, <2>1, <2>2, BaseKept, HeldKept, BlamedKept DEF Behind
  <2> QED BY <2>1, <2>2, <2>3, ReportedKept
<1>2. ASSUME UNCHANGED <<monVars, pc, callVars, blamed>>, NEW S, ClearGestures(S)
      PROVE  Behind' /\ Reported'
  <2>1. CountKept /\ GesturesKept
    BY <1>2, ClearKeeps DEF CountKept, monVars, TypeOK
  <2> QED BY <1>1, <1>2, <2>1
<1>3. ASSUME ResetAfterInterrupt \/ ClearAll PROVE Behind' /\ Reported'
  BY <1>2, <1>3 DEF ResetAfterInterrupt, ClearAll
<1>4. ASSUME NEW s \in Sessions, ReleaseForApproval(s) \/ CloseSession(s)
      PROVE  Behind' /\ Reported'
  BY <1>2, <1>4 DEF ReleaseForApproval, CloseSession
<1>5. ASSUME Observe \/ HooksEnd \/ MonitorLost PROVE Behind' /\ Reported'
  <2>1. CountKept /\ GesturesKept /\ UNCHANGED <<pc, callVars, blamed>>
    BY <1>5 DEF Observe, HooksEnd, MonitorLost, CountKept, GesturesKept, monVars, gestureVars
  <2> QED BY <1>1, <2>1
<1>6. ASSUME NEW s \in Sessions, SidecarClose(s) PROVE Behind' /\ Reported'
  <2>1. CountKept /\ GesturesKept /\ UNCHANGED <<pc, callVars, blamed>>
    BY <1>6 DEF SidecarClose, CountKept, GesturesKept, monVars, gestureVars
  <2> QED BY <1>1, <2>1
<1>7. ASSUME NEW c \in Inputs, Event(c) PROVE Behind' /\ Reported'
  <2> DEFINE e == [input |-> c, heard |-> Heard(c)]
  <2>1. /\ hooked' = hooked /\ UNCHANGED <<pc, sess, act, base, watched, held, blamed>>
        /\ count \in Snapshot
        /\ count' = (IF Heard(c) THEN [count EXCEPT ![c] = @ + 1] ELSE count)
        /\ during' = (IF pc \in Exposed THEN during \union {e} ELSE during)
        /\ \A s \in watched : since'[s] = since[s] \union {e}
    BY <1>7 DEF Event, TypeOK, GuardTypeOK, GestureTypeOK
  <2>2. e.input = c /\ e.heard = Heard(c)
    OBVIOUS
  <2>3. Heard(c) => c \in Channels
    BY DEF Heard, Inputs
  <2>4. ~Heard(c) => c = "side" \/ ~hooked
    BY DEF Heard
  <2>5. \A d \in Channels : count[d] \in Nat /\ count'[d] \in Nat
                            /\ count'[d] >= count[d]
                            /\ (Heard(c) /\ d = c => count'[d] > count[d])
    <3> HIDE DEF e
    <3> QED BY <2>1 DEF Snapshot
  <2> HIDE DEF e
  <2>6. ASSUME NEW happened, NEW sample \in Snapshot, Told(happened, sample),
               \A d \in Channels : count[d] >= sample[d]
        PROVE  /\ \A h \in happened \union {e} :
                    IF h.heard
                    THEN h.input \in Channels /\ count'[h.input] > sample[h.input]
                    ELSE h.input = "side" \/ ~hooked'
               /\ \A d \in Channels : count'[d] >= sample[d]
    <3>1. \A d \in Channels : sample[d] \in Nat
      BY <2>6 DEF Snapshot
    <3>2. \A d \in Channels : count'[d] >= sample[d]
                              /\ (count[d] > sample[d] => count'[d] > sample[d])
      BY <2>5, <2>6, <3>1
    <3>3. Heard(c) => c \in Channels /\ count'[c] > sample[c]
      BY <2>3, <2>5, <2>6, <3>1
    <3>4. IF e.heard THEN e.input \in Channels /\ count'[e.input] > sample[e.input]
                     ELSE e.input = "side" \/ ~hooked'
      BY <2>1, <2>2, <2>4, <3>3
    <3>5. \A h \in happened :
            IF h.heard THEN h.input \in Channels /\ count'[h.input] > sample[h.input]
                       ELSE h.input = "side" \/ ~hooked'
      BY <2>1, <2>6, <3>2 DEF Told
    <3> QED BY <3>2, <3>4, <3>5
  <2>7. BaseBehind'
    <3> SUFFICES ASSUME pc' \in Exposed PROVE BaseBehind'
      BY DEF BaseBehind
    <3>1. base \in Snapshot /\ Told(during, base)
          /\ (\A d \in Channels : count[d] >= base[d])
      BY <2>1 DEF TypeOK, CallTypeOK, Behind, BaseBehind
    <3>2. during' = during \union {e} /\ base' = base
      BY <2>1
    <3> QED BY <2>6, <3>1, <3>2 DEF BaseBehind, Told
  <2>8. HeldBehind'
    <3> SUFFICES ASSUME NEW s \in watched
        PROVE  Told(since[s], held[s])'
               /\ \A d \in Channels : count'[d] >= held[s][d]
      BY <2>1 DEF HeldBehind
    <3>1. held[s] \in Snapshot /\ Told(since[s], held[s])
          /\ (\A d \in Channels : count[d] >= held[s][d])
      BY DEF TypeOK, GestureTypeOK, Behind, HeldBehind
    <3>2. since'[s] = since[s] \union {e} /\ held' = held
      BY <2>1
    <3> QED BY <2>6, <3>1, <3>2 DEF Told
  <2>9. BlamedBehind'
    <3>1. \A d \in Channels, s \in Sessions : blamed[s][d] \in Nat
      BY DEF TypeOK, GuardTypeOK, Snapshot
    <3> QED BY <2>1, <2>5, <3>1 DEF Behind, BlamedBehind
  <2>10. Reported'
    <3>1. pc = "checked" => Intruders' = Intruders
      BY <2>1 DEF Intruders, Exposed, Admission
    <3>2. AloneAsHeard'
      BY <2>1, <3>1 DEF Reported, AloneAsHeard
    <3> QED BY <2>1, <3>2 DEF Reported, FreshAfterConflict
  <2> QED BY <2>7, <2>8, <2>9, <2>10 DEF Behind
<1> QED BY <1>3, <1>4, <1>5, <1>6, <1>7 DEF Others

-----------------------------------------------------------------------------
(* The theorems.                                                           *)

\* The initial state satisfies the invariant.
LEMMA InitInv == Init => IInv
<1> SUFFICES ASSUME Init PROVE IInv
  OBVIOUS
<1>1. TypeOK
  <2>1. events \in 0..MaxEvents
    BY EventsAssumption DEF Init
  <2>2. GuardTypeOK
    BY <2>1, ZeroTyped, ObservedTyped DEF Init, GuardTypeOK
  <2>3. GestureTypeOK
    BY ZeroTyped DEF Init, GestureTypeOK
  <2>4. CallTypeOK
    BY ZeroTyped DEF Init, CallTypeOK, PC, Actions
  <2> QED BY <2>2, <2>3, <2>4 DEF TypeOK
<1>2. BaseBehind /\ HeldBehind /\ BlamedBehind /\ AloneAsHeard /\ FreshAfterConflict
  BY DEF Init, BaseBehind, HeldBehind, BlamedBehind, AloneAsHeard,
         FreshAfterConflict, Exposed, Admission, Zero
<1> QED BY <1>1, <1>2 DEF IInv

\* Every step keeps it.
LEMMA NextInv == IInv /\ [Next]_vars => IInv'
<1> SUFFICES ASSUME IInv, [Next]_vars PROVE IInv'
  OBVIOUS
<1>1. TypeOK /\ Behind /\ Reported
  BY DEF IInv, Behind, Reported
<1>2. CASE Execution
  BY <1>1, <1>2, ExecutionTyped, ExecutionStep DEF IInv, Behind, Reported
<1>3. CASE Others
  BY <1>1, <1>3, OthersTyped, OthersStep DEF IInv, Behind, Reported
<1>4. CASE UNCHANGED vars
  <2>1. CountKept /\ CallKept /\ GesturesKept /\ blamed' = blamed /\ pc' = pc
        /\ UNCHANGED <<during, act, sess, hooked>>
    BY <1>4 DEF vars, monVars, gestureVars, callVars, CountKept, CallKept, GesturesKept
  <2>2. TypeOK'
    BY <1>1, <1>4 DEF vars, monVars, gestureVars, callVars, TypeOK, GuardTypeOK,
                      GestureTypeOK, CallTypeOK
  <2>3. Behind' /\ Reported'
    BY <1>1, <2>1, BaseKept, HeldKept, BlamedKept, ReportedKept DEF Behind
  <2> QED BY <2>2, <2>3 DEF IInv, Behind, Reported
<1> QED BY <1>2, <1>3, <1>4 DEF Next

\* The inductive invariant holds of every execution of the guard.
THEOREM GuardInvariance == Spec => []IInv
<1>1. Init => IInv
  BY InitInv
<1>2. IInv /\ [Next]_vars => IInv'
  BY NextInv
<1> QED BY <1>1, <1>2, PTL DEF Spec

\* An action that passes the postflight check shared the desktop with no input
\* that was heard and that it may not share it with, whatever ran beside it; and
\* nothing else went unheard than unknown buttons and what came after the hooks
\* had ended.
THEOREM OnlyUnheardShared == Spec => []AloneAsHeard
<1>1. IInv => AloneAsHeard
  BY DEF IInv
<1> QED BY <1>1, GuardInvariance, PTL

\* No action is compared with counters older than the last conflict reported
\* to its session.
THEOREM ConflictOnce == Spec => []FreshAfterConflict
<1>1. IInv => FreshAfterConflict
  BY DEF IInv
<1> QED BY <1>1, GuardInvariance, PTL
=============================================================================
