-------------------------- MODULE InteractionGuard --------------------------
(***************************************************************************)
(* ComputerInteractionGuard (alice-computer-use-broker/src/lib.rs), the    *)
(* input monitor it samples (input_activity.rs) and the calls the broker   *)
(* makes to it while it executes an action.                                *)
(*                                                                         *)
(* The action gate lets one execution run at a time (Broker), so there is  *)
(* one call here; input events, the end of the hooks and of the monitor,   *)
(* observations, Stop Turn, approvals and closes happen between any two of *)
(* its steps.                                                              *)
(*                                                                         *)
(* Abstracted: the key, button and wheel counters of a source are always   *)
(* tested together and are one channel; windows are a choice between the   *)
(* outcomes of the foreground checks.                                      *)
(***************************************************************************)
EXTENDS Naturals

CONSTANTS
  Sessions,      \* logical sessions the broker has opened
  Nil,           \* no session
  MaxEvents      \* bound: input events of the user and of other programs

ASSUME NilAssumption == Nil \notin Sessions
ASSUME EventsAssumption == MaxEvents \in Nat

VARIABLES
  \* --- InputActivityMonitor
  hooked,        \* the hooks, or the event tap, deliver events
  mon,           \* available
  count,         \* the sequence of each channel
  events,        \* events so far, counted or not
  \* --- ComputerInteractionGuard
  guard,         \* InteractionState
  watched, held, \* held_gesture_baselines: its keys and its snapshots
  \* --- sessions
  open,          \* sessions the broker table holds
  pressed,       \* what each session has pressed and not released
  \* --- the execution under way
  pc, sess, act,
  base,          \* ComputerInteractionLease.baseline
  performed,     \* the outcome the sidecar reported
  \* --- history
  during,        \* events since base was sampled
  since,         \* events since held was sampled
  blamed         \* counters when a conflict was last reported

monVars  == <<hooked, mon, count, events>>
gestureVars == <<watched, held, since>>
callVars == <<sess, act, base, performed, during>>
vars == <<monVars, guard, gestureVars, open, pressed, pc, callVars, blamed>>

\* InputSource x InputEventKind, as far as check_activity tells them apart.
Moves    == {"hardwareMove", "otherMove"}
Channels == Moves \union {"hardware", "other", "unknown"}

\* What reaches the desktop: besides, the buttons nobody listens for, X1 and X2
\* in record_hook_event and all but left and right in the macOS EVENT_MASK.
Inputs   == Channels \union {"side"}
Happened == [input: Inputs, heard: BOOLEAN]

Snapshot == [Channels -> Nat]
Zero     == [c \in Channels |-> 0]

InteractionStates == {"NoConflict", "UserTakeover", "ExternalInputConflict",
                      "ActivityUnknown", "ContextChanged"}

\* InteractionActionClass: Plain stands for text, keys, clicks and semantic
\* actions, Gesture for spatial text, drags, moves and scrolls.
Actions == {"Plain", "Gesture", "FocusWindow", "HeldPointerDown",
            "HeldPointerUp", "HeldKeyDown", "HeldKeyUp"}
BlocksMouseMove(a) == a \in {"Gesture", "HeldPointerDown", "HeldPointerUp"}
BeginsHeld(a) == a \in {"HeldPointerDown", "HeldKeyDown"}
EndsHeld(a)   == a \in {"HeldPointerUp", "HeldKeyUp"}

\* The input an action may not share the desktop with.
Blocking(a) == IF BlocksMouseMove(a) THEN Inputs ELSE Inputs \ Moves

\* Program points between begin_lease and the postflight check.
Admission == {"begun", "reserved"}
Exposed   == Admission \union {"dispatched", "answered"}
PC        == Exposed \union {"idle", "checked", "cleaning"}

-----------------------------------------------------------------------------
(* The input monitor.                                                      *)

\* A message the hook procedure or the tap is given and knows.
Heard(c) == hooked /\ c # "side"

\* Mutant: an event without a known source is only counted in the total.
EventUnattributed(c) ==
  /\ events < MaxEvents
  /\ events' = events + 1
  /\ count' = IF Heard(c) /\ c # "unknown" THEN [count EXCEPT ![c] = @ + 1] ELSE count
  /\ LET e == [input |-> c, heard |-> Heard(c)] IN
       /\ during' = IF pc \in Exposed THEN during \union {e} ELSE during
       /\ since' = [s \in Sessions |->
                      IF s \in watched THEN since[s] \union {e} ELSE since[s]]
  /\ UNCHANGED <<hooked, mon, guard, watched, held, open, pressed, pc, sess, act,
                 base, performed, blamed>>

\* The user or another program acts, and the event is counted if it is heard.
Event(c) ==
  /\ events < MaxEvents
  /\ events' = events + 1
  /\ count' = IF Heard(c) THEN [count EXCEPT ![c] = @ + 1] ELSE count
  /\ LET e == [input |-> c, heard |-> Heard(c)] IN
       /\ during' = IF pc \in Exposed THEN during \union {e} ELSE during
       /\ since' = [s \in Sessions |->
                      IF s \in watched THEN since[s] \union {e} ELSE since[s]]
  /\ UNCHANGED <<hooked, mon, guard, watched, held, open, pressed, pc, sess, act,
                 base, performed, blamed>>

\* The message loop of the hook thread ends and the hooks are taken off, or
\* the run loop of the event tap ends ...
HooksEnd ==
  /\ hooked /\ hooked' = FALSE
  /\ UNCHANGED <<mon, count, events, guard, gestureVars, open, pressed, pc,
                 callVars, blamed>>

\* ... and only then does the thread store that the monitor is unavailable.
MonitorLost ==
  /\ ~hooked /\ mon /\ mon' = FALSE
  /\ UNCHANGED <<hooked, count, events, guard, gestureVars, open, pressed, pc,
                 callVars, blamed>>

-----------------------------------------------------------------------------
(* ComputerInteractionGuard.                                               *)

ObservedState == IF mon THEN "NoConflict" ELSE "ActivityUnknown"

\* Mutant: the baselines of interrupted gestures survive.
KeepGestures(S) == UNCHANGED gestureVars

\* clear_gesture, clear_all_gestures.
ClearGestures(S) ==
  /\ watched' = watched \ S
  /\ held' = [s \in Sessions |-> IF s \in S THEN Zero ELSE held[s]]
  /\ since' = [s \in Sessions |-> IF s \in S THEN {} ELSE since[s]]

Moved(c) == count[c] > base[c]

\* Mutant: pointer gestures tolerate mouse moves too.
VerdictIgnoringMoves ==
  IF ~mon \/ Moved("unknown") THEN "ActivityUnknown"
  ELSE IF Moved("other") THEN "ExternalInputConflict"
  ELSE IF Moved("hardware") THEN "UserTakeover"
  ELSE "NoConflict"

\* check_activity: the first test that fails names the conflict.
Verdict ==
  IF ~mon \/ Moved("unknown") THEN "ActivityUnknown"
  ELSE IF Moved("other") \/ (Moved("otherMove") /\ BlocksMouseMove(act))
    THEN "ExternalInputConflict"
  ELSE IF Moved("hardware") \/ (Moved("hardwareMove") /\ BlocksMouseMove(act))
    THEN "UserTakeover"
  ELSE "NoConflict"

Goto(there) == pc' = there /\ UNCHANGED callVars

\* The execution returns.
Return ==
  /\ pc' = "idle" /\ sess' = Nil /\ act' = "Plain"
  /\ base' = Zero /\ performed' = FALSE /\ during' = {}

\* A conflict: remembered, and the pressed input is to be cleaned up.
Conflict(state) ==
  /\ guard' = state
  /\ Goto("cleaning")
  /\ blamed' = [blamed EXCEPT ![sess] = count]

-----------------------------------------------------------------------------
(* One execution.                                                          *)

\* begin_lease: the baseline is that of the gesture in progress, or now.
Begin(s, a) ==
  /\ pc = "idle" /\ s \in open
  /\ sess' = s /\ act' = a
  /\ performed' = FALSE
  /\ base' = IF s \in watched THEN held[s] ELSE count
  /\ during' = IF s \in watched THEN since[s] ELSE {}
  /\ \/ mon /\ pc' = "begun" /\ UNCHANGED <<guard, blamed>>
     \/ ~mon /\ pc' = "cleaning" /\ guard' = "ActivityUnknown"
        /\ blamed' = [blamed EXCEPT ![s] = count]
  /\ UNCHANGED <<monVars, gestureVars, open, pressed>>

\* Errors outside the guard: windows, capability, policy, duplicate request,
\* lost lease or session, changed batch target.  Nothing is cleaned up.
Refuse ==
  /\ pc \in Admission
  /\ Return
  /\ UNCHANGED <<monVars, guard, gestureVars, open, pressed, blamed>>

\* ApprovalRequired: release_for_approval, although input may be pressed.
AskApproval ==
  /\ pc = "begun"
  /\ ClearGestures({sess})
  /\ guard' = ObservedState
  /\ Return
  /\ UNCHANGED <<monVars, open, pressed, blamed>>

\* preflight, run before the reservation and again after it.
Preflight ==
  /\ \/ pc = "begun" /\ Verdict = "NoConflict" /\ Goto("reserved")
     \/ pc = "reserved" /\ Verdict = "NoConflict" /\ Goto("dispatched")
  /\ guard' = "NoConflict"
  /\ UNCHANGED <<monVars, gestureVars, open, pressed, blamed>>

\* No foreground window, another foreground, or activity.
PreflightConflict ==
  /\ pc \in Admission
  /\ \/ Conflict("ActivityUnknown")
     \/ act # "FocusWindow" /\ Conflict("ContextChanged")
     \/ Verdict # "NoConflict" /\ Conflict(Verdict)
  /\ UNCHANGED <<monVars, gestureVars, open, pressed>>

Input(a) == IF a \in {"HeldPointerDown", "HeldPointerUp"} THEN "button" ELSE "key"
Touched ==
  CASE BeginsHeld(act) -> [pressed EXCEPT ![sess] = @ \union {Input(act)}]
    [] EndsHeld(act)   -> [pressed EXCEPT ![sess] = @ \ {Input(act)}]
    [] OTHER           -> pressed

\* execute_policy is answered: performed, or not performed after all.
Execute ==
  /\ pc = "dispatched"
  /\ \/ performed' = TRUE /\ pressed' = Touched
     \/ performed' = FALSE /\ pressed' \in {pressed, Touched}
  /\ pc' = "answered"
  /\ UNCHANGED <<monVars, guard, gestureVars, open, sess, act, base, during,
                 blamed>>

\* The RPC fails, its effect unknown: no cleanup for a transport error.
ExecuteFails ==
  /\ pc = "dispatched"
  /\ pressed' \in {pressed, Touched}
  /\ Return
  /\ UNCHANGED <<monVars, guard, gestureVars, open, blamed>>

\* After FocusWindow the foreground is read again: an unreadable one returns
\* at once, a wrong one is a conflict that leaves the state as it is.
FocusUnverified ==
  /\ pc = "answered" /\ act = "FocusWindow"
  /\ Return
  /\ UNCHANGED <<monVars, guard, gestureVars, open, pressed, blamed>>
FocusMissed ==
  /\ pc = "answered" /\ act = "FocusWindow"
  /\ Goto("cleaning")
  /\ UNCHANGED <<monVars, guard, gestureVars, open, pressed, blamed>>

\* postflight, with nothing against the action ...
Postflight ==
  /\ pc = "answered" /\ Verdict = "NoConflict"
  /\ Goto("checked")
  /\ UNCHANGED <<monVars, guard, gestureVars, open, pressed, blamed>>
\* ... or with a conflict, reported as OutcomeUnknown.
PostflightConflict ==
  /\ pc = "answered" /\ Verdict # "NoConflict"
  /\ Conflict(Verdict)
  /\ UNCHANGED <<monVars, gestureVars, open, pressed>>

\* commit_gesture samples the counters anew, after the postflight check.
Commit ==
  /\ pc = "checked" /\ performed
  /\ \/ /\ BeginsHeld(act)
        /\ watched' = watched \union {sess}
        /\ held' = [held EXCEPT ![sess] = count]
        /\ since' = [since EXCEPT ![sess] = {}]
     \/ EndsHeld(act) /\ ClearGestures({sess})
     \/ ~BeginsHeld(act) /\ ~EndsHeld(act) /\ UNCHANGED gestureVars
  /\ Return
  /\ UNCHANGED <<monVars, guard, open, pressed, blamed>>

\* A held action that was not performed is cleaned up, any other returns.
NotPerformed ==
  /\ pc = "checked" /\ ~performed
  /\ IF BeginsHeld(act) \/ EndsHeld(act) THEN Goto("cleaning") ELSE Return
  /\ UNCHANGED <<monVars, guard, gestureVars, open, pressed, blamed>>

\* cleanup_pressed, whose failure is ignored, then clear_gesture.
CleanUp ==
  /\ pc = "cleaning"
  /\ pressed' \in {pressed, [pressed EXCEPT ![sess] = {}]}
  /\ ClearGestures({sess})
  /\ Return
  /\ UNCHANGED <<monVars, guard, open, blamed>>

-----------------------------------------------------------------------------
(* Other callers, outside the action gate.                                 *)

\* observe, after the observation has been read.
Observe ==
  /\ guard' = ObservedState
  /\ UNCHANGED <<monVars, gestureVars, open, pressed, pc, callVars, blamed>>

\* reset_after_interrupt: pressed input is left to the sidecar.
ResetAfterInterrupt ==
  /\ ClearGestures(Sessions)
  /\ guard' = ObservedState
  /\ UNCHANGED <<monVars, open, pressed, pc, callVars, blamed>>

\* resume_after_approval starts from a fresh baseline.
ReleaseForApproval(s) ==
  /\ s \in open
  /\ ClearGestures({s})
  /\ guard' = ObservedState
  /\ UNCHANGED <<monVars, open, pressed, pc, callVars, blamed>>

\* close_session forgets the gesture; the sidecar releases what is pressed.
CloseSession(s) ==
  /\ s \in open
  /\ open' = open \ {s}
  /\ ClearGestures({s})
  /\ UNCHANGED <<monVars, guard, pressed, pc, callVars, blamed>>
SidecarClose(s) ==
  /\ s \notin open
  /\ pressed' = [pressed EXCEPT ![s] = {}]
  /\ UNCHANGED <<monVars, guard, gestureVars, open, pc, callVars, blamed>>

\* restart_after_crash and shutdown.
ClearAll ==
  /\ open' = {}
  /\ ClearGestures(Sessions)
  /\ UNCHANGED <<monVars, guard, pressed, pc, callVars, blamed>>

-----------------------------------------------------------------------------
Init ==
  /\ mon \in BOOLEAN /\ hooked = mon /\ count = Zero /\ events = 0
  /\ guard = ObservedState
  /\ watched = {} /\ held = [s \in Sessions |-> Zero]
  /\ open = Sessions /\ pressed = [s \in Sessions |-> {}]
  /\ pc = "idle" /\ sess = Nil /\ act = "Plain" /\ base = Zero
  /\ performed = FALSE
  /\ during = {} /\ since = [s \in Sessions |-> {}]
  /\ blamed = [s \in Sessions |-> Zero]

Execution ==
  \/ \E s \in Sessions, a \in Actions : Begin(s, a)
  \/ Refuse \/ AskApproval \/ Preflight \/ PreflightConflict
  \/ Execute \/ ExecuteFails \/ FocusUnverified \/ FocusMissed
  \/ Postflight \/ PostflightConflict \/ Commit \/ NotPerformed \/ CleanUp

Others ==
  \/ Observe \/ ResetAfterInterrupt \/ ClearAll
  \/ \E s \in Sessions :
       ReleaseForApproval(s) \/ CloseSession(s) \/ SidecarClose(s)
  \/ HooksEnd \/ MonitorLost \/ \E c \in Inputs : Event(c)

Next == Execution \/ Others

Spec == Init /\ [][Next]_vars

-----------------------------------------------------------------------------
(* Properties.                                                             *)

GuardTypeOK ==
  /\ hooked \in BOOLEAN /\ mon \in BOOLEAN
  /\ count \in Snapshot /\ events \in 0..MaxEvents
  /\ guard \in InteractionStates
  /\ open \subseteq Sessions
  /\ pressed \in [Sessions -> SUBSET {"key", "button"}]
  /\ blamed \in [Sessions -> Snapshot]
GestureTypeOK ==
  /\ watched \subseteq Sessions /\ held \in [Sessions -> Snapshot]
  /\ since \in [Sessions -> SUBSET Happened]
CallTypeOK ==
  /\ pc \in PC /\ sess \in Sessions \union {Nil} /\ act \in Actions
  /\ base \in Snapshot /\ performed \in BOOLEAN /\ during \subseteq Happened
  /\ pc # "idle" => sess \in Sessions

\* Every variable has its type: the monitor and the guard, the baselines of
\* held gestures, and the execution under way.
TypeOK == GuardTypeOK /\ GestureTypeOK /\ CallTypeOK

\* What an action may not share the desktop with and shared it with: input
\* since its begin_lease, or for a gesture in progress since the commit of the
\* press.
Intruders == {e \in during : e.input \in Blocking(act)}

\* An action that passes the postflight check shared the desktop with nothing
\* the hooks heard, whatever observation, Stop Turn, approval, close or loss of
\* the monitor happened meanwhile.  What they did not hear was a button nobody
\* listens for, or came after the hooks had ended and before the monitor said so.
AloneAsHeard ==
  pc = "checked" =>
    \A e \in Intruders : ~e.heard /\ (e.input = "side" \/ ~hooked)

\* README.md, "If the activity monitor is unavailable, Brokered side-effect
\* actions fail closed": no input the monitor is there to hear goes unheard
\* during an action that passes the postflight check.
FailsClosed ==
  pc = "checked" => \A e \in Intruders : e.input \in Channels => e.heard

\* A conflict is reported once: after it, no action of the session is
\* compared with counters older than the conflict, so the same user input
\* never refuses it again.
FreshAfterConflict ==
  pc \in Exposed => \A c \in Channels : base[c] >= blamed[sess][c]

-----------------------------------------------------------------------------
(* The inductive invariant behind them.                                    *)

\* A heard event moved its counter past the sample taken before it.
Told(happened, sample) ==
  \A e \in happened :
    IF e.heard THEN e.input \in Channels /\ count[e.input] > sample[e.input]
               ELSE e.input = "side" \/ ~hooked

\* The counters never run behind a baseline, and are ahead of it on every
\* channel with a heard event since.
BaseBehind ==
  pc \in Exposed =>
    (\A c \in Channels : count[c] >= base[c]) /\ Told(during, base)
HeldBehind ==
  \A s \in watched :
    (\A c \in Channels : count[c] >= held[s][c]) /\ Told(since[s], held[s])

\* Gesture baselines are younger than the last conflict of their session,
\* once its cleanup is through.
BlamedBehind ==
  \A s \in Sessions, c \in Channels :
    /\ count[c] >= blamed[s][c]
    /\ s \in watched /\ ~(pc = "cleaning" /\ sess = s)
         => held[s][c] >= blamed[s][c]

IInv ==
  /\ TypeOK /\ BaseBehind /\ HeldBehind /\ BlamedBehind
  /\ AloneAsHeard /\ FreshAfterConflict
=============================================================================
