---------------------------- MODULE InputDispatch ----------------------------
(***************************************************************************)
(* Pixel input of the two backends (execute and the send_* functions of    *)
(* win_native.rs and mac_native.rs): what is pressed, where, and what a    *)
(* session remembers of it, while calls to the operating system fail part  *)
(* of the way.  Events go to the desktop, or, for the keys of a background *)
(* or application action on macOS, to one application; what a session      *)
(* remembers does not say where.                                           *)
(*                                                                         *)
(* An action is a plan: batches of events, each with the releases its code *)
(* sends when the batch fails.  The steps of open stop the action when     *)
(* they fail, a failure in body goes on with close, and close runs to its  *)
(* end.  A backend performs one action at a time.  Positions, texts and    *)
(* the target window are left out; the checks on them are batches that may *)
(* fail without sending anything.                                          *)
(***************************************************************************)
EXTENDS Naturals, Sequences

CONSTANTS
  Os,               \* platforms: a subset of {"windows", "macos"}
  InputSessions,    \* sessions
  Applications,     \* processes that keys are posted to
  MaxFaults         \* bound: failing calls

ASSUME OsAssumption == Os \subseteq {"windows", "macos"} /\ Os # {}
ASSUME FaultsAssumption == MaxFaults \in Nat
ASSUME PlacesAssumption == "desktop" \notin Applications

Places == {"desktop"} \union Applications

VARIABLES
  os,               \* the platform
  down,             \* at each place, inputs that are down because of us
  tracked,          \* pressed: keys and buttons a session holds
  doing,            \* the action under way, or Nothing
  faults,           \* history: calls that failed
  lost              \* history: inputs that are down although their release was
                    \* tried: the call for it failed, or it went elsewhere

inputVars == <<os, down, tracked, doing, faults, lost>>

Inputs == {"shift", "key", "left"}

-----------------------------------------------------------------------------
(* Plans.                                                                  *)

Press(x) == [press |-> TRUE, of |-> x]
Lift(x)  == [press |-> FALSE, of |-> x]

\* events, the inputs released when they fail, and what the session remembers:
\* add and drop when the batch was taken, forget in any case, hold with the
\* release of everything the session holds when it was not.
Batch(events, undo) == [events |-> events, undo |-> undo, note |-> "none", of |-> "none"]
Check == Batch(<<>>, <<>>)
Noted(b, note, x) == [b EXCEPT !.note = note, !.of = x]

Plan(open, body, close) == [open |-> open, body |-> body, close |-> close]
Body(b) == Plan(<<>>, b, <<>>)

\* move_pointer_verified: the movement, and the look at where it ended.
MoveTo == <<Check>>

Tap(x) == <<Press(x), Lift(x)>>

\* send_mouse_button, with all its clicks in one batch.
send_mouse_button(x, clicks) ==
  MoveTo \o <<Batch(IF clicks = 1 THEN Tap(x) ELSE Tap(x) \o Tap(x), <<>>)>>

\* send_scroll and send_scroll_delta: the wheel holds nothing down.
send_scroll == MoveTo \o <<Check>>

\* send_mouse_transition and send_key_transition with what execute remembers:
\* a press that failed is lifted, a lift is not repeated.
press_transition(x) == Noted(Batch(<<Press(x)>>, <<x>>), "add", x)
lift_transition(x)  == Noted(Batch(<<Lift(x)>>, <<>>), "drop", x)

\* send_text and send_key
send_text(x) == <<Batch(Tap(x), <<>>)>>

\* TypeText with a coordinate: a click, a look at the foreground, the text.
type_text_at(x) == send_mouse_button("left", 1) \o <<Check>> \o send_text(x)

\* send_hotkey
send_hotkey(x) == <<Batch(<<Press("shift"), Press(x), Lift(x), Lift("shift")>>, <<"shift">>)>>

\* send_modifier_click
send_modifier_click(x) ==
  MoveTo \o <<Batch(<<Press("shift"), Press(x), Lift(x), Lift("shift")>>, <<x, "shift">>)>>

\* send_drag: a press that failed is not undone, a failed move or lift is.
send_drag(x) ==
  MoveTo \o <<Batch(<<Press(x)>>, <<>>), Batch(<<>>, <<x>>), Batch(<<Lift(x)>>, <<x>>)>>

\* send_drag_path: the press is undone as well.
send_drag_path(x) ==
  MoveTo \o <<Batch(<<Press(x)>>, <<x>>), Batch(<<>>, <<x>>), Batch(<<Lift(x)>>, <<x>>)>>

\* HoldKey: a lift that fails releases all the session holds.
hold_key(x) ==
  Plan(<<>>, <<press_transition(x), Noted(Batch(<<Lift(x)>>, <<>>), "hold", x)>>, <<>>)

\* send_modified_pointer around send_pointer_action
send_modified_pointer(body) ==
  Plan(<<Batch(<<Press("shift")>>, <<"shift">>)>>, body,
       <<Batch(<<Lift("shift")>>, <<>>)>>)

\* The button goes to a place, a key to what has the focus.
At(x) == IF x = "left" THEN MoveTo ELSE <<>>

\* execute of the Windows backend.
WindowsPlan(kind, x) ==
  CASE kind = "scroll" -> Body(send_scroll)
    [] kind = "click"  -> Body(send_mouse_button(x, 1))
    [] kind = "double" -> Body(send_mouse_button(x, 2))
    [] kind = "tap"    -> Body(send_text(x))
    [] kind = "text"   -> Body(type_text_at(x))
    [] kind = "hotkey" -> Body(send_hotkey(x))
    [] kind = "drag"   -> Body(send_drag(x))
    [] kind = "press"  -> Body(At(x) \o <<press_transition(x)>>)
    [] kind = "lift"   -> Body(At(x) \o <<lift_transition(x)>>)
    [] kind = "modifier_click" -> Body(send_modifier_click(x))
    [] kind = "modified"       -> send_modified_pointer(send_mouse_button(x, 1))
    [] kind = "modified_drag"  -> send_modified_pointer(send_drag_path(x))
    [] OTHER                   -> hold_key(x)

\* macOS posts every event with a call of its own.
Single(e) == Batch(<<e>>, <<>>)
Singles(x) == <<Single(Press(x)), Single(Lift(x))>>

\* send_click
send_click(x, clicks) == MoveTo \o Singles(x) \o (IF clicks = 1 THEN <<>> ELSE Singles(x))

\* send_scroll_delta of macOS
post_scroll == MoveTo \o <<Check>>

\* send_text_to_pid: a chunk or a key, each down and then up.
post_text(x) == Singles(x)

\* Drag, and the path of a modified one.
post_drag(x) == MoveTo \o <<Single(Press(x)), Check, Single(Lift(x))>>

\* send_hotkey_to_pid: a press that fails lifts those before it; every lift is
\* tried.
send_hotkey_to_pid(x) ==
  Plan(<<Single(Press("shift")), Batch(<<Press(x)>>, <<"shift">>)>>, <<>>,
       <<Single(Lift(x)), Single(Lift("shift"))>>)

\* ModifierClick and send_modified_pointer of macOS
post_modified(body) == Plan(<<Single(Press("shift"))>>, body, <<Single(Lift("shift"))>>)

\* HoldKey of macOS: the record goes whether the lift succeeds or not.
post_hold(x) ==
  Plan(<<Noted(Single(Press(x)), "add", x)>>, <<>>, <<Noted(Single(Lift(x)), "forget", x)>>)

\* execute of the macOS backend.
MacPlan(kind, x) ==
  CASE kind = "scroll" -> Body(post_scroll)
    [] kind = "click"  -> Body(send_click(x, 1))
    [] kind = "double" -> Body(send_click(x, 2))
    [] kind = "tap"    -> Body(Singles(x))
    [] kind = "text"   -> Body(send_click("left", 1) \o <<Check>> \o post_text(x))
    [] kind = "hotkey" -> send_hotkey_to_pid(x)
    [] kind = "drag"   -> Body(post_drag(x))
    [] kind = "press"  -> Body(<<Noted(Single(Press(x)), "add", x)>>)
    [] kind = "lift"   -> Body(<<Noted(Single(Lift(x)), "drop", x)>>)
    [] kind \in {"modifier_click", "modified"} -> post_modified(send_click(x, 1))
    [] kind = "modified_drag"                  -> post_modified(post_drag(x))
    [] OTHER -> post_hold(x)

\* execute_application and the keys of execute_background: the events go to a
\* process.  TypeText with a coordinate sets the focus there, without a click.
ApplicationPlan(kind, x) ==
  IF kind = "text" THEN Body(<<Check>> \o post_text(x)) ELSE MacPlan(kind, x)

PlanOf(kind, x, to) ==
  IF os = "windows" THEN WindowsPlan(kind, x)
  ELSE IF to = "desktop" THEN MacPlan(kind, x) ELSE ApplicationPlan(kind, x)

\* The actions of ComputerAction, each with what it presses.
PointerKinds == {"scroll", "click", "double", "modifier_click", "drag", "modified", "modified_drag"}
KeyKinds     == {"tap", "text", "hotkey", "hold"}
InputActions ==
  {<<k, "left">> : k \in PointerKinds} \union {<<k, "key">> : k \in KeyKinds}
  \union {<<k, x>> : k \in {"press", "lift"}, x \in Inputs}

\* Where the events of an action may go: buttons are for the desktop.
PlacesOf(x) == IF os = "windows" \/ x = "left" THEN {"desktop"} ELSE Places

-----------------------------------------------------------------------------
(* Performing a plan.                                                      *)

Nothing == [by |-> "nobody", to |-> "desktop", open |-> <<>>, body |-> <<>>, close |-> <<>>]

\* The stage the action is in, its next batch, and what is left after it.
Stage == IF doing.open # <<>> THEN "open" ELSE IF doing.body # <<>> THEN "body" ELSE "close"
NextBatch == Head(doing[Stage])

Finished(d) == IF d.open = <<>> /\ d.body = <<>> /\ d.close = <<>> THEN Nothing ELSE d
Advanced == Finished([doing EXCEPT ![Stage] = Tail(@)])

\* The first error is kept for the answer; what still has to be released is.
Stopped ==
  CASE Stage = "open" -> Nothing
    [] Stage = "body" -> Finished([doing EXCEPT !.body = <<>>])
    [] OTHER          -> Advanced

\* The inputs the events press or lift, those a press is the last event of, and
\* what is down after the events.
PressedBy(events) == {events[i].of : i \in {j \in 1..Len(events) : events[j].press}}
LiftedBy(events)  == {events[i].of : i \in {j \in 1..Len(events) : ~events[j].press}}
LeftDown(events)  ==
  {x \in PressedBy(events) :
     \E i \in 1..Len(events) : events[i] = Press(x) /\ \A j \in i + 1..Len(events) : events[j] # Lift(x)}
After(set, events) == (set \ LiftedBy(events)) \union LeftDown(events)

StartInput(s) ==
  /\ doing = Nothing
  /\ \E a \in InputActions : \E to \in PlacesOf(a[2]) :
       LET p == PlanOf(a[1], a[2], to)
       IN doing' = [by |-> s, to |-> to, open |-> p.open, body |-> p.body, close |-> p.close]
  /\ UNCHANGED <<os, down, tracked, faults, lost>>

\* What a session gave up while its releases went to one place is lost at every
\* other place where it is still down.
GivenUp(s) == tracked[s] \ tracked'[s]
LostAfter(s, to, here) ==
  [p \in Places |-> (IF p = to THEN here ELSE lost[p] \union GivenUp(s)) \intersect down'[p]]

\* One call to the operating system that takes all its events.
Performed ==
  /\ doing # Nothing /\ doing' = Advanced
  /\ down' = [down EXCEPT ![doing.to] = After(@, NextBatch.events)]
  /\ tracked' = [tracked EXCEPT ![doing.by] =
       CASE NextBatch.note = "add"                        -> @ \union {NextBatch.of}
         [] NextBatch.note \in {"drop", "hold", "forget"} -> @ \ {NextBatch.of}
         [] OTHER                                         -> @]
  /\ lost' = LostAfter(doing.by, doing.to, lost[doing.to] \ LiftedBy(NextBatch.events))
  /\ UNCHANGED <<os, faults>>

\* Mutant: a short batch is not looked at again.
LeavePrefix(events) == {}

\* release_partial_input: Windows takes a prefix of the events, and what that
\* pressed is lifted.
release_partial_input(events) == IF os = "windows" THEN PressedBy(events) ELSE {}

\* A call that fails after the first k of its events, with what its code then
\* releases; those releases may fail as well.
Fails ==
  /\ doing # Nothing /\ faults < MaxFaults /\ doing' = Stopped
  /\ LET b     == NextBatch
         holds == b.note = "hold"                  \* release_pressed
     IN \E k \in 0..Len(b.events) - 1 \union {0}, again \in BOOLEAN :
          LET sent  == SubSeq(b.events, 1, k)
              undo  == release_partial_input(sent) \union {b.undo[i] : i \in 1..Len(b.undo)}
                       \union (IF holds THEN tracked[doing.by] ELSE {})
          IN /\ again => faults + 2 <= MaxFaults
             /\ faults' = IF again THEN faults + 2 ELSE faults + 1
             /\ down' = [down EXCEPT ![doing.to] =
                  IF again THEN After(@, sent) ELSE After(@, sent) \ undo]
             /\ tracked' = [tracked EXCEPT ![doing.by] =
                  IF holds THEN {} ELSE IF b.note = "forget" THEN @ \ {b.of} ELSE @]
             /\ lost' = LostAfter(doing.by, doing.to,
                  lost[doing.to] \union (LiftedBy(b.events) \ PressedBy(sent)) \union undo)
  /\ UNCHANGED os

\* cleanup_pressed, close_session and shutdown: release_pressed, which forgets
\* the inputs before it lifts them, on the desktop wherever they were pressed.
release_pressed(s) ==
  /\ doing = Nothing /\ tracked[s] # {}
  /\ tracked' = [tracked EXCEPT ![s] = {}]
  /\ \E stuck \in SUBSET tracked[s] :
       /\ stuck # {} => faults < MaxFaults
       /\ faults' = IF stuck = {} THEN faults ELSE faults + 1
       /\ down' = [down EXCEPT !["desktop"] = @ \ (tracked[s] \ stuck)]
       /\ lost' = LostAfter(s, "desktop", lost["desktop"] \union stuck)
  /\ UNCHANGED <<os, doing>>

InputInit ==
  /\ os \in Os /\ tracked = [s \in InputSessions |-> {}]
  /\ down = [p \in Places |-> {}] /\ lost = [p \in Places |-> {}]
  /\ doing = Nothing /\ faults = 0

InputNext ==
  \/ \E s \in InputSessions : StartInput(s) \/ release_pressed(s)
  \/ Performed \/ Fails

InputSpec == InputInit /\ [][InputNext]_inputVars

-----------------------------------------------------------------------------
(* Properties.                                                             *)

InputTypeOK ==
  /\ os \in Os
  /\ down \in [Places -> SUBSET Inputs] /\ lost \in [Places -> SUBSET Inputs]
  /\ \A p \in Places : lost[p] \subseteq down[p]
  /\ tracked \in [InputSessions -> SUBSET Inputs]
  /\ faults \in 0..MaxFaults
  /\ doing = Nothing \/ (doing.by \in InputSessions /\ doing.to \in Places)

\* Between two actions nothing is left down at any place that no session
\* remembers, unless its release was tried and failed or went to another place:
\* not after a batch that was taken in part, a failed move of a drag, a failed
\* action between its modifiers, or a release that failed and was repeated.  On
\* macOS this is so as long as no call fails.
DownIsTracked ==
  doing = Nothing /\ (os = "windows" \/ faults = 0) =>
    \A p \in Places : down[p] \ lost[p] \subseteq UNION {tracked[s] : s \in InputSessions}
=============================================================================
