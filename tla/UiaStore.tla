------------------------------ MODULE UiaStore ------------------------------
(***************************************************************************)
(* UiaStore (runtime/src/uia.rs) and the capability cache of the Windows   *)
(* backend: the elements of the last observation of a session, the         *)
(* generation that makes older references stale, the actions UI Automation *)
(* performs on an element, and what a probe remembers of a window.         *)
(*                                                                         *)
(* Abstracted: a tree is the sequence of its elements in visiting order,   *)
(* each the control it stands for and whether that control has the pattern *)
(* the caller's actions need.  What UI Automation answers, which window is *)
(* in front and what an application does meanwhile are free choices.       *)
(***************************************************************************)
EXTENDS Naturals, Sequences

CONSTANTS
  Controls,      \* controls of the applications
  Windows,       \* top-level windows
  NoWindow,      \* observed_window = None
  MaxTree,       \* bound: elements an observation returns (512 in the code)
  ProbeLimit,    \* elements a capability probe looks at (64 in the code)
  MaxGen,        \* bound: generations of one session
  MaxSessions    \* bound: sessions

ASSUME NoWindowAssumption == NoWindow \notin Windows
ASSUME LimitAssumption ==
  /\ MaxTree \in Nat \ {0} /\ ProbeLimit \in Nat \ {0}
  /\ MaxGen \in Nat /\ MaxSessions \in Nat \ {0}

VARIABLES
  nonce,         \* session_nonce: which session the store serves
  gen,           \* SessionState.generation; 0: the session has no state yet
  current,       \* SessionState.current and .snapshot
  window,        \* SessionState.observed_window
  cache,         \* CapabilityCache.entries of the session
  result,        \* what the last action on an element returned
  held           \* history: one reference the caller was given, or {}

storeVars == <<nonce, gen, current, window, cache, held>>

Nodes == [control : Controls, able : BOOLEAN]
Trees == UNION {[1..n -> Nodes] : n \in 1..MaxTree}

\* "uia-{nonce}-{generation}-{index}"
Ids  == [nonce : 1..MaxSessions, gen : 0..MaxGen + 1, index : 1..MaxTree]
Held == [id : Ids, control : Controls, window : Windows, spent : BOOLEAN]

Assessments == {"supported", "unsupported", "unknown"}
Entries == [gen : 0..MaxGen, status : Assessments]

Statuses == {"Performed", "VerificationFailed", "OutcomeUnknown", "FocusDenied",
             "StaleElement", "UnknownElement", "Unsupported", "ElementUnavailable",
             "Disabled", "ReadOnly", "InvalidValue", "WindowNotForeground", "Err"}

\* A result is its status, whether the pattern was called, and the generations
\* the caller is told.
Results == [status : Statuses, called : BOOLEAN, before : 0..MaxGen,
            after : SUBSET (0..MaxGen)]

NoResult == [status |-> "Unsupported", called |-> FALSE, before |-> 0, after |-> {}]

Id(g, i) == [nonce |-> nonce, gen |-> g, index |-> i]

\* state.current.get(element_id) is Some
Resolves(id) == id.nonce = nonce /\ id.gen = gen /\ id.index \in 1..Len(current)

Record(id) == current[id.index]

\* element_status_for_generation
element_status_for_generation(id) ==
  IF id.nonce = nonce /\ id.gen < gen THEN "StaleElement" ELSE "UnknownElement"

\* What became of the reference the caller holds once its element, or any
\* other one of the window, was acted upon.
Spend == held' = {[h EXCEPT !.spent = TRUE] : h \in held}

\* Mutant: the references of the last observation stay valid.
KeepGeneration(by) == UNCHANGED <<gen, current, window>>

\* Mutant: the observed window survives its elements.
KeepWindow(by) ==
  /\ gen + by <= MaxGen /\ gen' = gen + by
  /\ current' = <<>> /\ window' = window

\* invalidate
invalidate(by) ==
  /\ gen + by <= MaxGen /\ gen' = gen + by
  /\ current' = <<>> /\ window' = NoWindow

\* Mutant: the refreshed elements take the generation of the old ones.
replace_in_place(w, t) ==
  /\ gen <= MaxGen /\ gen' = gen
  /\ current' = t /\ window' = w

\* replace_snapshot, at before_generation + 1
replace_snapshot(w, t) ==
  /\ gen < MaxGen /\ gen' = gen + 1
  /\ current' = t /\ window' = w

StoreInit ==
  /\ nonce = 1 /\ gen = 0 /\ current = <<>> /\ window = NoWindow
  /\ cache = [w \in Windows |-> {}] /\ held = {} /\ result = NoResult

-----------------------------------------------------------------------------
(* Observation, probe, end of a session.                                   *)

\* The observation reached the caller, who keeps the reference to one of its
\* elements, or the one it already had.
Give(w, t) ==
  \/ held' = held
  \/ \E i \in 1..Len(t) :
       held' = {[id |-> Id(gen', i), control |-> t[i].control, window |-> w,
                 spent |-> FALSE]}

\* UiaStore::observe with observe_com successful: the new elements.
ObserveOk(w, t) == replace_snapshot(w, t)

\* The same with observe_com failing: no elements, but a new generation.
ObserveErr == invalidate(1)

observe ==
  \E w \in Windows :
    /\ \/ \E t \in Trees : ObserveOk(w, t) /\ Give(w, t)
       \/ ObserveErr /\ held' = held
    /\ result' = NoResult /\ UNCHANGED <<nonce, cache>>

\* current_elements_for_window and the assessment made from its elements: the
\* first ones of the snapshot, when it is a snapshot of that window.
SampleLen == IF Len(current) < ProbeLimit THEN Len(current) ELSE ProbeLimit

Assess(w) ==
  IF window # w THEN "unknown"
  ELSE IF \E i \in 1..SampleLen : current[i].able THEN "supported" ELSE "unsupported"

\* The generation the entry is kept under: no state counts as generation 0.
Profile(w) == [gen |-> gen, status |-> Assess(w)]

\* Mutant: the generation is not compared.
AnyEntry(w) == {e \in cache[w] : TRUE}

\* The entries a lookup accepts: those of the current generation.
Fresh(w) == {e \in cache[w] : e.gen = gen}

\* capability_probe: the window is gone; or the entry is still good; or a new
\* profile, which never observes.  same: process, security and topology of the
\* entry are those of the window now.
capability_probe ==
  \E w \in Windows, same \in BOOLEAN :
    /\ \/ cache' = [cache EXCEPT ![w] = {}]
       \/ ~(same /\ Fresh(w) # {}) /\ cache' = [cache EXCEPT ![w] = {Profile(w)}]
    /\ result' = NoResult /\ UNCHANGED <<nonce, gen, current, window, held>>

\* close_session of the backend; the next session has another nonce.
close_session ==
  /\ nonce < MaxSessions /\ nonce' = nonce + 1
  /\ gen' = 0 /\ current' = <<>> /\ window' = NoWindow
  /\ cache' = [w \in Windows |-> {}]
  /\ result' = NoResult /\ held' = held

\* cached_semantic_assessment, of an element that resolves.
CachedUnsupported(id) ==
  /\ Resolves(id)
  /\ \E e \in Fresh(window) : e.status = "unsupported"

-----------------------------------------------------------------------------
(* UiaStore::action.                                                       *)

\* Mutant: the caller is told the generation it acted in.
ReturnBefore(status, called, after) ==
  result' = [status |-> status, called |-> called, before |-> gen,
             after |-> {gen : g \in after}]

Answered(status, called, after) ==
  result' = [status |-> status, called |-> called, before |-> gen, after |-> after]

\* Nothing was called and nothing changes.
Refuse(status) ==
  /\ Answered(status, FALSE, {})
  /\ UNCHANGED storeVars

\* Mutant: a call that failed counts as one that was not made.
NotCalled(status) ==
  /\ Answered("ElementUnavailable", TRUE, {})
  /\ UNCHANGED storeVars

\* The pattern was called and the epilogue, or the branch itself, invalidates.
Invalidated(status) ==
  /\ invalidate(1) /\ Spend
  /\ Answered(status, TRUE, {gen'})
  /\ UNCHANGED <<nonce, cache>>

\* The pattern was called and a fresh observation replaced the snapshot.
Refreshed(status, id, needed) ==
  /\ \E t \in Trees :
       /\ needed => \E i \in 1..Len(t) : t[i].control = Record(id).control
       /\ replace_snapshot(window, t)
  /\ Spend
  /\ Answered(status, TRUE, {gen'})
  /\ UNCHANGED <<nonce, cache>>

\* Before the action itself: the reference, and the element behind it.
ActionPrologue(id) ==
  \/ /\ ~Resolves(id)
     /\ Refuse(IF gen = 0 THEN "UnknownElement" ELSE element_status_for_generation(id))
  \/ Resolves(id) /\ Refuse("ElementUnavailable")   \* resolve_runtime_element

\* COM or UI Automation does not start: an Err, CapabilityGap.
ActionError(id) ==
  Resolves(id) /\ Answered("Err", FALSE, {}) /\ UNCHANGED storeVars

Focus(id) ==
  \/ Refuse("WindowNotForeground")
  \/ ~Record(id).able /\ Refuse("Unsupported")
  \/ /\ Record(id).able
     /\ \/ Refuse("Disabled")
        \/ Invalidated("VerificationFailed")
        \/ Invalidated("FocusDenied")
        \/ \* verified: mark_focused, and the generation is kept
           Answered("Performed", TRUE, {gen}) /\ UNCHANGED storeVars

Invoke(id) ==
  \/ ~Record(id).able /\ Refuse("Unsupported")
  \/ /\ Record(id).able
     /\ \/ Refuse("Disabled")
        \/ Refuse("ElementUnavailable")             \* pattern gone
        \/ \E s \in {"Performed", "VerificationFailed"} : Refreshed(s, id, FALSE)
        \/ Invalidated("OutcomeUnknown")            \* call or refresh failed

\* SetValue was called.  Several refreshes may replace the snapshot, all at the
\* same generation; a last one without readback is followed by an invalidation.
ValueWritten(id) ==
  \/ \E s \in {"Performed", "VerificationFailed"} : Refreshed(s, id, TRUE)
  \/ Invalidated("OutcomeUnknown")
  \/ /\ invalidate(2) /\ Spend
     /\ Answered("OutcomeUnknown", TRUE, {gen'})
     /\ UNCHANGED <<nonce, cache>>

SetValue(id) ==
  \/ Refuse("Unsupported")                          \* password, no pattern
  \/ Record(id).able /\ (Refuse("ReadOnly") \/ ValueWritten(id))

\* Toggle was called.  It may be proven by the pattern it was made with when
\* the element disappears with it.
Toggled(id) ==
  \/ \E s \in {"Performed", "VerificationFailed"} : Refreshed(s, id, TRUE)
  \/ \E s \in {"Performed", "OutcomeUnknown"} : Invalidated(s)

Toggle(id) ==
  \/ ~Record(id).able /\ Refuse("Unsupported")
  \/ /\ Record(id).able
     /\ \/ Refuse("Disabled")
        \/ Refuse("ElementUnavailable")
        \/ Toggled(id)

Select(id) ==
  \/ ~Record(id).able /\ Refuse("Unsupported")
  \/ /\ Record(id).able
     /\ \/ Refuse("Disabled")
        \/ Refuse("ElementUnavailable")
        \/ \E s \in {"Performed", "VerificationFailed"} : Refreshed(s, id, TRUE)
        \/ Invalidated("OutcomeUnknown")

ExpandCollapse(id) == Select(id)

\* A range without minimum and maximum is never set, and still invalidates.
RangeWritten(id) ==
  \/ \E s \in {"Performed", "VerificationFailed"} : Refreshed(s, id, TRUE)
  \/ Invalidated("OutcomeUnknown")
  \/ /\ invalidate(1) /\ Spend
     /\ Answered("OutcomeUnknown", FALSE, {gen'})
     /\ UNCHANGED <<nonce, cache>>

SetRangeValue(id) ==
  \/ ~Record(id).able /\ Refuse("Unsupported")
  \/ /\ Record(id).able
     /\ \/ \E s \in {"InvalidValue", "ReadOnly", "ElementUnavailable"} : Refuse(s)
        \/ RangeWritten(id)

ScrollIntoView(id) ==
  \/ ~Record(id).able /\ Refuse("Unsupported")
  \/ /\ Record(id).able
     /\ \/ Refuse("ElementUnavailable")
        \/ \E s \in {"Performed", "VerificationFailed"} : Refreshed(s, id, TRUE)
        \/ Invalidated("OutcomeUnknown")

Kinds == {"focus", "invoke", "set_value", "toggle", "select", "expand_collapse",
          "range_value", "scroll_into_view"}

Act(kind, id) ==
  CASE kind = "focus"           -> Focus(id)
    [] kind = "invoke"          -> Invoke(id)
    [] kind = "set_value"       -> SetValue(id)
    [] kind = "toggle"          -> Toggle(id)
    [] kind = "select"          -> Select(id)
    [] kind = "expand_collapse" -> ExpandCollapse(id)
    [] kind = "range_value"     -> SetRangeValue(id)
    [] OTHER                    -> ScrollIntoView(id)

action(kind, id) ==
  \/ ActionPrologue(id)
  \/ ActionError(id)
  \/ Resolves(id) /\ Act(kind, id)

-----------------------------------------------------------------------------
(* Properties of the references, for both backends.                       *)

\* A reference the caller was given either resolves to the very control, in
\* the very window, it was given for, or it does not resolve: generations are
\* never reused for other elements, whatever observations, actions, failed
\* refreshes and probes come between (the ids of uia.rs carry no more than a
\* nonce, a generation and an index).
ReferenceHolds ==
  \A h \in held : Resolves(h.id) => /\ Record(h.id).control = h.control
                                    /\ window = h.window

\* Once an action on any element was sent to UI Automation, or a click was
\* observed, no reference given before resolves; a verified Focus is the one
\* exception the code makes.
SpentIsDead == \A h \in held : h.spent => ~Resolves(h.id)
=============================================================================
