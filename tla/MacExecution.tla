---------------------------- MODULE MacExecution ----------------------------
(***************************************************************************)
(* The Accessibility elements and execute_policy of the macOS backend      *)
(* (runtime/src/mac_native.rs): the same store of elements as UiaStore,    *)
(* with references that carry the path of child indexes they were found    *)
(* at, and a request that tries Accessibility, a background route and a    *)
(* foreground takeover in turn.                                            *)
(*                                                                         *)
(* As on Windows a request holds the backend's lock; applications and the  *)
(* answers of Accessibility are free choices.                              *)
(***************************************************************************)
EXTENDS UiaStore

VARIABLES mpc, mreq, mjob

macVars == <<storeVars, result, mpc, mreq, mjob>>

MacStrategies == {"SemanticOnly", "PreferSemantic", "Pixel"}
Modes   == {"background", "takeover"}
Scopes  == {"window", "application", "both", "none"}

\* toggle: also select, expand and collapse, which go the same way.
MacKinds == {"focus", "invoke", "toggle", "set_value", "range_value", "scroll_into_view"}

\* keys: is_global_keyboard_action; click: also the other actions that have a
\* background route; drag: those that have none.
MacPixelKinds == {"click", "keys", "drag"}

MacRequests ==
  [intent : {"semantic"}, kind : MacKinds, strategy : MacStrategies,
   policy : {"Allow", "Deny"}, mode : Modes, id : Ids] \union
  [intent : {"pixel"}, kind : MacPixelKinds, strategy : MacStrategies,
   mode : Modes, scope : Scopes]
NoMacRequest == [intent |-> "none"]

\* status: what the semantic route, if any, answered.  sent: inputs and AX
\* calls that reached the desktop.  live: the element named resolved.
MacJobs == [outcome : Statuses, status : Statuses \union {"none"}, sent : 0..3,
            binding : BOOLEAN, pixels : BOOLEAN, live : BOOLEAN]
NoMacJob == [outcome |-> "InvalidValue", status |-> "none", sent |-> 0, binding |-> FALSE, pixels |-> FALSE, live |-> FALSE]

MacFinish(j) == mpc' = "answered" /\ mjob' = j

-----------------------------------------------------------------------------
(* The elements.                                                           *)

\* semantic_observe_ax: nothing changes when the window is not found; a root
\* that cannot be read leaves a new generation without elements.
semantic_observe_ax(w, t) ==
  \/ replace_snapshot(w, t)
  \/ invalidate(1)
  \/ UNCHANGED <<gen, current, window>>

MacObserve ==
  /\ mpc = "idle"
  /\ \E w \in Windows, t \in Trees :
       /\ semantic_observe_ax(w, t)
       /\ IF gen' # gen /\ current' # <<>> THEN Give(w, t) ELSE held' = held
  /\ UNCHANGED <<nonce, cache, result, mpc, mreq, mjob>>

\* capability_probe_ax observes for itself when the last observation is of
\* another window; the caller is given no elements.
capability_probe_ax ==
  /\ mpc = "idle"
  /\ \E w \in Windows, t \in Trees : window # w /\ semantic_observe_ax(w, t)
  /\ UNCHANGED <<nonce, cache, held, result, mpc, mreq, mjob>>

\* close_session; the next session has another nonce.
MacCloseSession ==
  /\ mpc = "idle" /\ nonce < MaxSessions /\ nonce' = nonce + 1
  /\ gen' = 0 /\ current' = <<>> /\ window' = NoWindow
  /\ UNCHANGED <<cache, held, result, mpc, mreq, mjob>>

\* Before anything is dispatched: the reference, and what its record says.
AxRefused(kind, id, status) ==
  \/ gen # 0 /\ ~Resolves(id) /\ status = element_status_for_generation(id)
  \/ /\ Resolves(id)
     /\ \/ status = "Disabled"
        \/ status = "Unsupported" /\ (kind = "scroll_into_view" \/ ~Record(id).able)
        \/ status = "ReadOnly" /\ kind = "set_value"
        \/ status = "InvalidValue" /\ kind \in {"set_value", "range_value"}

Dispatches(kind, id) == Resolves(id) /\ kind # "scroll_into_view" /\ Record(id).able

\* What verify_ax_action can find: an invocation is taken as done.
verify_ax_action(kind) ==
  IF kind = "invoke" THEN {"Performed"} ELSE {"Performed", "VerificationFailed"}

\* ax_element_for_path: whatever control is now at the recorded path of child
\* indexes, or none any more, which is an error before or after the dispatch.
PathGone(status) == status = "Err" /\ UNCHANGED storeVars

\* The dispatch was made and looked at.
AxDispatched(kind, status) ==
  \/ PathGone(status)                     \* or the dispatch itself failed
  \/ /\ status \in verify_ax_action(kind)
     /\ status = "VerificationFailed" \/ kind = "focus"
     /\ UNCHANGED storeVars
  \/ \* the last list of windows may fail after the elements were dropped
     /\ "Performed" \in verify_ax_action(kind) /\ kind # "focus"
     /\ status \in {"Performed", "Err"}
     /\ invalidate(1) /\ Spend /\ UNCHANGED <<nonce, cache>>

\* semantic_action_ax: status "Err" is an error of the call.
semantic_action_ax(kind, id, status, sent) ==
  \/ AxRefused(kind, id, status) /\ sent = 0 /\ UNCHANGED storeVars
  \/ PathGone(status) /\ sent = 0         \* not trusted, no session, no element
  \/ Dispatches(kind, id) /\ sent = 1 /\ AxDispatched(kind, status)

-----------------------------------------------------------------------------
(* execute_policy.                                                         *)

MacNamed == {h.id : h \in held} \union {Id(gen, i) : i \in 1..Len(current)}
            \union {Id(gen + 1, 1)}

\* semantic_action without the policy around it.
MacSemanticAction ==
  /\ mpc = "idle"
  /\ \E k \in MacKinds, n \in MacNamed, status \in Statuses, sent \in 0..1 :
       semantic_action_ax(k, n, status, sent)
  /\ UNCHANGED <<result, mpc, mreq, mjob>>

MacBegin ==
  /\ mpc = "idle" /\ gen + 1 <= MaxGen
  /\ \/ \E k \in MacKinds, s \in MacStrategies, p \in {"Allow", "Deny"}, m \in Modes, n \in MacNamed :
          /\ s # "PreferSemantic" => p = "Allow"     \* the policy is not read,
          /\ s = "SemanticOnly" => m = "takeover"     \* nor is the mode
          /\ mreq' = [intent |-> "semantic", kind |-> k, strategy |-> s, policy |-> p,
                      mode |-> m, id |-> n]
          /\ mjob' = [NoMacJob EXCEPT !.live = Resolves(n)]
     \/ \E k \in MacPixelKinds, s \in MacStrategies, m \in Modes, c \in Scopes :
          /\ mreq' = [intent |-> "pixel", kind |-> k, strategy |-> s, mode |-> m, scope |-> c]
          /\ mjob' = NoMacJob
  /\ mpc' = "policy"
  /\ UNCHANGED <<storeVars, result>>

\* Mutant: a binding is made from the reference alone.
AnyBinding(kind, id) == kind \notin {"range_value", "scroll_into_view"}

\* semantic_pixel_fallback: a current element, with bounds, and an action that
\* a click or typing can stand for.
semantic_pixel_fallback(kind, id) ==
  Resolves(id) /\ kind \notin {"range_value", "scroll_into_view"}

semantic_status_allows_takeover(status) ==
  status \in {"Unsupported", "WindowNotForeground", "FocusDenied"}

FallbackAllowed(bounds) ==
  /\ bounds /\ mreq.strategy # "SemanticOnly"
  /\ semantic_pixel_fallback(mreq.kind, mreq.id)
  /\ mreq.policy = "Allow" \/ mreq.strategy = "Pixel"

\* The semantic route, with the binding taken before it.
MacSemantic ==
  /\ mpc = "policy" /\ mreq.intent = "semantic" /\ mreq.strategy # "Pixel"
  /\ \E status \in Statuses, sent \in 0..1, bounds \in BOOLEAN :
       LET after == [mjob EXCEPT !.status = status, !.outcome = status, !.sent = sent,
                       !.binding = FallbackAllowed(bounds)]
       IN /\ semantic_action_ax(mreq.kind, mreq.id, status, sent)
          /\ IF FallbackAllowed(bounds) /\ (status = "Err" \/ semantic_status_allows_takeover(status))
             THEN mpc' = mreq.mode /\ mjob' = after
             ELSE MacFinish(after)
  /\ UNCHANGED <<result, mreq>>

\* A pixel strategy: the semantic route counts as Unsupported.
MacExplicitPixel ==
  /\ mpc = "policy" /\ mreq.intent = "semantic" /\ mreq.strategy = "Pixel"
  /\ \E bounds \in BOOLEAN :
       LET after == [mjob EXCEPT !.status = "Unsupported", !.outcome = "Unsupported",
                                 !.binding = FallbackAllowed(bounds)]
       IN IF FallbackAllowed(bounds) THEN mpc' = mreq.mode /\ mjob' = after
                                     ELSE MacFinish(after)
  /\ UNCHANGED <<storeVars, result, mreq>>

\* A pixel intent that has no target it can be sent to.
RejectPixel ==
  /\ \/ mreq.strategy = "SemanticOnly" \/ mreq.scope = "both"
     \/ mreq.scope = "none" /\ mreq.kind # "keys"
  /\ MacFinish(mjob)

\* The application, the window or the security decision is not to be had.
TargetMissing ==
  /\ mreq.strategy # "SemanticOnly" /\ mreq.scope # "both"
  /\ MacFinish([mjob EXCEPT !.outcome = "Err"])

\* An application or a window, first in the background when the mode prefers
\* it; keys without a target go to the desktop.
RoutePixel ==
  /\ mreq.strategy # "SemanticOnly"
  /\ \/ mreq.scope \in {"application", "window"} /\ mpc' = mreq.mode
     \/ mreq.scope = "none" /\ mreq.kind = "keys" /\ mpc' = "takeover"
  /\ UNCHANGED mjob

MacPixelPolicy ==
  /\ mpc = "policy" /\ mreq.intent = "pixel"
  /\ RejectPixel \/ TargetMissing \/ RoutePixel
  /\ UNCHANGED <<storeVars, result, mreq>>

\* How an attempt ends: done, or failed before or after something was sent.
Done       == [ok |-> TRUE, sent |-> 1]
FailsLate  == [ok |-> FALSE, sent |-> 1]
FailsEarly == [ok |-> FALSE, sent |-> 0]

\* background_pointer_action: a press or a scroll of the element at the point.
background_pointer_action(kind) ==
  IF kind = "drag" THEN {FailsEarly} ELSE {Done, FailsLate, FailsEarly}

\* execute_application: keyboard events to a process.
execute_application(kind) ==
  IF kind = "keys" THEN {Done, FailsLate, FailsEarly} ELSE {FailsEarly}

execute_background(kind) ==
  IF kind = "keys" THEN execute_application(kind) ELSE background_pointer_action(kind)

\* execute_takeover_fallback: focus_window, and then the input.
execute_takeover_fallback == {FailsEarly} \union {Done, FailsLate}

\* The action of a semantic request is a click or a text at a point.
MacPixelKind == IF mreq.intent = "pixel" THEN mreq.kind ELSE "click"
ForApplication == mreq.intent = "pixel" /\ mreq.scope = "application"

Afterwards(attempt) ==
  [mjob EXCEPT !.pixels = TRUE, !.sent = @ + attempt.sent,
     !.outcome = IF attempt.ok THEN "Performed" ELSE "Err"]

\* The background route, and the takeover when it fails.
Background ==
  /\ mpc = "background"
  /\ \E a \in IF ForApplication THEN execute_application(MacPixelKind)
                                ELSE execute_background(MacPixelKind) :
       IF a.ok THEN MacFinish(Afterwards(a)) ELSE mpc' = "takeover" /\ mjob' = Afterwards(a)
  /\ UNCHANGED <<storeVars, result, mreq>>

\* The takeover; in takeover mode an application has the one route.
Takeover ==
  /\ mpc = "takeover"
  /\ \E a \in IF ForApplication /\ mreq.mode = "takeover" THEN execute_application(MacPixelKind)
                                                         ELSE execute_takeover_fallback :
       MacFinish(Afterwards(a))
  /\ UNCHANGED <<storeVars, result, mreq>>

MacReturn ==
  /\ mpc = "answered" /\ mpc' = "idle" /\ mreq' = NoMacRequest /\ mjob' = NoMacJob
  /\ UNCHANGED <<storeVars, result>>

MacInit == StoreInit /\ mpc = "idle" /\ mreq = NoMacRequest /\ mjob = NoMacJob

MacNext ==
  \/ MacObserve \/ capability_probe_ax \/ MacCloseSession \/ MacSemanticAction
  \/ MacBegin \/ MacSemantic \/ MacExplicitPixel \/ MacPixelPolicy
  \/ Background \/ Takeover \/ MacReturn

MacSpec == MacInit /\ [][MacNext]_macVars

-----------------------------------------------------------------------------
(* Properties.                                                             *)

MacTypeOK ==
  /\ mpc \in {"idle", "policy", "background", "takeover", "answered"}
  /\ mreq \in MacRequests \union {NoMacRequest}
  /\ mjob \in MacJobs

\* What a semantic request may send.  About an element that did not resolve
\* when the request came it sends nothing, by Accessibility or by pixels,
\* whatever its strategy and policy; and pixels stand in for the action only
\* when the caller admits them, never when Accessibility answered that the
\* action was done, unverified, or refused by the element itself.
SendsAreAdmitted ==
  mreq.intent = "semantic" =>
    /\ mpc = "answered" /\ ~mjob.live => mjob.sent = 0
    /\ mjob.pixels =>
         /\ mreq.strategy # "SemanticOnly"
         /\ mreq.strategy = "PreferSemantic" => mreq.policy = "Allow"
         /\ mjob.status \notin {"Performed", "VerificationFailed", "Disabled", "ReadOnly",
                                "InvalidValue", "StaleElement", "UnknownElement"}
=============================================================================
