------------------------------ MODULE McpServer ------------------------------
(***************************************************************************)
(* McpServer (alice-computer-mcp/src/main.rs): one stdio loop that answers *)
(* one tool call at a time through the broker, and above all computer_use, *)
(* which runs a batch of actions under one lease and one batch context.    *)
(*                                                                         *)
(* The broker is seen from here as the calls the server makes to it; its   *)
(* own interleavings are Broker.  Between any two of those calls the       *)
(* sidecar may die, the lease may expire and the foreground may change.    *)
(*                                                                         *)
(* Abstracted: an action is its kind, as far as the predicates of the      *)
(* server tell actions apart; a frame is the session it was captured with. *)
(***************************************************************************)
EXTENDS Naturals, Sequences, FiniteSets

CONSTANTS
  Windows,       \* top-level windows of the desktop
  NoWindow,      \* no window: nothing requested, nothing in the foreground
  Rebinds,       \* REBIND_ATTEMPTS
  MaxActions,    \* bound: actions of one batch (64 in the code)
  MaxGen         \* bound: sidecar processes

ASSUME WindowAssumption == NoWindow \notin Windows
ASSUME BoundAssumption == Rebinds \in Nat \ {0} /\ MaxActions \in Nat /\ MaxGen \in Nat

VARIABLES
  \* --- host service and broker
  host,          \* generation of the live sidecar, 0 when there is none
  spawned,       \* generations so far
  known,         \* generation of the session the broker holds, or 0
  lease,         \* the desktop lease: the generation it was granted in
  expired,       \* its deadline has passed
  \* --- McpServer and the call it serves
  sess,          \* self.session: generation of the reference, or 0
  pc, tool,
  batch,         \* the actions not yet run
  requested,     \* window_id argument
  needsFrame, wantsShot,
  own,           \* session and lease of the call: their generation
  target,        \* target_id, the target of batch_context
  frame,         \* the coordinate frame: the generation it was captured in
  pending,       \* global_input_pending
  committed,     \* foreground_transition_committed
  why, attempt,  \* rebind_batch_context: what asked for it, and its counter
  \* --- history
  due,           \* input actions the call asked for, not performed yet
  stale,         \* a foreground change was performed after the last capture
  overlay,       \* an overlay was opened and nothing committed or switched
  sent,          \* the last action given to the broker, or {}
  reply          \* how the last call was answered

brokerVars == <<host, spawned, known, lease, expired>>
callVars   == <<tool, batch, requested, needsFrame, wantsShot, own>>
stepVars   == <<target, frame, pending, committed, why, attempt>>
histVars   == <<due, stale, overlay, sent, reply>>
vars == <<brokerVars, sess, pc, callVars, stepVars, histVars>>

\* text: type and keypress of one key; commit: a hotkey with enter or escape;
\* switch: cmd+tab, cmd+w, cmd+q, alt+tab; overlay: cmd+space.
Keyboard == {"text", "escape", "commit", "switch", "overlay"}
Inputs   == Keyboard \union {"pointer"}
Kinds    == Inputs \union {"wait", "screenshot"}
Tools    == {"computer_use", "execute", "read", "health"}
Batches  == UNION {[1..n -> Kinds] : n \in 1..MaxActions}

action_requires_execution(k) == k \notin {"wait", "screenshot"}
action_requires_frame(k)     == k = "pointer"
action_changes_foreground(k) == k \in {"switch", "overlay"}
action_opens_transient_overlay(k) == k = "overlay"
action_is_transient_dismissal(k)  == k = "escape"
action_commits_foreground_transition(k) == k = "commit"

Contains(b, P(_)) == \E i \in 1..Len(b) : P(b[i])

\* The input actions of a batch.
Executions(b) == Cardinality({i \in 1..Len(b) : action_requires_execution(b[i])})

Routes == {"global", "application", "window"}
Sent   == [kind : Inputs, route : Routes, frame : 0..MaxGen, own : 0..MaxGen,
           stale : BOOLEAN, pending : BOOLEAN, accepted : BOOLEAN]
Reply  == [error : BOOLEAN, due : Nat]

Goto(there) == pc' = there

\* handle: the response goes out and the call's locals are dropped.
Answer(error) ==
  /\ pc' = "idle" /\ tool' = "none" /\ batch' = <<>>
  /\ requested' = NoWindow /\ needsFrame' = FALSE /\ wantsShot' = FALSE
  /\ own' = 0 /\ target' = NoWindow /\ frame' = 0
  /\ pending' = FALSE /\ committed' = FALSE /\ why' = "none" /\ attempt' = 0
  /\ due' = 0
  /\ stale' = FALSE /\ overlay' = FALSE /\ sent' = {}
  /\ reply' = {[error |-> error, due |-> due]}

-----------------------------------------------------------------------------
(* The host service and the broker.                                        *)

ProcessDies ==
  /\ host # 0 /\ host' = 0
  /\ UNCHANGED <<spawned, known, lease, expired, sess, pc, callVars, stepVars,
                 histVars>>

LeaseDeadline ==
  /\ lease # {} /\ ~expired /\ expired' = TRUE
  /\ UNCHANGED <<host, spawned, known, lease, sess, pc, callVars, stepVars,
                 histVars>>

\* ensure_started: the live sidecar, or a new one.
Started ==
  \/ host # 0 /\ UNCHANGED <<host, spawned>>
  \/ /\ host = 0 /\ spawned < MaxGen
     /\ spawned' = spawned + 1 /\ host' = spawned + 1

\* refresh_state: no sidecar, no session and no lease; another one, no session.
Refresh ==
  /\ known' = (IF known = host THEN known ELSE 0)
  /\ lease' = (IF host = 0 THEN {} ELSE lease)
  /\ expired' = (expired /\ lease' # {})

\* Mutant: a call is checked against whatever session is open now.
AdmitsLive(g) == host # 0 /\ known = host

\* validate_locked and validate_lease_locked, after a refresh.
Admits(g) == host = g /\ known = g /\ lease = {g} /\ ~expired

SessionReady == sess # 0 /\ host = sess

\* session(), successful: the reference kept, or a read-only recovery that
\* drops what a dead sidecar left and opens a session with the live one.
Session ==
  \/ SessionReady /\ UNCHANGED <<brokerVars, sess>>
  \/ /\ ~SessionReady
     /\ Started
     /\ sess' = host' /\ known' = host'
     /\ lease' = (IF sess # 0 /\ host = 0 THEN {} ELSE lease)
     /\ expired' = (expired /\ lease' # {})

\* session(), failed: the sidecar does not start or dies under the call.
SessionFails ==
  /\ ~SessionReady
  /\ \/ UNCHANGED <<host, spawned>>
     \/ Started
  /\ IF host = 0 THEN known' = 0 /\ lease' = {} /\ expired' = FALSE
                 ELSE UNCHANGED <<known, lease, expired>>
  /\ UNCHANGED sess

-----------------------------------------------------------------------------
(* Tool calls.                                                             *)

\* handle_tool_call: computer_use checks its arguments first, and a batch of
\* waits and screenshots asks for a session only to take its picture.
CallBatch(b, req, shot) ==
  /\ pc = "idle"
  /\ tool' = "computer_use" /\ batch' = b /\ due' = Executions(b) /\ reply' = {}
  /\ requested' = req
  /\ needsFrame' = Contains(b, action_requires_frame)
  /\ wantsShot' = (shot \/ \E i \in 1..Len(b) : b[i] = "screenshot")
  /\ Goto(IF Contains(b, action_requires_execution) THEN "session" ELSE "plain")
  /\ UNCHANGED <<brokerVars, sess, own, stepVars, stale, overlay, sent>>

CallTool(t) ==
  /\ pc = "idle"
  /\ tool' = t /\ reply' = {}
  /\ Goto(IF t = "health" THEN "health" ELSE "session")
  /\ UNCHANGED <<brokerVars, sess, batch, requested, needsFrame, wantsShot,
                 own, stepVars, due, stale, overlay, sent>>

\* A request that is no tool call, or whose arguments are refused.
Refused ==
  /\ pc = "idle"
  /\ Answer(TRUE)
  /\ UNCHANGED <<brokerVars, sess>>

\* The end of stdin: broker.shutdown.
EndOfInput ==
  /\ pc = "idle" /\ Goto("stopped")
  /\ host' = 0 /\ known' = 0 /\ lease' = {} /\ expired' = FALSE
  /\ UNCHANGED <<spawned, sess, callVars, stepVars, histVars>>

\* health starts the sidecar if need be and refreshes the broker; it opens
\* no session.
Health ==
  /\ pc = "health"
  /\ \/ /\ Started
        /\ known' = (IF known = host' THEN known ELSE 0)
        /\ UNCHANGED <<lease, expired>>
        /\ Answer(FALSE)
     \/ UNCHANGED brokerVars /\ Answer(TRUE)
  /\ UNCHANGED sess

\* A batch without input: waits in order, then the picture.
PlainStep ==
  /\ pc = "plain" /\ batch # <<>>
  /\ \/ /\ batch' = Tail(batch)
        /\ UNCHANGED <<tool, requested, needsFrame, wantsShot, own, pc,
                       target, frame, pending, committed, why, attempt,
                       histVars>>
     \/ Head(batch) = "wait" /\ Answer(TRUE)
  /\ UNCHANGED <<brokerVars, sess>>

PlainEnd ==
  /\ pc = "plain" /\ batch = <<>>
  /\ \/ wantsShot /\ Goto("output") /\ UNCHANGED <<callVars, stepVars, histVars>>
     \/ ~wantsShot /\ Answer(FALSE)
  /\ UNCHANGED <<brokerVars, sess>>

\* The session of the call: reads are answered through it, computer_execute
\* and computer_use go on to the desktop lease.
OpenSession ==
  /\ pc = "session"
  /\ \/ /\ Session
        /\ own' = (IF tool = "read" THEN 0 ELSE sess')
        /\ Goto(IF tool = "read" THEN "read" ELSE "lease")
        /\ UNCHANGED <<tool, batch, requested, needsFrame, wantsShot,
                       stepVars, histVars>>
     \/ SessionFails /\ Answer(TRUE)

\* observe, screenshot and validate: window list, capture, semantic reads.
Read ==
  /\ pc = "read"
  /\ Refresh
  /\ \E error \in {e \in BOOLEAN : known' = 0 \/ known' # sess => e} :
       Answer(error)
  /\ UNCHANGED <<host, spawned, sess>>

\* acquire_desktop_lease: granted when the desktop is free, given back when
\* this session already holds it.
AcquireLease ==
  /\ pc = "lease"
  /\ known' = (IF known = host THEN known ELSE 0)
  /\ \/ /\ host = own /\ known = own /\ lease \in {{}, {own}}
        /\ lease' = {own} /\ expired' = (expired /\ lease # {})
        /\ Goto(IF tool = "execute" THEN "execute" ELSE "prepare")
        /\ UNCHANGED <<callVars, stepVars, histVars>>
     \/ /\ \/ host # own \/ known # own \/ lease \notin {{}, {own}}
        /\ lease' = (IF host = 0 THEN {} ELSE lease)
        /\ expired' = (expired /\ lease' # {})
        /\ Answer(TRUE)
  /\ UNCHANGED <<host, spawned, sess>>

\* computer_execute: one action, then the lease is given back whatever came
\* of it.
Execute ==
  /\ pc = "execute"
  /\ Refresh
  /\ Goto("release")
  /\ UNCHANGED <<host, spawned, sess, callVars, stepVars, histVars>>

\* release_desktop_lease is best effort: `let _`.
ReleaseDesktop ==
  /\ known' = (IF known = host THEN known ELSE 0)
  /\ lease' = (IF host = 0 THEN {} ELSE lease \ {own})
  /\ expired' = (expired /\ lease' # {})
  /\ UNCHANGED <<host, spawned, sess>>

\* A call that ran to its end may still owe a picture.
ReleaseLease ==
  /\ pc = "release"
  /\ ReleaseDesktop
  /\ \/ tool = "execute" /\ \E e \in BOOLEAN : Answer(e)
     \/ /\ tool = "computer_use" /\ wantsShot /\ Goto("output")
        /\ UNCHANGED <<callVars, stepVars, histVars>>
     \/ /\ tool = "computer_use" /\ ~wantsShot
        /\ Answer(FALSE)

\* Mutant: an early return forgets the lease.
ReturnAfterFailure ==
  /\ pc = "failed"
  /\ UNCHANGED <<brokerVars, sess>>
  /\ Answer(TRUE)

\* An early return of computer_use: release, then the error.
ReleaseAfterFailure ==
  /\ pc = "failed"
  /\ ReleaseDesktop
  /\ Answer(TRUE)

\* capture_encoded_frame for the answer, through session() once more.
Output ==
  /\ pc = "output"
  /\ \/ Session /\ \E e \in BOOLEAN : Answer(e)
     \/ SessionFails /\ Answer(TRUE)

-----------------------------------------------------------------------------
(* computer_use: one batch of actions.                                     *)

\* The early return.
Fail == Goto("failed") /\ UNCHANGED <<callVars, stepVars, histVars>>

\* prepare_execution_batch: the requested window, which must be listed and in
\* the foreground, or whatever window is in the foreground now.
Targets == IF requested = NoWindow THEN Windows \union {NoWindow} ELSE {requested}

Prepare ==
  /\ pc = "prepare"
  /\ Refresh
  /\ \/ /\ Admits(own)
        /\ target' \in Targets
        /\ Goto(IF needsFrame THEN "capture" ELSE "steps")
        /\ UNCHANGED <<callVars, frame, pending, committed, why, attempt,
                       histVars>>
     \/ Fail
  /\ UNCHANGED <<host, spawned, sess>>

\* capture_current_frame captures with the session of this moment, which
\* after a crash is not the session of the batch.
Capture ==
  /\ pc = "capture"
  /\ \/ /\ Session
        /\ \/ /\ frame' = sess' /\ stale' = FALSE /\ Goto("steps")
              /\ UNCHANGED <<callVars, target, pending, committed, why,
                             attempt, due, overlay, sent, reply>>
           \/ Fail
     \/ SessionFails /\ Fail

BatchEnd ==
  /\ pc = "steps" /\ batch = <<>>
  /\ Goto("release")
  /\ UNCHANGED <<brokerVars, sess, callVars, stepVars, histVars>>

\* A field that is missing or of another type, or a point outside the frame.
ParseFails ==
  /\ pc = "steps" /\ batch # <<>>
  /\ Head(batch) # "screenshot"
  /\ Fail
  /\ UNCHANGED <<brokerVars, sess>>

\* The action at the head of the batch is done.
Advance ==
  /\ batch' = Tail(batch)
  /\ UNCHANGED <<tool, requested, needsFrame, wantsShot, own>>

\* A wait looks for the new foreground while input is global.
Wait ==
  /\ pc = "steps" /\ batch # <<>> /\ Head(batch) = "wait"
  /\ Advance
  /\ IF pending THEN why' = "wait" /\ attempt' = 1 /\ Goto("rebind")
                ELSE UNCHANGED <<why, attempt, pc>>
  /\ UNCHANGED <<brokerVars, sess, target, frame, pending, committed, histVars>>

Screenshot ==
  /\ pc = "steps" /\ batch # <<>> /\ Head(batch) = "screenshot"
  /\ Advance
  /\ Goto(IF needsFrame THEN "capture" ELSE "steps")
  /\ UNCHANGED <<brokerVars, sess, target, frame, pending, committed, why,
                 attempt, histVars>>

\* Mutant: the fate of the overlay does not matter.
RouteByTarget(k) ==
  IF action_changes_foreground(k) THEN "global"
  ELSE IF k \in Keyboard /\ target # NoWindow THEN "application" ELSE "window"

\* Input goes to the desktop as a whole, to the application of the target
\* (macOS keyboard input), or to the target window.
GlobalScope(k) ==
  \/ pending
  \/ action_changes_foreground(k)
  \/ requested = NoWindow /\ action_is_transient_dismissal(k)
Route(k) == IF GlobalScope(k) THEN "global"
            ELSE IF k \in Keyboard /\ target # NoWindow THEN "application"
            ELSE "window"

\* execute_with_profile_in_batch.
Dispatch(k) ==
  /\ pc = "steps" /\ batch # <<>> /\ Head(batch) = k
  /\ Refresh
  /\ \E ok \in {b \in BOOLEAN : b => Admits(own)} :
       /\ sent' = {[kind |-> k, route |-> Route(k), frame |-> frame,
                    own |-> own, stale |-> stale, pending |-> pending,
                    accepted |-> ok]}
       /\ Goto(IF ok THEN "performed" ELSE "refused")
       /\ due' = due - (IF ok THEN 1 ELSE 0)
       /\ stale' = (stale \/ (ok /\ action_changes_foreground(k)))
       /\ overlay' = (IF ok /\ k \in {"switch", "commit"} THEN FALSE
                      ELSE overlay \/ (ok /\ action_opens_transient_overlay(k)))
  /\ UNCHANGED <<host, spawned, sess, callVars, stepVars, reply>>

\* Mutant: the batch goes on after an action that was not performed.
SkipRefused ==
  /\ pc = "refused"
  /\ Advance /\ sent' = {} /\ Goto("steps")
  /\ UNCHANGED <<brokerVars, sess, target, frame, pending, committed, why,
                 attempt, due, stale, overlay, reply>>

\* Not performed, or an error: the batch ends here.
NotPerformed ==
  /\ pc = "refused"
  /\ Fail
  /\ UNCHANGED <<brokerVars, sess>>

\* Performed: an overlay makes the following input global; another change of
\* foreground, or the end of a pending one, rebinds the batch.
Performed ==
  /\ pc = "performed"
  /\ Advance
  /\ LET k == Head(batch)
         starts  == action_changes_foreground(k)
         commits == pending /\ action_commits_foreground_transition(k)
     IN \/ /\ requested # NoWindow \/ ~(starts \/ commits)
           /\ Goto("steps")
           /\ UNCHANGED <<pending, committed, why, attempt>>
        \/ /\ requested = NoWindow /\ action_opens_transient_overlay(k)
           /\ pending' = TRUE /\ committed' = FALSE /\ Goto("steps")
           /\ UNCHANGED <<why, attempt>>
        \/ /\ requested = NoWindow /\ (starts \/ commits)
           /\ ~action_opens_transient_overlay(k)
           /\ why' = (IF starts THEN "switch" ELSE "commit") /\ attempt' = 1
           /\ Goto("rebind")
           /\ UNCHANGED <<pending, committed>>
  /\ sent' = {}
  /\ UNCHANGED <<brokerVars, sess, target, frame, due, stale, overlay, reply>>

-----------------------------------------------------------------------------
(* rebind_batch_context.                                                   *)

\* Mutants: one attempt too many, and attempts that are not counted.
PastLastAttempt == attempt > Rebinds
SameAttempt == attempt' = attempt

LastAttempt == attempt = Rebinds
NextAttempt == attempt' = attempt + 1

\* One attempt: prepare_execution_batch without a probe, until it reports
\* another window or the attempts are used up.
Rebind ==
  /\ pc = "rebind"
  /\ Refresh
  /\ \/ /\ Admits(own)
        /\ \E t \in Targets :
             \/ /\ requested # NoWindow \/ t # target \/ LastAttempt
                /\ Goto("probe") /\ UNCHANGED attempt
             \/ /\ requested = NoWindow /\ t = target /\ ~LastAttempt
                /\ NextAttempt /\ UNCHANGED pc
        /\ UNCHANGED <<callVars, target, frame, pending, committed, why, histVars>>
     \/ /\ requested = NoWindow /\ ~LastAttempt /\ NextAttempt
        /\ UNCHANGED <<pc, callVars, target, frame, pending, committed, why,
                       histVars>>
     \/ (requested # NoWindow \/ LastAttempt) /\ Fail
  /\ UNCHANGED <<host, spawned, sess>>

\* global_input_pending once the foreground is observed to be t.
PendingAfter(t) ==
  \/ why = "wait" /\ ~committed
  \/ why # "switch" /\ t = target

\* Mutant: the coordinate frame of the batch is kept.
KeepFrame(stillPending) == FALSE

\* The picture is taken again, for a wait only once the foreground is known.
Recapture(stillPending) == needsFrame /\ (why = "wait" => ~stillPending)

\* The same once more with the capability probe; the batch goes on with its
\* answer.
Probe ==
  /\ pc = "probe"
  /\ Refresh
  /\ \/ /\ Admits(own)
        /\ target' \in Targets
        /\ pending' = PendingAfter(target')
        /\ committed' = (why = "commit" \/ (why = "wait" /\ committed))
        /\ Goto(IF Recapture(pending') THEN "capture" ELSE "steps")
        /\ why' = "none" /\ attempt' = 0
        /\ UNCHANGED <<callVars, frame, histVars>>
     \/ Fail
  /\ UNCHANGED <<host, spawned, sess>>

-----------------------------------------------------------------------------
Init ==
  /\ host = 0 /\ spawned = 0 /\ known = 0 /\ lease = {} /\ expired = FALSE
  /\ sess = 0 /\ pc = "idle" /\ tool = "none" /\ batch = <<>>
  /\ requested = NoWindow /\ needsFrame = FALSE /\ wantsShot = FALSE
  /\ own = 0 /\ target = NoWindow /\ frame = 0
  /\ pending = FALSE /\ committed = FALSE /\ why = "none" /\ attempt = 0
  /\ due = 0 /\ stale = FALSE /\ overlay = FALSE /\ sent = {}
  /\ reply = {}

\* What the single thread of the server does once it has a call.
Serve ==
  \/ Health \/ PlainStep \/ PlainEnd \/ OpenSession \/ Read \/ AcquireLease
  \/ Execute \/ ReleaseLease \/ ReleaseAfterFailure \/ Output
  \/ Prepare \/ Capture \/ BatchEnd \/ ParseFails \/ Wait \/ Screenshot
  \/ \E k \in Inputs : Dispatch(k)
  \/ NotPerformed \/ Performed \/ Rebind \/ Probe

Request ==
  \/ \E b \in Batches, req \in Windows \union {NoWindow}, shot \in BOOLEAN :
       CallBatch(b, req, shot)
  \/ \E t \in Tools \ {"computer_use"} : CallTool(t)
  \/ Refused \/ EndOfInput

Next == Serve \/ Request \/ ProcessDies \/ LeaseDeadline

\* Every broker call is taken to return: the client answers or times out, except
\* as CallsReturn of SidecarClient excuses it.
Spec == Init /\ [][Next]_vars /\ WF_vars(Serve)

-----------------------------------------------------------------------------
(* Properties.                                                             *)

TypeOK ==
  /\ host \in 0..MaxGen /\ spawned \in 0..MaxGen /\ known \in 0..MaxGen
  /\ lease \in SUBSET (1..MaxGen) /\ expired \in BOOLEAN
  /\ sess \in 0..MaxGen /\ own \in 0..MaxGen /\ frame \in 0..MaxGen
  /\ pc \in {"idle", "stopped", "health", "plain", "session", "read", "lease",
             "execute", "release", "failed", "output", "prepare", "capture",
             "steps", "performed", "refused", "rebind", "probe"}
  /\ tool \in Tools \union {"none"} /\ batch \in Seq(Kinds)
  /\ requested \in Windows \union {NoWindow}
  /\ target \in Windows \union {NoWindow}
  /\ needsFrame \in BOOLEAN /\ wantsShot \in BOOLEAN
  /\ pending \in BOOLEAN /\ committed \in BOOLEAN
  /\ why \in {"none", "wait", "switch", "commit"} /\ attempt \in 0..Rebinds
  /\ due \in Nat /\ stale \in BOOLEAN /\ overlay \in BOOLEAN
  /\ sent \in SUBSET Sent /\ reply \in SUBSET Reply

\* Program points that hold the desktop lease.
Holding == {"execute", "release", "failed", "prepare", "capture", "steps",
            "performed", "refused", "rebind", "probe"}

\* Whatever early return, crash or recovery ended a call, the desktop lease
\* is not left with the server: another owner would be told DesktopBusy.
LeaseReturned == pc \notin Holding => lease = {}

\* A pointer action the broker takes is aimed with a frame of the very
\* session it runs in, although each capture may open a session of its own.
AimedInItsSession ==
  \A a \in sent : a.accepted /\ a.kind = "pointer" => a.frame = a.own

\* Without a requested window a pointer action outside global input is aimed
\* with a frame captured after the last change of foreground.
FrameFollowsSwitch ==
  \A a \in sent :
    a.kind = "pointer" /\ requested = NoWindow /\ ~a.pending => ~a.stale

\* While an overlay the batch opened is neither committed nor left, keyboard
\* input goes to the desktop and not to the window behind the overlay.
OverlayGetsTheKeys ==
  \A a \in sent :
    a.kind \in Keyboard /\ requested = NoWindow /\ overlay => a.route = "global"

\* A call that succeeds has performed each of its input actions, once.
SuccessIsComplete == \A r \in reply : ~r.error => r.due = 0

\* Every tool call is answered, whatever fails under it.
EveryCallAnswered == pc \notin {"idle", "stopped"} ~> pc = "idle"
=============================================================================
