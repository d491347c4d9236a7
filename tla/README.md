# computer_use_rs in TLA+

This directory specifies the control of the desktop-automation stack in
`src/`: which action may reach the desktop, when, on whose behalf and how
often. The modules are translated from the Rust source; line numbers of every
definition are in `PROJECT.json` under `map`. TLC checks small instances and
TLAPS proves the main safety properties for every value of the constants.

## The system

An agent asks a *host* for desktop actions. The host embeds the **broker**,
which owns sessions, the desktop lease, approvals and the interaction guard.
The broker talks through the **sidecar client** to one **sidecar process** per
generation, which drives the desktop.

    MCP server / host threads
            | calls, concurrently
    ComputerExecutionBroker     BrokerState lock, action_gate, policy lock
      |   ComputerInteractionGuard  <- input monitor (hook thread, event tap)
      |   ComputerHostService       lifecycle_gate, generation, client
            | RPC over pipes
    ComputerSidecarClient       pending map, writer lock, reader, monitor
            | frames
    alice-computer (serve)      sequential, replay window, window ids
            |
    ComputerRuntime -> Windows / macOS backend (frames, UIA, policy, input)

| component | state | operations | hard behaviour | what makes it correct |
|---|---|---|---|---|
| Broker (`broker/src/lib.rs`) | generation, sessions, lease, dispatched, restart count, contexts, policy | open, close, lease, execute, resume, Stop Turn, restart, shutdown | each call is many critical sections with RPCs between them; a status read early is applied late | at most one execution; an action is sent at most once; sessions of one generation; locks given back |
| Host service (`sidecar-client/src/lib.rs`) | state, generation, client | ensure_started, open, close, status, restart, shutdown | crashes between any two steps, start-up failure | status tells the truth about the client; gate released on failure |
| Interaction guard (`broker/src/lib.rs`) | UX state, held-gesture baselines | begin_lease, preflight, postflight, commit, clear | user input at any moment; other callers reset it | a performed action was alone; a conflict is reported once; the pause lasts |
| Input monitor (`input_activity.rs`) | counters, available | record, snapshot | loss of the hook thread in two steps; buttons nobody listens for | what is heard is counted; a lost monitor is noticed |
| Sidecar client (`sidecar-client/src/lib.rs`) | alive, pending, writer, process | call, dispatch_response, mark_dead, terminate, shutdown | late answers, timeouts, writes that block in the middle of a frame, several threads see one failure | no leak; no late action; every call returns |
| Sidecar server (`alice-computer/src/main.rs`) | sessions, window maps, replay window | serve, handle_request | repeated ids, reused window handles | no request twice; ids stay valid |
| Runtime (`runtime/src/lib.rs`) | initialized, closed, session counter | initialize, start, close, shutdown | flags changed outside the backend lock | no use after close |
| Frame store (`win_native.rs`, `mac_native.rs`) | frames, order, tombstones, byte counts | insert, evict, encode, get | eviction by two limits | accounts match contents |
| Execution policy (both backends) | attempts, fallback | execute_policy | a fallback after an attempt that may have worked | no action performed twice |
| UIA store (`uia.rs`) | generations, elements | observe, resolve | references of evicted generations | stale references refused |
| Policy (`policy.rs`) | profile, approvals, denied surfaces | admit, risk_for | classification of nested actions | no mutation without approval |
| MCP server (`alice-computer-mcp/src/main.rs`) | session, approvals | computer_use batches | one lease over a batch | batch stops at the first conflict |
| Core types, protocol, telemetry, macOS helper | data, frames, audit | validation, framing | limits | - |

`PROJECT.json` lists the same components with their status, and under
`hazards` what is hard to test in this code, at its line.

## The modules

### `Broker.tla`, `DesktopWriter.tla`, `MCBroker.tla`, `MCBrokerStop.tla`

`Broker` models the broker and the host service. Host threads are `Tasks`; a
call is a walk of `pc[t]` through its critical sections. An action is one
critical section, one read of the host status or one RPC; so between
`ReadStatus` and `Sync` (refresh_state), between `OpenCreate` and `Register`
(open_session), between `CloseSession`, `ForgetContexts` and `CloseFinish`
(close_session), and between `Reserve` and `Dispatch` (execute) everything
else may happen, as it may in the program.

| code | model |
|---|---|
| `action_gate` | `gate`, held in the program points `GatedPC` |
| `lifecycle_gate` | `life` |
| `BrokerState` | `generation sessions lease nextLease dispatched restarts` |
| expiry of a lease | `leaseExpired`, set by `LeaseDeadline` at any time |
| `approval_contexts`, `granted_approvals` | `contexts`, `approvals`; `grant` is the clone a call works with |
| `ComputerHostService` | `hostState hostGen hostClient`; `procs` are the generations whose client is alive |
| locals of a call | `snap` (status read), `ref`, `req`, `held`, `resumed` |
| what left for the sidecar | `sent` (history), `client` (process each session id was created in) |

Decisions that a reader may question:

- A start of the sidecar is a program point of its own (`StartingPC`), for
  `open_session`, `health` and `restart_after_crash`. The host's inner mutex is
  held throughout `ensure_started`, so nobody reads the status while a process
  is spawned (`HostLocked`); what others see is either before or after it.
- `session.create`, `health`, `session.close` and the shutdown RPC run under the
  lifecycle gate without that mutex (`LifePC`): the status can be read then.
- The sidecar names sessions after the time and a counter; they are taken to
  be unique over all its processes, and come from `nextSid`.
- `sync_locked` drops the lease only when the host is not Ready; when only the
  generation changed it drops sessions and dispatch keys. `KeptLease` says so.
- `ShutdownHost` takes the client out first; the state stays Ready while the
  shutdown RPC runs.
- Windows, capability probes, protected surfaces and the guard's verdict are a
  choice between going on and `Refuse` or `CancelReservation`.
- `invalidated` only picks the error code of a refusal and is left out.

`DesktopWriter` is what the broker promises about desktop input and nothing
else: actions are reserved, then written, one at a time, each at most once.
`Broker!WriterSpec` instantiates it with the dispatch keys of the call at
`reserved` and at `sent`. `MCBroker` adds symmetry; `MCBrokerStop` adds the
memory of the executions a Stop Turn interrupted.

### `InteractionGuard.tla`, `MCGuardStop.tla`

The guard, the monitor it samples and the calls of the broker to it around one
execution. That there is one execution at a time is the theorem `OneExecution`
of the broker. Input events (`Event`), the loss of the monitor and other
callers (`Observe`, `ResetAfterInterrupt`, `ReleaseForApproval`,
`CloseSession`, `ClearAll`) may step in between any two steps. The counters of
keys, buttons and wheel of one source are always tested together and form one
channel; moves are channels of their own because only pointer gestures mind
them. Not every event is counted (`Heard`). The X buttons on Windows and every
button but left and right on macOS are in no message or mask the monitor knows
(`"side"`). And the monitor is lost in two steps: the hook thread takes its
hooks off, or the run loop of the tap ends (`HooksEnd`), and only then
`available` becomes false (`MonitorLost`); input in between is heard by nobody
while the monitor still counts as available. `pressed` is what the sidecar
holds down for a session. `during`, `since` and `blamed` are history: what
happened since the baseline was sampled, heard or not, and the counters at the
last conflict. A snapshot of the counters, and the comparison with one, are
atomic; in the code they read a few atomics in turn, and an event in between
counts as before or after. `MCGuardStop` remembers what was pressed at a Stop
Turn.

### `SidecarClient.tla`, `RemoteCalls.tla`

Callers, the reader, the monitor and the sidecar process with its two pipes.
`mark_dead` is two actions (`TakeAlive`, `Drain`), because the alive flag and
the pending map have different locks; `Call` and `Insert` are two because a
client found alive may be dead when the entry is made. The deadline and the
removal of the entry are one action: an answer that comes in between goes to a
channel nobody reads. `write_frame` is two actions: `Write` takes the writer
lock and begins the frame, `Written` ends it once its last byte is in the pipe
(`Room`) or has been read. In between the write may block for as long as the
sidecar likes, also one that serves nothing: it may stop in the middle of a
frame (`ReadRequest` is the end of reading one, and owed to nobody). `PipeSize`
0 stands for frames larger than the pipe, which end only when they are read.
`Terminates` says whether `terminate` can kill the process (Windows) or returns
an error (elsewhere); TRUE takes TerminateProcess to succeed. The sidecar is
the loop of `serve`: take a request, perform it, answer it, possibly with
something that does not decode; it may hang at any point and exit at any
moment. `performed`, `answered` and `expired` are history: the actions
performed, the calls that returned the sidecar's answer, and those that
returned a timeout.

`RemoteCalls` is what the client promises without pipes, threads or a pending
map: a request is performed at most once and never after its answer was handed
out, a call has one outcome, and where a timeout ends the process nothing is
performed after a timeout was reported. It promises nothing about a call that
fails otherwise: `OUTCOME_UNKNOWN` is meant literally. `CallsSpec` instantiates
it with the client's calls; it is `ExactlyOnce` of the broker carried over the
wire, since the broker counts what it hands to the client.

### `McpServer.tla`

The stdio loop of `alice-computer-mcp`: one tool call at a time, answered by a
walk of `pc` over the calls it makes to the broker. `Request` brings a call,
`Serve` is the server's own step; between any two of them the sidecar may die
(`ProcessDies`), the lease may expire (`LeaseDeadline`), and the foreground is
whatever `Prepare`, `Wait`, `Rebind` and `Probe` find. The broker appears as
`Refresh` and `Admits`, which are `Sync` and the validations of `Broker` for
its one caller.

| code | model |
|---|---|
| the session the server keeps | `sess`, its process; `own` is the session of the call |
| `BatchContext`: coordinate frame, window | `frame` (the session it was captured with), `target`, `requested` |
| `global_input_pending`, `foreground_transition_committed` | `pending`, `committed` |
| rebind attempts | `why`, `attempt` |
| the early returns of `computer_use` | `Fail`, then `ReleaseAfterFailure` |
| history | `due` (actions left), `stale` (frame older than the foreground), `overlay`, `sent`, `reply` |

An action is its kind, as far as the predicates of the server tell kinds
apart; JSON that does not parse is `Refused` or `ParseFails`. `sent` keeps the
last action sent, since the properties speak of one action at a time.

### `UiaStore.tla`, `WindowsExecution.tla`, `MacExecution.tla`

`UiaStore` is `UiaStore` of `uia.rs` with the capability cache of the Windows
backend: the elements of the last observation, the generation that makes older
references stale, and each branch of `action` with its refusals, refreshes and
invalidations. A tree is the sequence of its elements, each with the control it
stands for and whether that has the pattern wanted; a reference is the triple
that `uia-{nonce}-{generation}-{index}` encodes. `held` is history: one
reference the caller was given, the control and window it was given for, and
whether it is spent. One is enough, because every property is about one
reference and every reference can be the one.

`WindowsExecution` is `execute_policy` over that store: the semantic attempt,
the decision what comes next (`AfterSemantic`), the pixel fallback with its
target, and the observations that verify a pixel action. `job` says what the
request did so far and how it is answered, with `missed`, history, for a last look
that failed; `dispatched` counts input events and pattern calls that reached the
desktop. `MacExecution` is the macOS order:
Accessibility, a background route, a foreground takeover. On both platforms a
request holds the backend's lock, so requests, observations and probes do not
interleave; the desktop does, as the free choices of every step.

### `SidecarServer.tla`

`serve`, `handle_request` and the runtime's sessions: the replay window
(`order`, `seen`), initialization, and every method as far as it changes
sessions, window ids (`maps`), held input (`pressed`) or the backend (`up`).
The loop is sequential and the only caller of the runtime, so its flags are
never raced. A request is its id and method; what the backend answers, and
whether the response can be written, are free. `handled` and `given` are
history: the ids handled in order, and the window ids the client was told.

### `FrameStore.tla`

The captured frames of a session and the display topology of both backends:
capture, insert with its eviction loop, encode with its shrinking loop, release,
and `state` (`FrameAnswer`). The loops are taken turn by turn because they end
only if byte counts and queue agree with what is stored. Pixels are their size.
`fates` is history: which frames went and how.

### `InputDispatch.tla`

What is pressed, and where (`down`), and what a session remembers of it
(`tracked`) while calls to the operating system fail part of the way. An action
is a plan, read off the code of each `send_*` function: batches of events with
the releases its code sends when the batch fails, in three stages: `open` stops
at a failure, a failure in `body` goes on with `close`, and `close` runs to its
end. Windows takes a prefix of a failed batch; macOS posts events one by one.

Events go to a place: the desktop, or on macOS, for the keys of an action in
application or background scope, one process (`Places`, `ApplicationPlan`). The
record of a session does not say which. `release_pressed` sends every release to
the desktop, so a key that was pressed in an application is forgotten and stays
down there; the same happens when a press and its lift go to different places.
`lost` is history: what is down although its release was tried, because the call
failed or because it went elsewhere (`LostAfter`).

### `MCRuntime.tla`

These five parts of the sidecar process share no state but the session they
belong to. `MCRuntime` runs one of them per behaviour, chosen by `part` at the
start; its state space is the sum of theirs, and one run checks them all.

## What is checked

| run | instance | shows |
|---|---|---|
| `broker_restart` | 2 threads, 2 processes, 2 sessions, 1 lease, 1 request, 1 crash restart | `IInv`, `SessionsCurrent`, `SentRemembered`, `SessionNotOlder`; the refinement `WriterSpec` |
| `broker_approval` | 2 threads, 1 session, 2 leases, 1 sensitive request | `TypeOK`, `ExactlyOnce`, `GateExclusive`, and that the locks are released (`LocksReleased`) |
| `guard` | 1 session, 2 events | `IInv`, `AloneAsHeard`, `FreshAfterConflict` |
| `client` | 2 callers, 2 calls each, frames larger than the pipe | `IInv` (with `PendingOwned`), `QuarantineHolds`; the refinement `CallsSpec`; `CallsReturn` |
| `mcp_batch` | 1 window, batches of up to 3 actions, 2 rebind attempts, 2 processes | `TypeOK`, `LeaseReturned`, `AimedInItsSession`, `FrameFollowsSwitch`, `OverlayGetsTheKeys`, `SuccessIsComplete`; `EveryCallAnswered` |
| `runtime`, windows | 2 controls, 1 window, trees of up to 2, 3 generations, 2 sessions, 2 observations | `ReferenceHolds`, `SpentIsDead`, `CachedIsCurrent`, `OneEffect`, `RefusalsTouchNothing`, `FallbackIsAdmitted`, `ReportedGenerationIsCurrent` |
| `runtime`, macos | the same store | `ReferenceHolds`, `SpentIsDead`, `SendsAreAdmitted` |
| `runtime`, server | 3 request ids, window of 2, 2 handles, 2 sessions, 6 requests | `ReplayRefused`, `WindowIdsHold`, `LiveSessionsWork`, `NothingLeftBehind` |
| `runtime`, frames | 2 frames, 6 bytes, 3 encoded bytes, 2 tombstones, 4 captures, 2 topologies, both platforms | `FramesAccounted`, `LoopsEnd`, `FrameAnswersHold` |
| `runtime`, input | 1 session, 1 application, 2 failing calls, both platforms | `DownIsTracked` |

(`runtime` is one run with all of these, and `RuntimeTypeOK`),

and six runs that must find a counterexample, each for a sentence of the
repository that the code does not keep (see `findings`):

| run | property | the sentence |
|---|---|---|
| `stop` | `StopCancels` | Stop Turn is a desktop-input cancellation boundary |
| `guard_stop` | `NothingInherited` | the next action must not inherit pressed state |
| `expired` | `ExpiredLeaseGoes` | leases are short-lived |
| `focus` | `FocusUnderLease` | leases are required before dispatching input |
| `guard_deaf` | `FailsClosed` | without the monitor, actions fail closed |
| `client_macos` | `QuarantineHolds` | a timed-out action does not complete later |

**Bounds.** `MaxGen`, `MaxSid`, `MaxLease`, `MaxEvents` and `Rounds` bound
counters, in the guards that increment them. Two threads are enough for one to
act between the steps of the other, which is what every hazard of the broker
needs; two generations and two sessions are the least with a stale status that
judges a newer session. One lease is enough in `broker_restart`, since the
lease is only a guard of the execution there; `broker_approval` has two so that
a resume runs under another lease than the one that asked, and one generation,
since restarts are the subject of the other run. Two events let the user act
once before and once after any step, or on two channels. Two calls per thread
let an old failure meet a new call. In `mcp_batch` three actions are the least
in which one opens an overlay, one acts while it is open and one after it was
left; two processes let a capture move to another session than the batch's. In
`runtime` an action takes at most two generations, so three leave one before
it; two controls can exchange their index; a probe that looks at one element
(`ProbeLimit`) of two has something to overlook; six requests with three ids
fill and overrun a window of two; frames of 1, 4 and 7 bytes under a limit of 6
fit, evict one or more, and are refused; three frames going overrun two
tombstones, and four captures leave one to be current. In the input part one
application beside the desktop is enough for a press and its lift to part, and
two failing calls for a release to fail after the batch it releases. The limits
of the code are these constants, with their values beside the declarations. The
inductive invariants are checked as invariants of the runs, and proved without
any bound.

**Fairness.** `FairSpec` of `Broker` is weak fairness of a thread that is
inside a call and not inside an RPC (`InRpc`): mutexes are granted, code between
two RPCs runs on. RPCs are excluded because their end is not guaranteed. The
answer is awaited with a deadline, but the write of the request has none. Nothing
is assumed of callers (`Call`), of the sidecar or of the environment.
`LocksReleased` says what is left: a thread gives the gates back, or it never
returns from an RPC. Inside the action gate it also reads the status of the host
service, and so may wait for ever for a mutex that others hold, or take again and
again, to start sidecars (`NeverBack`).
`RetrySpec`, for the `expired` run only, assumes strong fairness of more than
any host does - every thread refreshes and asks for the desktop again and
again - so that its counterexample does not rest on threads that stop.
`FairSpec` of `SidecarClient` makes the threads of the host go on and lets the
sidecar hang. `CallsReturn` excuses a client that is marked dead while its
process lives (`GivenUp`): after an undecodable response the process is not
killed, and a writer blocked on its full pipe has no deadline. And it excuses a
frame that jams for ever while nobody waits for an answer (`Jammed`): the sidecar
serves nothing and does not read on, and the deadline that would end it belongs
to no one. As soon as one call has been written, its deadline frees the others.

`Spec` of `McpServer` is weak fairness of `Serve`: the one thread of the server
goes on once it has a call, because every broker call returns - which is
`CallsReturn` of `SidecarClient`, whose exceptions are inherited: a server whose
call is stuck in a write answers nothing more, and `EveryCallAnswered` does not
speak of it. Nothing is
assumed of clients or of the environment.

`client`, `mcp_batch` and `runtime` run without deadlock checking: calls,
processes, requests, captures and generations are bounded, the server stops at
the end of its input, and the system comes to rest when all are used up.

**Mutants.** Each property of a passing run is broken by a plausible bug in a
mapped definition: a restart that is not noticed (`LostWhenDown`), a duplicate
that is not looked for (`ReserveAgain`), a failed RPC that frees its request
(`FinishForgets`), a session registered under the old generation
(`RegisterEarly`), a gate not awaited or not given back, events without a
source that are not counted, baselines that survive a conflict, an entry that
survives its timeout, a client marked dead with its process left alone, an
answer written before the request is handled; an
early return that keeps the lease, a frame kept across a change of foreground,
a batch that goes on after a refused action; references or cache entries that
survive their generation, an unreadable outcome told as a missing capability,
a fallback aimed without a lookup; a replay window that forgets too early,
window ids that are issued anew or shared, bytes that are not given back, a
prefix of a batch that is not released. They
stand before the definition they change and are used by no specification.

## What is proved

TLAPS proves, for every set of threads, owners, requests, sessions and
callers, every limit of a store or a window, and every bound, all invariants and
action properties of the passing runs, and both refinements:

| module | theorems |
|---|---|
| `Broker_proofs` | `Invariance`, `TypeCorrect`, `ExactlyOnceDispatch`, `DispatchRemembered`, `SessionsOfGeneration`, `SessionsNeverOlder`, `OneExecution`, `Refinement` |
| `InteractionGuard_proofs` | `GuardInvariance`, `OnlyUnheardShared`, `ConflictOnce` |
| `SidecarClient_proofs` | `ClientInvariance`, `NoLeak`, `NoLateAction` (assuming `Terminates`), `Promised` (the refinement, on every platform) |
| `McpServer_proofs` | `ServerInvariance`, `LeaseAlwaysReturned`, `AimedRight`, `FramesAreFresh`, `KeysReachOverlay`, `ServerTypes`, `SuccessComplete` |
| `SidecarServer_proofs` | `ServerInvariance`, `NoReplay`, `IdsHold`, `SessionsWork`, `CleanEnd`, `SideTypes` |
| `FrameStore_proofs` | `StoreInvariance`, `AnswersAreTrue`, `AccountInvariance`, `StoreAccounted`, `LoopsAlwaysEnd`, `FrameTypes` |
| `InputDispatch_proofs` | `InputInvariance`, `PressedIsTracked`, `InputTypes` |
| `Runtime_proofs` | Windows: `ExecutionInvariance`, `ReferencesHold`, `SpentStayDead`, `CacheIsCurrent`, `OneEffectOnly`, `RefusalsHarmless`, `FallbackAdmitted`, `GenerationReported`, `WindowsTypes`; macOS: `MacInvariance`, `MacSendsAdmitted`, `MacElements`, `MacReferencesHold`, `MacSpentStayDead`, `MacTypesHold`; the process: `PartsRun`, `WindowsPart`, `MacPart`, `BackendsSafe`, `RuntimeTypes`, `ProcessSafe` |

Each starts from an inductive invariant, proved to hold initially and to be
preserved action by action: `IInv` of the module where TLC checks it too, and
otherwise the one the proof module states first.

*Broker.* `ExactlyOnce` is not inductive: that the key at `reserved` was never
sent follows from the reservation having found it absent from `dispatched`
while its session was registered, so sent keys of registered sessions must be
in the table (`SentRemembered`). The table is emptied with the sessions, so a
forgotten session must not come back: sessions are registered by
`open_session` only, with an id that has no history (`OpeningFresh`), and ids
are never issued twice (`SidsIssued`). The session may be lost while a call
holds a reservation, which is why `ReservationHeld` speaks of registered
sessions only. `SessionsCurrent` needs that there are no sessions before the
first Ready status (`NoneBeforeReady`), since `sync_locked` takes generation 0
for "never seen". The refinement then maps every action to `Reserve`,
`Cancel`, `Write`, `Answer` or a stutter; `GateExclusive` gives that one call
at most is at `reserved` or `sent`. `SessionNotOlder` has an invariant of its
own, `Ages`: generations only grow, so the process of a session is not newer
than a status read after the session was created, however late it is applied.
It may be older: when the sidecar is replaced between `session.create` and the
status, the session carries the generation of a process that never created it.
That is in the model and excluded by no property; such a session fails at its
first use.

*InteractionGuard.* The verdict compares counters, the property speaks of
events; `BaseBehind` and `HeldBehind` connect them (`Told`): a channel with a
heard event since a baseline is ahead of it, counters never run behind a
baseline, and an event that was not heard is a side button or is followed by a
monitor without hooks. Once the hooks are off they stay off, so the last is
stable. What is proved is therefore `AloneAsHeard`, not that the desktop was
shared with nobody: that is false, as `guard_deaf` shows for the time after the
hooks, and as every press of a side button would. `BlamedBehind` carries
`FreshAfterConflict` through baselines that held gestures keep, except while
the cleanup of the conflict is under way.

*SidecarClient.* `OneDrains` says that one thread at most is between clearing
the flag and draining the map; `FreshMail` that nothing is sent to a call not
in the map yet; `Killed` that a reported timeout implies a dead process, which
gives `NoLateAction`. For `Promised`, `HandledOnce` follows a request on its
way: it is written once, is at one place of the pipe or with the sidecar, and
is nowhere on the way there once its answer is anywhere on the way back.
`OneOutcome` says that a call under way has no outcome, and none has two. Every
step of the client then is one step of `RemoteCalls` or a stutter; the reader,
the monitor, the pipes and the map are invisible in it.

*McpServer.* `LeaseInv` ties the lease to the session of the call, so that a
release gives back what an acquire took. `AimInv` says that a batch with a
pointer action has a frame of its own session or has lost that session, in
which case the broker refuses it. `StaleInv` and `OverlayInv` say how long a
frame may be older than the foreground, and that input stays global while an
overlay is open. For `SuccessComplete`, `DueInv` counts: the actions that are
due are the input actions of what is left of the batch, without the one just
performed.

*Windows.* Everything the caller holds or the cache remembers is of
the present generation or an earlier one (`HeldBehind`, `CacheBehind`). Every
step that changes the elements is then a `Renewed` step, after which no old
reference resolves and no old entry is fresh. `JobInv` says what the request
has done at each point of `execute_policy`; the fallback is reached only from
statuses that precede the call of a pattern. For `ReportedGenerationIsCurrent`,
`JobInv` keeps the reported generation equal to the present one as long as no look
has failed since. An answer after a failed last look reports the generation of an
earlier one, which is stale; `GenerationHolds` says of it that it claims no proof
and that no element is current, so whatever the caller does with it is refused.
*macOS* needs the two points where
the route is decided (`MacBefore`, `MacRoutes`), and shares the lemmas about the
store: each says what an operation of the store does, whoever calls it, so the
references of macOS hold for the same reason as those of Windows.

*SidecarServer.* The window holds the last ids handled, in order, and its set
is theirs. Two equal ids in the history were therefore far apart when the
second came (`FarApart`), ids in the window are distinct, and dropping the
oldest from the set drops no younger one.

*FrameStore.* The tombstones are those of the last frames that went
(`Graves`), ids are used once, and no frame is newer than the topology, nor of
another layout when of the same generation (`Behind`). For the accounts,
`AccountInv` says that both byte counts are the sums over the frames and that
the queue lists exactly those (`QueueOf`). A loop that found nothing to give up
would have an empty store, and the sum over that is 0, which no limit exceeds:
hence `LoopsAlwaysEnd`. That a sum changes by what a frame held is an induction
over finite sets, and that a queue without an id lists the other frames one
over its length (`SetInduction`, `NumberInduction`).

*InputDispatch.* Of a plan only one thing matters: whatever a batch leaves
down, the session notes, or a later batch lifts, also when one before it fails
(`PlanOK`). Every plan has this, and what is left of a plan after a step has it
again. `Accounted` says it of the inputs that are down now at a place: some
session remembers them, they are lost, or what is left of a plan that goes to
this place lifts them. A step sends events to one place; at the others it can
only make a session forget, and what is down there and forgotten is lost
(`OtherPlaces`). On macOS, which undoes nothing, this holds until a call fails.

*The process.* `MCRuntime` runs one part per behaviour while the others rest, so
a behaviour of it is one of each part (`PartsRun`, `WindowsPart`, `MacPart`):
every theorem about a part is one about the process.

Assumptions on the constants are those the modules name: sensitive requests
are requests, `Nil` is no value, bounds are naturals, agents are distinct.

Two notes on the method. Induction is used in the form that what holds for a
set when it holds for all its smaller subsets holds for every finite set, with
the property given as a set of sets: the library's induction theorems take the
property as an operator, which the provers cannot instantiate. Operators of the
models that proofs speak about are recursive functions or quantified
definitions, not recursive operators or folds.

## Only model-checked

`LocksReleased`, `CallsReturn` and `EveryCallAnswered`: liveness under fairness,
which this prover does not handle. The six runs that find a counterexample have
nothing to prove. That `Terminates` is needed for `NoLateAction` is what the run
`client_macos` shows.

## Not modelled

Left out for good: platform input, capture, Accessibility and UI Automation
calls (I/O, whose answers are free choices), window enumeration and matching,
the virtual cursor, the wording of errors, telemetry and audit records (they
feed nothing back), the macOS helper (a stateless tool), examples and fixtures.
The mapping of coordinates is arithmetic on floating point numbers, and the
classification of actions, sensitive fields and denied surfaces is a table over
names and texts: a choice in the models, covered by unit tests in the code.
Framing is the unit "frame" of a pipe. Poisoned locks end the program and are
not modelled. Handles are not reused by the system in `SidecarServer`, and the
tree behind a reference changes only with an observation. Known gaps that have
a hazard and no property say so in the `note` of the hazard.

## Plan

Done: the broker with the host service, the guard, the sidecar client, the MCP
server, the sidecar server with the runtime, the frame store, execution on both
platforms over the element store, and input dispatch; proofs of all their
invariants and action properties, of two refinements, and of the composition of
the sidecar process.

Left, in this order:

1. An abstract broker for one caller that `Broker` implements and `McpServer`
   uses, so that `Refresh` and `Admits` of the server are proved and not copied.
2. Compositions: `Broker` over `RemoteCalls`, so that exactly-once holds from
   the reservation to the performed action in one statement; `Broker` with
   `InteractionGuard`, the gate and the guard's calls in one system; processes
   that outlive their clients as the host service sees them.
3. Properties for the hazards that have none, above all the restart that is
   refused after the sessions were forgotten.
4. Operator modules for `risk_for` and for the mapping of coordinates between
   integer display rectangles, compared with reference definitions.
