------------------------------- MODULE Broker -------------------------------
(***************************************************************************)
(* ComputerExecutionBroker (alice-computer-use-broker/src/lib.rs) together *)
(* with the ComputerHostService it drives (sidecar-client/src/lib.rs).     *)
(*                                                                         *)
(* Several host threads ("tasks") call the broker.  A call is a sequence   *)
(* of critical sections; each critical section, each read of the host      *)
(* status and each RPC is one action, so everything that can happen        *)
(* between two of them does.  What is held over the whole of an execution  *)
(* is the action gate, and over one host operation the lifecycle gate; the *)
(* broker state lock is only held inside one action, and the lock of the   *)
(* host service too, except while it starts a process (Spawning).          *)
(*                                                                         *)
(* Abstracted: windows, capability probes, and the interaction guard (its  *)
(* own module) are a choice between going on and refusing; lease deadlines *)
(* are the event "the deadline passes"; `invalidated`, which only picks    *)
(* the code of a refusal, and telemetry are left out.                      *)
(***************************************************************************)
EXTENDS Naturals, FiniteSets

CONSTANTS
  Tasks,          \* host threads that call the broker
  Owners,         \* request owners (thread, turn and tool call)
  Requests,       \* request ids
  Sensitive,      \* requests whose risk needs an approval under the profile
  Nil,            \* "no task", "no reference", "no request"
  MaxGen,         \* bound: sidecar processes started
  MaxSid,         \* bound: logical sessions created
  MaxLease,       \* bound: desktop leases issued
  RestartLimit    \* crash restarts before the circuit opens (3 in the code)

ASSUME SensitiveAssumption == Sensitive \subseteq Requests
ASSUME NilAssumption == Nil \notin Tasks \union Requests
                        /\ Nil \notin [sid: Nat, gen: Nat, owner: Owners]
ASSUME BoundAssumption ==
  MaxGen \in Nat /\ MaxSid \in Nat /\ MaxLease \in Nat /\ RestartLimit \in Nat

VARIABLES
  \* --- ComputerHostService
  hostState,      \* ComputerHostServiceState
  hostGen,        \* generation: successful starts so far
  hostClient,     \* generation of the client held, 0 if none
  procs,          \* generations whose sidecar client is alive
  life,           \* task holding lifecycle_gate
  nextSid,        \* source of fresh session ids
  client,         \* ComputerHostSession.client: process of each session id
  \* --- BrokerState
  generation, sessions, lease, leaseExpired, nextLease, dispatched, restarts,
  \* --- approvals
  contexts,       \* approval_contexts: captured, not yet consumed
  approvals,      \* policy.granted_approvals
  \* --- tasks
  gate,           \* task holding action_gate
  pc,             \* where each task is
  snap,           \* host status it read: generation if Ready, else 0
  ref, req, held, \* session reference, request id and lease id of its call
  grant,          \* granted_approvals in the policy snapshot it cloned
  resumed,        \* whether it runs inside resume_after_approval
  \* --- history
  sent            \* requests whose execute_policy RPC was issued

hostVars  == <<hostState, hostGen, hostClient, procs>>
stateVars == <<generation, sessions, lease, leaseExpired, nextLease,
               dispatched, restarts>>
apprVars  == <<contexts, approvals>>
callVars  == <<ref, req, held, grant, resumed>>
sids == <<nextSid, client>>
vars == <<hostVars, life, sids, stateVars, apprVars, gate, pc, snap,
          callVars, sent>>

HostStates == {"Stopped", "Ready", "Crashed", "ProtocolMismatch"}
Ref     == [sid: 1..MaxSid, gen: 0..MaxGen, owner: Owners]
Lease   == [id: 1..MaxLease, ref: Ref]
Key     == [sid: 1..MaxSid, req: Requests]
Context == [ref: Ref, req: Requests]

\* Program points inside the action gate.
GatedPC == {"gated", "gateStatus", "gateSynced", "admitted", "probeStatus",
            "probeSynced", "probed", "reserved", "sent"}
\* Program points of open_session between session.create and registration.
OpeningPC == {"created", "openStatus"}
\* Program points inside ensure_started, on behalf of three operations.
StartingPC == {"openStart", "healthStart", "restartStart"}
\* Program points of the other RPCs under lifecycle_gate: session.create,
\* health, session.close, shutdown.
LifePC == {"starting", "asking", "hangingUp", "stopping"}
PC == GatedPC \union OpeningPC \union StartingPC \union LifePC \union
      {"idle", "healthy", "status", "synced", "closing", "closed",
       "restarting", "restartHost", "draining", "drained", "wantGate", "taken", "takenStatus",
       "takenSynced", "checked", "focusing", "revoking", "interrupted"}

KeyOf(t)  == [sid |-> ref[t].sid, req |-> req[t]]
HasSession(sid) == \E s \in sessions : s.sid = sid

Goto(t, there) == pc' = [pc EXCEPT ![t] = there]

\* The call of t returns: its locals are dropped.
Return(t) ==
  /\ Goto(t, "idle")
  /\ ref' = [ref EXCEPT ![t] = Nil]
  /\ req' = [req EXCEPT ![t] = Nil]
  /\ held' = [held EXCEPT ![t] = 0]
  /\ grant' = [grant EXCEPT ![t] = {}]
  /\ resumed' = [resumed EXCEPT ![t] = FALSE]

-----------------------------------------------------------------------------
(* The host service.                                                       *)

Status == IF hostState = "Ready" THEN hostGen ELSE 0

\* ensure_started holds the lock of the host service while it spawns a process
\* and shakes hands with it; whoever reads the status meanwhile waits.
Spawning(t) == pc[t] \in StartingPC /\ hostClient \notin procs
HostLocked == \E t \in Tasks : Spawning(t)

\* ComputerHostService::status: a dead client is noticed here and dropped.
HostStatus ==
  IF hostClient # 0 /\ hostClient \notin procs
    THEN /\ hostClient' = 0 /\ hostState' = "Crashed"
         /\ UNCHANGED <<hostGen, procs>>
    ELSE UNCHANGED hostVars

\* ensure_started, successful: the live client, or a new process.
HostStarted ==
  \/ hostClient \in procs /\ UNCHANGED hostVars
  \/ /\ hostClient \notin procs /\ hostState # "ProtocolMismatch"
     /\ hostGen < MaxGen
     /\ hostGen' = hostGen + 1 /\ hostClient' = hostGen + 1
     /\ procs' = procs \union {hostGen + 1}
     /\ hostState' = "Ready"

\* ensure_started, failed: missing binary, failed spawn or handshake.
HostNotStarted ==
  /\ hostClient \notin procs
  /\ hostClient' = 0
  /\ \/ hostState' = hostState /\ hostClient = 0
     \/ hostState # "ProtocolMismatch"
        /\ hostState' \in {"Crashed", "ProtocolMismatch"}
  /\ UNCHANGED <<hostGen, procs>>

\* A sidecar process dies, or its client marks it dead, at any moment.
ProcessDies ==
  /\ \E g \in procs : procs' = procs \ {g}
  /\ UNCHANGED <<hostState, hostGen, hostClient, life, sids, stateVars,
                 apprVars, gate, pc, snap, callVars, sent>>

\* Wall-clock time reaches expires_at_unix_ms of the current lease.
LeaseDeadline ==
  /\ lease # {} /\ ~leaseExpired
  /\ leaseExpired' = TRUE
  /\ UNCHANGED <<hostVars, life, sids, generation, sessions, lease,
                 nextLease, dispatched, restarts, apprVars, gate, pc, snap,
                 callVars, sent>>

-----------------------------------------------------------------------------
(* refresh_state: read the host status, later apply it to the state.       *)

\* A call reads the host status on its way into refresh_state, twice under
\* the action gate; open_session reads it before it registers.
ReadStatus(t) ==
  /\ ~HostLocked
  /\ \/ pc[t] \in {"idle", "healthy"} /\ Goto(t, "status")
     \/ pc[t] = "gated" /\ Goto(t, "gateStatus")
     \/ pc[t] = "admitted" /\ Goto(t, "probeStatus")
     \/ pc[t] = "taken" /\ Goto(t, "takenStatus")
     \/ pc[t] = "created" /\ Goto(t, "openStatus")
  /\ HostStatus
  /\ snap' = [snap EXCEPT ![t] = Status']
  /\ UNCHANGED <<life, sids, stateVars, apprVars, gate, callVars, sent>>

\* Mutant: a restarted sidecar is not noticed.
LostWhenDown(status) == status = 0

\* sync_locked forgets the sessions when the host is down or restarted...
Lost(status) == status = 0 \/ generation \notin {0, status}
Kept(status, S) == IF Lost(status) THEN {} ELSE S
\* ... but the lease only when it is down.
KeptLease(status) == IF status = 0 THEN {} ELSE lease
SyncedGeneration(status) == IF status = 0 THEN generation ELSE status

\* clear_approval_contexts: the contexts go and their approvals with them.
ClearContexts(C) ==
  /\ contexts' = contexts \ C
  /\ approvals' = approvals \ {c.req : c \in C}

Sync(t) ==
  /\ \/ pc[t] = "status" /\ Goto(t, "synced")
     \/ pc[t] = "gateStatus" /\ Goto(t, "gateSynced")
     \/ pc[t] = "probeStatus" /\ Goto(t, "probeSynced")
     \/ pc[t] = "takenStatus" /\ Goto(t, "takenSynced")
  /\ generation' = SyncedGeneration(snap[t])
  /\ sessions' = Kept(snap[t], sessions)
  /\ dispatched' = Kept(snap[t], dispatched)
  /\ lease' = KeptLease(snap[t])
  /\ leaseExpired' = (leaseExpired /\ lease' # {})
  /\ ClearContexts(contexts \ Kept(snap[t], contexts))
  /\ snap' = [snap EXCEPT ![t] = 0]
  /\ UNCHANGED <<hostVars, life, sids, nextLease, restarts, gate, callVars,
                 sent>>

\* validate_locked and validate_lease_locked.
ValidSession(r) ==
  /\ r.gen = generation
  /\ \E s \in sessions : s.sid = r.sid /\ s.owner = r.owner
ValidLease(r, id) ==
  /\ [id |-> id, ref |-> r] \in lease
  /\ ~leaseExpired

-----------------------------------------------------------------------------
(* Sessions.                                                               *)

\* host.open_session takes lifecycle_gate and calls ensure_started ...
OpenStart(t) ==
  /\ pc[t] = "idle" /\ life = Nil
  /\ life' = t /\ Goto(t, "openStart")
  /\ UNCHANGED <<hostVars, sids, stateVars, apprVars, gate, snap, callVars, sent>>

\* ... which returns: session.create or health follows, a restart is done,
\* and a failure ends any of the three.
Start(t) ==
  /\ pc[t] \in StartingPC
  /\ \/ /\ HostStarted
        /\ \/ pc[t] = "openStart" /\ Goto(t, "starting") /\ UNCHANGED life
           \/ pc[t] = "healthStart" /\ Goto(t, "asking") /\ UNCHANGED life
           \/ pc[t] = "restartStart" /\ Goto(t, "idle") /\ life' = Nil
     \/ HostNotStarted /\ Goto(t, "idle") /\ life' = Nil
  /\ UNCHANGED <<sids, stateVars, apprVars, gate, snap, callVars, sent>>

\* The second half of open_session: session.create on the client, release.
OpenCreate(t) ==
  /\ pc[t] = "starting"
  /\ life' = Nil
  /\ \/ /\ hostClient \in procs /\ nextSid <= MaxSid
        /\ \E o \in Owners :
             ref' = [ref EXCEPT ![t] = [sid |-> nextSid, gen |-> 0, owner |-> o]]
        /\ client' = [client EXCEPT ![nextSid] = hostClient]
        /\ nextSid' = nextSid + 1
        /\ Goto(t, "created")
     \/ Goto(t, "idle") /\ UNCHANGED <<sids, ref>>
  /\ UNCHANGED <<hostVars, stateVars, apprVars, gate, snap, req, held, grant,
                 resumed, sent>>

\* Mutant: the session is registered under the generation known before.
RegisterEarly(t) ==
  /\ pc[t] = "openStatus" /\ snap[t] # 0
  /\ generation' = snap[t]
  /\ sessions' = Kept(snap[t], sessions)
       \union {[sid |-> ref[t].sid, gen |-> generation, owner |-> ref[t].owner]}
  /\ dispatched' = Kept(snap[t], dispatched)
  /\ ClearContexts(contexts \ Kept(snap[t], contexts))
  /\ snap' = [snap EXCEPT ![t] = 0]
  /\ Return(t)
  /\ UNCHANGED <<lease, leaseExpired, nextLease, restarts, hostVars, life,
                 sids, gate, sent>>

\* open_session registers the session under the status it read.
Register(t) ==
  /\ pc[t] = "openStatus"
  /\ \/ snap[t] = 0 /\ UNCHANGED <<stateVars, apprVars>>
     \/ /\ snap[t] # 0
        /\ generation' = snap[t]
        /\ sessions' = Kept(snap[t], sessions)
             \union {[sid |-> ref[t].sid, gen |-> snap[t], owner |-> ref[t].owner]}
        /\ dispatched' = Kept(snap[t], dispatched)
        /\ ClearContexts(contexts \ Kept(snap[t], contexts))
        /\ UNCHANGED <<lease, leaseExpired, nextLease, restarts>>
  /\ snap' = [snap EXCEPT ![t] = 0]
  /\ Return(t)
  /\ UNCHANGED <<hostVars, life, sids, gate, sent>>

\* close_session, under the state lock.
CloseSession(t, r) ==
  /\ pc[t] = "synced" /\ ValidSession(r)
  /\ sessions' = {s \in sessions : s.sid # r.sid}
  /\ dispatched' = {k \in dispatched : k.sid # r.sid}
  /\ lease' = {l \in lease : l.ref.sid # r.sid}
  /\ leaseExpired' = (leaseExpired /\ lease' # {})
  /\ ref' = [ref EXCEPT ![t] = r]
  /\ Goto(t, "closing")
  /\ UNCHANGED <<hostVars, life, sids, generation, nextLease, restarts,
                 apprVars, gate, snap, req, held, grant, resumed, sent>>

\* ... later host.close_session under lifecycle_gate, if there is a client.
CloseFinish(t) ==
  /\ pc[t] = "closed" /\ life = Nil
  /\ \/ hostClient = 0 /\ Return(t) /\ UNCHANGED life
     \/ /\ hostClient # 0 /\ life' = t
        /\ Goto(t, "hangingUp") /\ UNCHANGED callVars
  /\ UNCHANGED <<hostVars, sids, stateVars, apprVars, gate, snap, sent>>

\* session.close has returned; a client that died over it is dropped.
HangUp(t) ==
  /\ pc[t] = "hangingUp"
  /\ HostStatus
  /\ life' = Nil
  /\ Return(t)
  /\ UNCHANGED <<sids, stateVars, apprVars, gate, snap, sent>>

\* Between the two, and likewise in Stop Turn, restart and shutdown, the
\* approval contexts go, under a lock of their own.
ForgetContexts(t) ==
  /\ \/ /\ pc[t] = "closing" /\ Goto(t, "closed")
        /\ ClearContexts({c \in contexts : c.ref.sid = ref[t].sid})
     \/ /\ \/ pc[t] = "interrupted" /\ Goto(t, "idle")
           \/ pc[t] = "restarting" /\ Goto(t, "restartHost")
           \/ pc[t] = "draining" /\ Goto(t, "drained")
        /\ ClearContexts(contexts)
  /\ UNCHANGED <<hostVars, life, sids, stateVars, gate, snap, callVars, sent>>

\* A refreshed call that changes no broker state, or is refused: status,
\* observe and the other reads, prepare_execution_batch, bad references.
EndCall(t) ==
  /\ pc[t] = "synced"
  /\ Goto(t, "idle")
  /\ UNCHANGED <<hostVars, life, sids, stateVars, apprVars, gate, snap,
                 callVars, sent>>

\* health starts the sidecar if need be and, if that answers, refreshes.
Health(t) ==
  /\ pc[t] = "idle" /\ life = Nil
  /\ life' = t /\ Goto(t, "healthStart")
  /\ UNCHANGED <<hostVars, sids, stateVars, apprVars, gate, snap, callVars, sent>>

Healthy(t) ==
  /\ pc[t] = "asking"
  /\ life' = Nil
  /\ Goto(t, "healthy") \/ Goto(t, "idle")
  /\ UNCHANGED <<hostVars, sids, stateVars, apprVars, gate, snap, callVars, sent>>

-----------------------------------------------------------------------------
(* Desktop leases.                                                         *)

\* acquire_desktop_lease, free desktop.  The holder gets its lease back and
\* anyone else DesktopBusy without a state change: both are EndCall.
AcquireLease(t, r) ==
  /\ pc[t] = "synced" /\ ValidSession(r)
  /\ lease = {} /\ nextLease <= MaxLease
  /\ lease' = {[id |-> nextLease, ref |-> r]}
  /\ leaseExpired' = FALSE
  /\ nextLease' = nextLease + 1
  /\ Goto(t, "idle")
  /\ UNCHANGED <<hostVars, life, sids, generation, sessions, dispatched,
                 restarts, apprVars, gate, snap, callVars, sent>>

\* release_desktop_lease compares the lease id only.
ReleaseLease(t, l) ==
  /\ pc[t] = "synced" /\ l \in lease
  /\ lease' = {} /\ leaseExpired' = FALSE
  /\ Goto(t, "idle")
  /\ UNCHANGED <<hostVars, life, sids, generation, sessions, nextLease,
                 dispatched, restarts, apprVars, gate, snap, callVars, sent>>

\* reset_after_interrupt (Stop Turn) does not wait for the action gate: the
\* lease goes under the state lock, then the contexts.
ResetAfterInterrupt(t) ==
  /\ pc[t] = "idle"
  /\ lease' = {} /\ leaseExpired' = FALSE
  /\ Goto(t, "interrupted")
  /\ UNCHANGED <<hostVars, life, sids, generation, sessions, nextLease,
                 dispatched, restarts, apprVars, gate, snap, callVars, sent>>

-----------------------------------------------------------------------------
(* Execution.                                                              *)

\* execute: the policy is cloned before the gate is taken.
CallExecute(t) ==
  /\ pc[t] = "idle"
  /\ grant' = [grant EXCEPT ![t] = approvals]
  /\ Goto(t, "wantGate")
  /\ UNCHANGED <<hostVars, life, sids, stateVars, apprVars, gate, snap, ref,
                 req, held, resumed, sent>>

\* Mutant: the gate is entered without waiting.
EnterGate(t) ==
  /\ pc[t] = "wantGate"
  /\ gate' = t
  /\ Goto(t, "gated")
  /\ UNCHANGED <<hostVars, life, sids, stateVars, apprVars, snap, callVars,
                 sent>>

LockGate(t) ==
  /\ pc[t] = "wantGate" /\ gate = Nil
  /\ gate' = t
  /\ Goto(t, "gated")
  /\ UNCHANGED <<hostVars, life, sids, stateVars, apprVars, snap, callVars,
                 sent>>

\* Session and lease are validated; a resumed call is bound to its context.
Admit(t, r, id, q) ==
  /\ pc[t] = "gateSynced"
  /\ ValidSession(r) /\ ValidLease(r, id)
  /\ resumed[t] => r = ref[t] /\ q = req[t]
  /\ ref' = [ref EXCEPT ![t] = r]
  /\ req' = [req EXCEPT ![t] = q]
  /\ held' = [held EXCEPT ![t] = id]
  /\ Goto(t, "admitted")
  /\ UNCHANGED <<hostVars, life, sids, stateVars, apprVars, gate, snap,
                 grant, resumed, sent>>

\* The execution ends and the gate opens; a resume has a step left.
EndExecute(t) ==
  /\ gate' = Nil
  /\ \/ ~resumed[t] /\ Return(t)
     \/ resumed[t] /\ Goto(t, "revoking") /\ UNCHANGED callVars
  /\ UNCHANGED <<hostVars, life, sids, apprVars, snap>>

\* Bad reference, interaction conflict, missing window, capability, policy.
Refuse(t) ==
  /\ pc[t] \in {"gateSynced", "admitted", "probeSynced", "probed"}
  /\ EndExecute(t)
  /\ UNCHANGED <<stateVars, sent>>

\* capability_probe goes through with_session: it refreshes and validates.
ProbeDone(t) ==
  /\ pc[t] = "probeSynced" /\ ValidSession(ref[t])
  /\ Goto(t, "probed")
  /\ UNCHANGED <<hostVars, life, sids, stateVars, apprVars, gate, snap,
                 callVars, sent>>

NeedsApproval(t) == req[t] \in Sensitive \ grant[t]

\* ApprovalRequired: the context of the request is captured under its id.
AskApproval(t) ==   \* never on a resume, whose snapshot grants its request
  /\ pc[t] \in {"admitted", "probed"} /\ NeedsApproval(t)
  /\ contexts' = {c \in contexts : c.req # req[t]}
                   \union {[ref |-> ref[t], req |-> req[t]]}
  /\ gate' = Nil
  /\ Return(t)
  /\ UNCHANGED <<hostVars, life, sids, stateVars, approvals, snap, sent>>

\* Mutant: the reservation does not look whether the request is a duplicate.
ReserveAgain(t) ==
  /\ pc[t] \in {"admitted", "probed"} /\ ~NeedsApproval(t)
  /\ ValidSession(ref[t]) /\ ValidLease(ref[t], held[t])
  /\ dispatched' = dispatched \union {KeyOf(t)}
  /\ Goto(t, "reserved")
  /\ UNCHANGED <<hostVars, life, sids, generation, sessions, lease,
                 leaseExpired, nextLease, restarts, apprVars, gate, snap,
                 callVars, sent>>

\* Exactly-once reservation, with session and lease validated again.
Reserve(t) ==
  /\ pc[t] \in {"admitted", "probed"} /\ ~NeedsApproval(t)
  /\ ValidSession(ref[t]) /\ ValidLease(ref[t], held[t])
  /\ KeyOf(t) \notin dispatched
  /\ dispatched' = dispatched \union {KeyOf(t)}
  /\ Goto(t, "reserved")
  /\ UNCHANGED <<hostVars, life, sids, generation, sessions, lease,
                 leaseExpired, nextLease, restarts, apprVars, gate, snap,
                 callVars, sent>>

\* Final window list, batch identity or preflight failed: reservation undone.
CancelReservation(t) ==
  /\ pc[t] = "reserved"
  /\ dispatched' = dispatched \ {KeyOf(t)}
  /\ EndExecute(t)
  /\ UNCHANGED <<generation, sessions, lease, leaseExpired, nextLease,
                 restarts, sent>>

\* session.execute_policy: the request leaves for the sidecar.
Dispatch(t) ==
  /\ pc[t] = "reserved"
  /\ sent' = sent \union {KeyOf(t)}
  /\ Goto(t, "sent")
  /\ UNCHANGED <<hostVars, life, sids, stateVars, apprVars, gate, snap,
                 callVars>>

\* Mutant: a failed RPC frees the request for a retry.
FinishForgets(t) ==
  /\ pc[t] = "sent"
  /\ dispatched' \in {dispatched, dispatched \ {KeyOf(t)}}
  /\ EndExecute(t)
  /\ UNCHANGED <<generation, sessions, lease, leaseExpired, nextLease,
                 restarts, sent>>

\* The RPC returned, timed out or failed: the reservation stays.
FinishExecute(t) ==
  /\ pc[t] = "sent"
  /\ EndExecute(t)
  /\ UNCHANGED <<stateVars, sent>>

-----------------------------------------------------------------------------
(* Approvals.                                                              *)

\* record_approval and discard_approval_context, called by the host.
RecordApproval(q) ==   \* of no effect on requests that need none
  /\ q \in Sensitive
  /\ approvals' = approvals \union {q}
  /\ UNCHANGED <<hostVars, life, sids, stateVars, contexts, gate, pc, snap,
                 callVars, sent>>

DiscardContext(q) ==
  /\ contexts' = {c \in contexts : c.req # q}
  /\ approvals' = approvals \ {q}
  /\ UNCHANGED <<hostVars, life, sids, stateVars, gate, pc, snap, callVars,
                 sent>>

\* resume_after_approval consumes the context first; a request that does not
\* match it is refused with the context already gone.
TakeContext(t, c) ==
  /\ pc[t] = "idle" /\ c \in contexts
  /\ contexts' = contexts \ {c}
  /\ \/ /\ ref' = [ref EXCEPT ![t] = c.ref]
        /\ req' = [req EXCEPT ![t] = c.req]
        /\ resumed' = [resumed EXCEPT ![t] = TRUE]
        /\ Goto(t, "taken")
     \/ UNCHANGED <<ref, req, resumed, pc>>
  /\ UNCHANGED <<hostVars, life, sids, stateVars, approvals, gate, snap,
                 held, grant, sent>>

\* The session must still be valid; windows and identity are probed.
CheckResume(t) ==
  /\ pc[t] = "takenSynced" /\ ValidSession(ref[t])
  /\ Goto(t, "checked")
  /\ UNCHANGED <<hostVars, life, sids, stateVars, apprVars, gate, snap,
                 callVars, sent>>

\* A resume that fails before execution returns without revoking.
RefuseResume(t) ==
  /\ pc[t] \in {"takenSynced", "checked", "focusing"}
  /\ Return(t)
  /\ UNCHANGED <<hostVars, life, sids, stateVars, apprVars, gate, snap, sent>>

\* restore_approved_target_focus: a FocusWindow RPC, outside the gate.
RestoreFocus(t) ==
  /\ pc[t] = "checked"
  /\ Goto(t, "focusing")
  /\ UNCHANGED <<hostVars, life, sids, stateVars, apprVars, gate, snap,
                 callVars, sent>>

\* The policy snapshot of the resumed execution grants the approved request.
ResumeExecute(t) ==
  /\ pc[t] \in {"checked", "focusing"}
  /\ grant' = [grant EXCEPT ![t] = approvals \union {req[t]}]
  /\ Goto(t, "wantGate")
  /\ UNCHANGED <<hostVars, life, sids, stateVars, apprVars, gate, snap, ref,
                 req, held, resumed, sent>>

\* ... and the approval is revoked once the execution has returned.
Revoke(t) ==
  /\ pc[t] = "revoking"
  /\ approvals' = approvals \ {req[t]}
  /\ Return(t)
  /\ UNCHANGED <<hostVars, life, sids, stateVars, contexts, gate, snap, sent>>

-----------------------------------------------------------------------------
(* Restart and shutdown.                                                   *)

\* Mutant: the circuit opens one restart late.
CircuitOpenLate == restarts > RestartLimit

\* The circuit breaker of restart_after_crash.
CircuitOpen == restarts >= RestartLimit

\* restart_after_crash, under the state lock, after reading the status.
RestartBegin(t) ==
  /\ pc[t] = "status"
  /\ snap' = [snap EXCEPT ![t] = 0]
  /\ \/ /\ CircuitOpen
        /\ Goto(t, "idle")
        /\ UNCHANGED <<stateVars, apprVars>>
     \/ /\ ~CircuitOpen
        /\ restarts' = restarts + 1
        /\ generation' = SyncedGeneration(snap[t])
        /\ sessions' = {} /\ dispatched' = {}
        /\ lease' = {} /\ leaseExpired' = FALSE
        /\ ClearContexts(contexts \ Kept(snap[t], contexts))
        /\ Goto(t, "restarting")
        /\ UNCHANGED nextLease
  /\ UNCHANGED <<hostVars, life, sids, gate, callVars, sent>>

\* ... later host.restart_after_crash: refused when Ready or mismatched.
RestartHost(t) ==
  /\ pc[t] = "restartHost" /\ life = Nil
  /\ HostStatus
  /\ \/ hostState' \in {"Ready", "ProtocolMismatch"} /\ Goto(t, "idle") /\ UNCHANGED life
     \/ hostState' \in {"Stopped", "Crashed"} /\ life' = t /\ Goto(t, "restartStart")
  /\ UNCHANGED <<sids, stateVars, apprVars, gate, snap, callVars, sent>>

\* shutdown: broker state first; crash_restart_count and generation stay.
Shutdown(t) ==
  /\ pc[t] = "idle"
  /\ lease' = {} /\ leaseExpired' = FALSE
  /\ dispatched' = {} /\ sessions' = {}
  /\ Goto(t, "draining")
  /\ UNCHANGED <<hostVars, life, sids, generation, nextLease, restarts,
                 apprVars, gate, snap, callVars, sent>>

\* ... later the sessions are closed and host.shutdown takes the client.
ShutdownHost(t) ==
  /\ pc[t] = "drained" /\ life = Nil
  /\ hostClient' = 0
  /\ \/ /\ hostClient \notin procs
        /\ hostState' = "Stopped" /\ Goto(t, "idle") /\ UNCHANGED life
     \/ /\ hostClient \in procs
        /\ life' = t /\ Goto(t, "stopping") /\ UNCHANGED hostState
  /\ UNCHANGED <<hostGen, procs, sids, stateVars, apprVars, gate, snap,
                 callVars, sent>>

\* Mutant: a failed shutdown keeps lifecycle_gate.
ShutdownKeepsGate(t) ==
  /\ pc[t] = "stopping"
  /\ \/ procs' = procs \ {hostGen} /\ hostState' = "Stopped" /\ life' = Nil
     \/ hostState' = "Crashed" /\ UNCHANGED <<procs, life>>
  /\ Goto(t, "idle")
  /\ UNCHANGED <<hostGen, hostClient, sids, stateVars, apprVars, gate, snap,
                 callVars, sent>>

\* The shutdown RPC ends the process, or fails: terminate may fail as well.
ShutdownDone(t) ==
  /\ pc[t] = "stopping"
  /\ \/ procs' = procs \ {hostGen} /\ hostState' = "Stopped"
     \/ procs' \in {procs, procs \ {hostGen}} /\ hostState' = "Crashed"
  /\ life' = Nil
  /\ Goto(t, "idle")
  /\ UNCHANGED <<hostGen, hostClient, sids, stateVars, apprVars, gate, snap,
                 callVars, sent>>

-----------------------------------------------------------------------------
Init ==
  /\ hostState = "Stopped" /\ hostGen = 0 /\ hostClient = 0 /\ procs = {}
  /\ life = Nil /\ nextSid = 1 /\ client = [s \in 1..MaxSid |-> 0]
  /\ generation = 0 /\ sessions = {} /\ dispatched = {} /\ restarts = 0
  /\ lease = {} /\ leaseExpired = FALSE /\ nextLease = 1
  /\ contexts = {} /\ approvals = {}
  /\ gate = Nil
  /\ pc = [t \in Tasks |-> "idle"]
  /\ snap = [t \in Tasks |-> 0]
  /\ ref = [t \in Tasks |-> Nil]
  /\ req = [t \in Tasks |-> Nil]
  /\ held = [t \in Tasks |-> 0]
  /\ grant = [t \in Tasks |-> {}]
  /\ resumed = [t \in Tasks |-> FALSE]
  /\ sent = {}

\* Steps that begin a call, at the caller's discretion.
Call(t) ==
  \/ pc[t] = "idle" /\ ReadStatus(t)
  \/ OpenStart(t) \/ Health(t) \/ CallExecute(t) \/ Shutdown(t)
  \/ ResetAfterInterrupt(t)
  \/ \E c \in contexts : TakeContext(t, c)

\* Steps of a call under way.
Refresh(t) == (pc[t] # "idle" /\ ReadStatus(t)) \/ Sync(t)
SessionStep(t) ==
  \/ Start(t) \/ OpenCreate(t) \/ Register(t) \/ Healthy(t)
  \/ CloseFinish(t) \/ HangUp(t) \/ EndCall(t)
  \/ \E r \in sessions : CloseSession(t, r) \/ AcquireLease(t, r)
  \/ \E l \in lease : ReleaseLease(t, l)
ExecuteStep(t) ==
  \/ LockGate(t) \/ Refuse(t) \/ ProbeDone(t) \/ AskApproval(t)
  \/ Reserve(t) \/ CancelReservation(t) \/ Dispatch(t) \/ FinishExecute(t)
  \/ \E l \in lease, q \in Requests : Admit(t, l.ref, l.id, q)
ResumeStep(t) ==
  \/ CheckResume(t) \/ RefuseResume(t) \/ RestoreFocus(t)
  \/ ResumeExecute(t) \/ Revoke(t)
LifecycleStep(t) ==
  \/ RestartBegin(t) \/ RestartHost(t) \/ ShutdownHost(t) \/ ShutdownDone(t)
  \/ ForgetContexts(t)
Continue(t) ==
  Refresh(t) \/ SessionStep(t) \/ ExecuteStep(t) \/ ResumeStep(t)
    \/ LifecycleStep(t)

Environment ==
  \/ ProcessDies \/ LeaseDeadline
  \/ \E q \in Requests : RecordApproval(q) \/ DiscardContext(q)

Next == (\E t \in Tasks : Call(t) \/ Continue(t)) \/ Environment

Spec == Init /\ [][Next]_vars

\* A thread that may be inside an RPC to the sidecar: a start, a request of a
\* host operation, or a request of a call (windows, probe, action, clean-up of
\* the pressed input; observations and focus outside the gate).
InRpc(t) ==
  \/ Spawning(t) \/ pc[t] \in LifePC
  \/ pc[t] \in {"gateSynced", "admitted", "probeSynced", "probed", "reserved",
               "sent", "synced", "takenSynced", "checked", "focusing"}

\* A thread that has made a call goes on with it, except inside an RPC: the
\* answer is awaited with a deadline, but the write of the request has none.
FairSpec == Spec /\ \A t \in Tasks : WF_vars(~InRpc(t) /\ Continue(t))

-----------------------------------------------------------------------------
(* Properties.                                                             *)

HostTypeOK ==
  /\ hostState \in HostStates /\ hostGen \in 0..MaxGen
  /\ hostClient \in 0..MaxGen /\ procs \subseteq 1..MaxGen
  /\ life \in Tasks \union {Nil}
  /\ nextSid \in 1..(MaxSid + 1)
  /\ client \in [1..MaxSid -> 0..MaxGen]
StateTypeOK ==
  /\ generation \in 0..MaxGen /\ restarts \in 0..RestartLimit
  /\ sessions \subseteq Ref /\ lease \subseteq Lease
  /\ leaseExpired \in BOOLEAN /\ nextLease \in 1..(MaxLease + 1)
  /\ dispatched \subseteq Key
  /\ contexts \subseteq Context /\ approvals \subseteq Requests
TaskTypeOK ==
  /\ gate \in Tasks \union {Nil}
  /\ pc \in [Tasks -> PC] /\ snap \in [Tasks -> 0..MaxGen]
  /\ ref \in [Tasks -> Ref \union {Nil}]
  /\ req \in [Tasks -> Requests \union {Nil}]
  /\ held \in [Tasks -> 0..MaxLease]
  /\ grant \in [Tasks -> SUBSET Requests]
  /\ resumed \in [Tasks -> BOOLEAN]
  /\ sent \subseteq Key

\* Every variable has its type: the shape of the host service, of BrokerState
\* with the approvals, and of the calls under way.
TypeOK == HostTypeOK /\ StateTypeOK /\ TaskTypeOK

\* Exactly-once dispatch: an action about to be sent was never sent before,
\* whatever restarts, closes, cancellations and resumes happened since.
ExactlyOnce == \A t \in Tasks : pc[t] = "reserved" => KeyOf(t) \notin sent

\* A stale status applied late never mixes two generations: every registered
\* session carries the generation the broker believes in, and no two of them
\* share an id.
SessionsCurrent ==
  /\ \A s \in sessions : s.gen = generation
  /\ \A s1, s2 \in sessions : s1.sid = s2.sid => s1 = s2

\* A sent action stays in the exactly-once table while its session can be
\* used: no cancel, sync, close, restart or late registration forgets it.
SentRemembered ==
  \A k \in sent : HasSession(k.sid) => k \in dispatched

\* One execution at a time: the action gate is held exactly from LockGate to
\* the return of the call, on every error path.
GateExclusive == \A t \in Tasks : pc[t] \in GatedPC <=> gate = t

\* The status of open_session is read after the session was created: however
\* late it is applied, a session is never registered under a generation older
\* than the process it lives in.
SessionNotOlder == \A s \in sessions : client[s.sid] <= s.gen

\* README, "Require host-owned leases and approval policy before dispatching
\* input": the focus input of a resume goes out under a lease of its session.
FocusUnderLease ==
  \A t \in Tasks : pc[t] = "focusing" => \E l \in lease : l.ref = ref[t]

\* The locks held across RPCs, action_gate and lifecycle_gate, are given back
\* on every path, and no two calls wait on each other for ever: a thread keeps
\* one only if it never returns from an RPC, or if, inside the action gate, it
\* reads the status of a host service whose lock others keep, or take again and
\* again, to start sidecars.
NeverBack(t) == <>[]InRpc(t) \/ \E u \in Tasks : []<>Spawning(u)
LocksReleased ==
  \A t \in Tasks :
    /\ []<>(gate # t) \/ NeverBack(t)
    /\ []<>(life # t) \/ <>[]InRpc(t)

\* "Leases are intentionally short-lived; callers acquire one per action":
\* when every thread keeps refreshing and asks for the desktop whenever it
\* could have it, an expired lease does not keep the desktop.
RetrySpec ==
  /\ Spec
  /\ \A t \in Tasks :
       /\ SF_vars(Continue(t))
       /\ SF_vars(pc[t] = "idle" /\ ReadStatus(t))
       /\ SF_vars(pc[t] = "status" /\ Sync(t))
       /\ SF_vars(\E r \in sessions : AcquireLease(t, r))
ExpiredLeaseGoes == leaseExpired /\ nextLease <= MaxLease ~> ~leaseExpired

-----------------------------------------------------------------------------
(* The broker implements DesktopWriter.                                    *)

Writer == INSTANCE DesktopWriter WITH
  Actions  <- Key,
  reserved <- {KeyOf(t) : t \in {u \in Tasks : pc[u] = "reserved"}},
  writing  <- {KeyOf(t) : t \in {u \in Tasks : pc[u] = "sent"}},
  written  <- sent

\* Refinement: actions are reserved and written one at a time, each at most
\* once, as execute_with_policy_bound promises.
WriterSpec == Writer!Spec

-----------------------------------------------------------------------------
(* The inductive invariant behind the safety properties.                   *)

Opening(t) == pc[t] \in OpeningPC

\* A call past validation, or resuming, knows its session and its request.
BoundPC == {"admitted", "probeStatus", "probeSynced", "probed", "reserved",
            "sent", "taken", "takenStatus", "takenSynced", "checked",
            "focusing", "revoking"}
CallTyped ==
  \A t \in Tasks :
    /\ pc[t] \in BoundPC \union OpeningPC \union {"closing", "closed"} => ref[t] \in Ref
    /\ pc[t] \in BoundPC => req[t] \in Requests
    /\ resumed[t] => ref[t] \in Ref /\ req[t] \in Requests

\* There are no sessions before the broker has seen a Ready sidecar.
NoneBeforeReady == generation = 0 => sessions = {}

\* Session ids in use were all issued.
SidsIssued ==
  /\ \A s \in sessions : s.sid < nextSid
  /\ \A k \in sent \union dispatched : k.sid < nextSid
  /\ \A t \in Tasks : pc[t] = "reserved" \/ Opening(t) => ref[t].sid < nextSid

\* A session id not registered yet has no history.
OpeningFresh ==
  \A t \in Tasks : Opening(t) =>
    /\ ~HasSession(ref[t].sid)
    /\ \A k \in sent \union dispatched : k.sid # ref[t].sid
    /\ \A u \in Tasks \ {t} : Opening(u) \/ pc[u] = "reserved"
         => ref[u].sid # ref[t].sid

\* A reservation is in the table as long as its session is usable.
ReservationHeld ==
  \A t \in Tasks : pc[t] = "reserved" /\ HasSession(ref[t].sid)
    => KeyOf(t) \in dispatched

Tracked ==
  /\ SessionsCurrent /\ NoneBeforeReady /\ SidsIssued /\ OpeningFresh
  /\ ReservationHeld /\ SentRemembered /\ ExactlyOnce

IInv == TypeOK /\ CallTyped /\ GateExclusive /\ Tracked
=============================================================================
