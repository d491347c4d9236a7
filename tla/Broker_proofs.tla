--------------------------- MODULE Broker_proofs ---------------------------
(***************************************************************************)
(* Proofs about Broker, for every set of threads, owners and requests and  *)
(* every bound: type correctness, exactly-once dispatch with the invariant *)
(* it rests on, and the refinement of DesktopWriter.                       *)
(***************************************************************************)
EXTENDS Broker, TLAPS

-----------------------------------------------------------------------------
(* Types: the operators the actions are built from.                        *)

\* "None" is a generation, a lease id.
LEMMA ZeroTyped == 0 \in 0..MaxGen /\ 0 \in 0..MaxLease
BY BoundAssumption

\* A move to another program point keeps the program counters typed.
LEMMA GotoTyped ==
  ASSUME pc \in [Tasks -> PC], NEW t, NEW p \in PC, Goto(t, p)
  PROVE  pc' \in [Tasks -> PC]
BY DEF Goto

\* A return keeps the locals of every call typed.
LEMMA ReturnTyped ==
  ASSUME TaskTypeOK, NEW t, Return(t)
  PROVE  /\ pc' \in [Tasks -> PC]
         /\ ref' \in [Tasks -> Ref \union {Nil}]
         /\ req' \in [Tasks -> Requests \union {Nil}]
         /\ held' \in [Tasks -> 0..MaxLease]
         /\ grant' \in [Tasks -> SUBSET Requests]
         /\ resumed' \in [Tasks -> BOOLEAN]
<1>1. pc' \in [Tasks -> PC]
  BY DEF TaskTypeOK, Return, Goto, PC
<1>2. held' \in [Tasks -> 0..MaxLease]
  BY ZeroTyped DEF TaskTypeOK, Return
<1>3. ref' \in [Tasks -> Ref \union {Nil}] /\ req' \in [Tasks -> Requests \union {Nil}]
  BY DEF TaskTypeOK, Return
<1>4. grant' \in [Tasks -> SUBSET Requests] /\ resumed' \in [Tasks -> BOOLEAN]
  BY DEF TaskTypeOK, Return
<1> QED BY <1>1, <1>2, <1>3, <1>4

\* The three outcomes of asking for the sidecar keep the host service typed.
LEMMA HostTyped ==
  ASSUME HostTypeOK, HostStatus \/ HostStarted \/ HostNotStarted
  PROVE  /\ hostState' \in HostStates /\ hostGen' \in 0..MaxGen
         /\ hostClient' \in 0..MaxGen /\ procs' \subseteq 1..MaxGen
<1>1. CASE HostStatus
  BY <1>1, ZeroTyped DEF HostTypeOK, HostStatus, HostStates, hostVars
<1>2. CASE HostStarted
  <2>1. CASE UNCHANGED hostVars
    BY <2>1 DEF HostTypeOK, hostVars
  <2>2. CASE hostGen < MaxGen /\ hostGen' = hostGen + 1 /\ hostClient' = hostGen + 1
             /\ procs' = procs \union {hostGen + 1} /\ hostState' = "Ready"
    <3>1. hostGen + 1 \in 1..MaxGen
      BY <2>2, BoundAssumption DEF HostTypeOK
    <3> QED BY <2>2, <3>1, BoundAssumption DEF HostTypeOK, HostStates
  <2> QED BY <1>2, <2>1, <2>2 DEF HostStarted
<1>3. CASE HostNotStarted
  BY <1>3, BoundAssumption DEF HostTypeOK, HostNotStarted, HostStates
<1> QED BY <1>1, <1>2, <1>3

\* Forgetting contexts keeps contexts and approvals typed.
LEMMA ClearTyped ==
  ASSUME StateTypeOK, NEW C, ClearContexts(C)
  PROVE  contexts' \subseteq Context /\ approvals' \subseteq Requests
BY DEF StateTypeOK, ClearContexts

\* The end of an execution keeps the calls typed.
LEMMA EndTyped ==
  ASSUME TaskTypeOK, NEW t, EndExecute(t), sent' = sent
  PROVE  TaskTypeOK'
<1>1. CASE Return(t)
  BY <1>1, ReturnTyped DEF TaskTypeOK, EndExecute
<1>2. CASE Goto(t, "revoking") /\ UNCHANGED callVars
  BY <1>2, GotoTyped DEF TaskTypeOK, EndExecute, callVars, PC
<1> QED BY <1>1, <1>2 DEF EndExecute
\* Every step keeps every variable in its type.
LEMMA TypeStep ==
  ASSUME TypeOK, CallTyped, [Next]_vars
  PROVE  TypeOK'
<1> USE DEF TypeOK
<1>1. ASSUME NEW t \in Tasks, ReadStatus(t) PROVE TypeOK'
  <2>1. HostTypeOK'
    BY <1>1, HostTyped DEF HostTypeOK, ReadStatus, hostVars, sids
  <2>2. StateTypeOK'
    BY <1>1 DEF StateTypeOK, ReadStatus, stateVars, apprVars
  <2>3. snap' \in [Tasks -> 0..MaxGen]
    <3>1. Status' \in 0..MaxGen
      BY <1>1, <2>1, ZeroTyped DEF HostTypeOK, Status
    <3> QED BY <1>1, <3>1 DEF TaskTypeOK, ReadStatus
  <2>4. pc' \in [Tasks -> PC]
    BY <1>1, GotoTyped DEF TaskTypeOK, ReadStatus, PC, GatedPC, OpeningPC
  <2>5. TaskTypeOK'
    BY <1>1, <2>3, <2>4 DEF TaskTypeOK, ReadStatus, callVars
  <2> QED BY <2>1, <2>2, <2>5
<1>2. ASSUME NEW t \in Tasks, Sync(t) PROVE TypeOK'
  <2>1. HostTypeOK'
    BY <1>2 DEF HostTypeOK, Sync, hostVars, sids
  <2>2. StateTypeOK'
    <3>1. generation' \in 0..MaxGen /\ sessions' \subseteq Ref
          /\ dispatched' \subseteq Key /\ lease' \subseteq Lease
      BY <1>2 DEF StateTypeOK, TaskTypeOK, Sync, SyncedGeneration, Kept, KeptLease
    <3>2. contexts' \subseteq Context /\ approvals' \subseteq Requests
      BY <1>2, ClearTyped DEF Sync
    <3>3. leaseExpired' \in BOOLEAN
      BY <1>2 DEF Sync
    <3> QED BY <1>2, <3>1, <3>2, <3>3 DEF StateTypeOK, Sync
  <2>3. TaskTypeOK'
    <3>1. snap' \in [Tasks -> 0..MaxGen]
      BY <1>2, ZeroTyped DEF TaskTypeOK, Sync
    <3>2. pc' \in [Tasks -> PC]
      BY <1>2, GotoTyped DEF TaskTypeOK, Sync, PC, GatedPC, OpeningPC
    <3> QED BY <1>2, <3>1, <3>2 DEF TaskTypeOK, Sync, callVars
  <2> QED BY <2>1, <2>2, <2>3
<1>3. ASSUME NEW t \in Tasks, OpenStart(t) PROVE TypeOK'
  <2>1. HostTypeOK'
    BY <1>3, HostTyped DEF HostTypeOK, OpenStart, hostVars, sids
  <2>2. StateTypeOK'
    BY <1>3 DEF StateTypeOK, OpenStart, stateVars, apprVars
  <2>3. TaskTypeOK'
    BY <1>3, GotoTyped DEF TaskTypeOK, OpenStart, callVars, PC, StartingPC, LifePC
  <2> QED BY <2>1, <2>2, <2>3
<1>4. ASSUME NEW t \in Tasks, OpenCreate(t) PROVE TypeOK'
  <2>1. HostTypeOK'
    <3>1. CASE UNCHANGED sids
      BY <1>4, <3>1 DEF HostTypeOK, OpenCreate, hostVars, sids
    <3>2. CASE /\ nextSid <= MaxSid /\ nextSid' = nextSid + 1
               /\ client' = [client EXCEPT ![nextSid] = hostClient]
      BY <1>4, <3>2, BoundAssumption DEF HostTypeOK, OpenCreate, hostVars
    <3> QED BY <1>4, <3>1, <3>2 DEF OpenCreate
  <2>2. StateTypeOK'
    BY <1>4 DEF StateTypeOK, OpenCreate, stateVars, apprVars
  <2>3. TaskTypeOK'
    <3>1. pc' \in [Tasks -> PC]
      BY <1>4, GotoTyped DEF TaskTypeOK, OpenCreate, PC, OpeningPC
    <3>2. ref' \in [Tasks -> Ref \union {Nil}]
      <4>1. CASE UNCHANGED ref
        BY <4>1 DEF TaskTypeOK
      <4>2. CASE nextSid <= MaxSid /\ \E o \in Owners :
                   ref' = [ref EXCEPT ![t] = [sid |-> nextSid, gen |-> 0, owner |-> o]]
        <5>1. nextSid \in 1..MaxSid
          BY <4>2, BoundAssumption DEF HostTypeOK
        <5>2. PICK o \in Owners :
                ref' = [ref EXCEPT ![t] = [sid |-> nextSid, gen |-> 0, owner |-> o]]
          BY <4>2
        <5>3. [sid |-> nextSid, gen |-> 0, owner |-> o] \in Ref
          BY <5>1, ZeroTyped DEF Ref
        <5> QED BY <5>2, <5>3 DEF TaskTypeOK
      <4> QED BY <1>4, <4>1, <4>2 DEF OpenCreate
    <3> QED BY <1>4, <3>1, <3>2 DEF TaskTypeOK, OpenCreate
  <2> QED BY <2>1, <2>2, <2>3
<1>5. ASSUME NEW t \in Tasks, Register(t) PROVE TypeOK'
  <2>1. HostTypeOK'
    BY <1>5 DEF HostTypeOK, Register, hostVars, sids
  <2>2. StateTypeOK'
    <3>1. CASE UNCHANGED <<stateVars, apprVars>>
      BY <3>1 DEF StateTypeOK, stateVars, apprVars
    <3>2. CASE snap[t] # 0 /\ ~UNCHANGED <<stateVars, apprVars>>
      <4>1. [sid |-> ref[t].sid, gen |-> snap[t], owner |-> ref[t].owner] \in Ref
        <5>1. ref[t] \in Ref
          BY <1>5 DEF CallTyped, OpeningPC, Register
        <5> QED BY <5>1 DEF Ref, TaskTypeOK
      <4>2. sessions' \subseteq Ref /\ dispatched' \subseteq Key
        BY <1>5, <3>2, <4>1 DEF StateTypeOK, Register, Kept
      <4>3. contexts' \subseteq Context /\ approvals' \subseteq Requests
        BY <1>5, <3>2, ClearTyped DEF Register
      <4> QED BY <1>5, <3>2, <4>2, <4>3 DEF StateTypeOK, TaskTypeOK, Register
    <3> QED BY <1>5, <3>1, <3>2 DEF Register
  <2>3. TaskTypeOK'
    <3>1. snap' \in [Tasks -> 0..MaxGen]
      BY <1>5, ZeroTyped DEF TaskTypeOK, Register
    <3> QED BY <1>5, <3>1, ReturnTyped DEF TaskTypeOK, Register
  <2> QED BY <2>1, <2>2, <2>3
<1>6. ASSUME NEW t \in Tasks, NEW r \in sessions, CloseSession(t, r) PROVE TypeOK'
  <2>1. HostTypeOK'
    BY <1>6 DEF HostTypeOK, CloseSession, hostVars, sids
  <2>2. StateTypeOK'
    BY <1>6 DEF StateTypeOK, CloseSession, stateVars, apprVars
  <2>3. TaskTypeOK'
    <3>1. pc' \in [Tasks -> PC]
      BY <1>6, GotoTyped DEF TaskTypeOK, CloseSession, PC
    <3>2. ref' \in [Tasks -> Ref \union {Nil}]
      BY <1>6 DEF StateTypeOK, TaskTypeOK, CloseSession
    <3> QED BY <1>6, <3>1, <3>2 DEF TaskTypeOK, CloseSession
  <2> QED BY <2>1, <2>2, <2>3
<1>7. ASSUME NEW t \in Tasks, CloseFinish(t) PROVE TypeOK'
  <2>1. HostTypeOK'
    BY <1>7, HostTyped DEF HostTypeOK, CloseFinish, hostVars, sids
  <2>2. StateTypeOK'
    BY <1>7 DEF StateTypeOK, CloseFinish, stateVars, apprVars
  <2>3. TaskTypeOK'
    <3>1. CASE Return(t)
      BY <1>7, <3>1, ReturnTyped DEF TaskTypeOK, CloseFinish
    <3>2. CASE Goto(t, "hangingUp") /\ UNCHANGED callVars
      BY <1>7, <3>2, GotoTyped DEF TaskTypeOK, CloseFinish, callVars, PC, LifePC
    <3> QED BY <1>7, <3>1, <3>2 DEF CloseFinish
  <2> QED BY <2>1, <2>2, <2>3
<1>8. ASSUME NEW t \in Tasks, EndCall(t) PROVE TypeOK'
  <2>1. HostTypeOK'
    BY <1>8 DEF HostTypeOK, EndCall, hostVars, sids
  <2>2. StateTypeOK'
    BY <1>8 DEF StateTypeOK, EndCall, stateVars, apprVars
  <2>3. TaskTypeOK'
    BY <1>8, GotoTyped DEF TaskTypeOK, EndCall, callVars, PC, GatedPC, OpeningPC
  <2> QED BY <2>1, <2>2, <2>3
<1>9. ASSUME NEW t \in Tasks, Health(t) PROVE TypeOK'
  <2>1. HostTypeOK'
    BY <1>9, HostTyped DEF HostTypeOK, Health, hostVars, sids
  <2>2. StateTypeOK'
    BY <1>9 DEF StateTypeOK, Health, stateVars, apprVars
  <2>3. TaskTypeOK'
    BY <1>9, GotoTyped DEF TaskTypeOK, Health, callVars, PC, StartingPC, LifePC
  <2> QED BY <2>1, <2>2, <2>3
<1>10. ASSUME NEW t \in Tasks, NEW r \in sessions, AcquireLease(t, r) PROVE TypeOK'
  <2>1. HostTypeOK'
    BY <1>10 DEF HostTypeOK, AcquireLease, hostVars, sids
  <2>2. StateTypeOK'
    <3>1. nextLease \in 1..MaxLease /\ nextLease + 1 \in 1..(MaxLease + 1)
      BY <1>10, BoundAssumption DEF StateTypeOK, AcquireLease
    <3>2. [id |-> nextLease, ref |-> r] \in Lease
      BY <3>1 DEF StateTypeOK, Lease
    <3> QED BY <1>10, <3>1, <3>2 DEF StateTypeOK, AcquireLease, apprVars
  <2>3. TaskTypeOK'
    BY <1>10, GotoTyped DEF TaskTypeOK, AcquireLease, callVars, PC, GatedPC, OpeningPC
  <2> QED BY <2>1, <2>2, <2>3
<1>11. ASSUME NEW t \in Tasks, NEW l \in lease, ReleaseLease(t, l) PROVE TypeOK'
  <2>1. HostTypeOK'
    BY <1>11 DEF HostTypeOK, ReleaseLease, hostVars, sids
  <2>2. StateTypeOK'
    BY <1>11 DEF StateTypeOK, ReleaseLease, stateVars, apprVars
  <2>3. TaskTypeOK'
    BY <1>11, GotoTyped DEF TaskTypeOK, ReleaseLease, callVars, PC, GatedPC, OpeningPC
  <2> QED BY <2>1, <2>2, <2>3
<1>12. ASSUME NEW t \in Tasks, ResetAfterInterrupt(t) \/ ForgetContexts(t) PROVE TypeOK'
  <2>1. HostTypeOK'
    BY <1>12 DEF HostTypeOK, ResetAfterInterrupt, ForgetContexts, hostVars, sids
  <2>2. StateTypeOK'
    <3>1. CASE ResetAfterInterrupt(t)
      BY <3>1 DEF StateTypeOK, ResetAfterInterrupt, apprVars
    <3>2. CASE ForgetContexts(t)
      BY <3>2, ClearTyped DEF StateTypeOK, ForgetContexts, stateVars
    <3> QED BY <1>12, <3>1, <3>2
  <2>3. TaskTypeOK'
    BY <1>12, GotoTyped DEF TaskTypeOK, ResetAfterInterrupt, ForgetContexts, callVars, PC
  <2> QED BY <2>1, <2>2, <2>3
<1>13. ASSUME NEW t \in Tasks, CallExecute(t) PROVE TypeOK'
  <2>1. HostTypeOK'
    BY <1>13 DEF HostTypeOK, CallExecute, hostVars, sids
  <2>2. StateTypeOK'
    BY <1>13 DEF StateTypeOK, CallExecute, stateVars, apprVars
  <2>3. TaskTypeOK'
    <3>1. grant' \in [Tasks -> SUBSET Requests]
      BY <1>13 DEF StateTypeOK, TaskTypeOK, CallExecute
    <3> QED BY <1>13, <3>1, GotoTyped DEF TaskTypeOK, CallExecute, PC
  <2> QED BY <2>1, <2>2, <2>3
<1>14. ASSUME NEW t \in Tasks, LockGate(t) PROVE TypeOK'
  <2>1. HostTypeOK'
    BY <1>14 DEF HostTypeOK, LockGate, hostVars, sids
  <2>2. StateTypeOK'
    BY <1>14 DEF StateTypeOK, LockGate, stateVars, apprVars
  <2>3. TaskTypeOK'
    BY <1>14, GotoTyped DEF TaskTypeOK, LockGate, callVars, PC, GatedPC, OpeningPC
  <2> QED BY <2>1, <2>2, <2>3
<1>15. ASSUME NEW t \in Tasks, NEW l \in lease, NEW q \in Requests, Admit(t, l.ref, l.id, q) PROVE TypeOK'
  <2>1. HostTypeOK'
    BY <1>15 DEF HostTypeOK, Admit, hostVars, sids
  <2>2. StateTypeOK'
    BY <1>15 DEF StateTypeOK, Admit, stateVars, apprVars
  <2>3. TaskTypeOK'
    <3>1. l.id \in 0..MaxLease /\ l.ref \in Ref
      BY BoundAssumption DEF StateTypeOK, Lease
    <3>2. pc' \in [Tasks -> PC]
      BY <1>15, GotoTyped DEF TaskTypeOK, Admit, PC, GatedPC
    <3>3. ref' \in [Tasks -> Ref \union {Nil}] /\ req' \in [Tasks -> Requests \union {Nil}]
      BY <1>15, <3>1 DEF TaskTypeOK, Admit
    <3>4. held' \in [Tasks -> 0..MaxLease]
      BY <1>15, <3>1 DEF TaskTypeOK, Admit
    <3> QED BY <1>15, <3>2, <3>3, <3>4 DEF TaskTypeOK, Admit
  <2> QED BY <2>1, <2>2, <2>3
<1>16. ASSUME NEW t \in Tasks, Refuse(t) PROVE TypeOK'
  <2>1. HostTypeOK'
    BY <1>16 DEF HostTypeOK, Refuse, EndExecute, hostVars, sids
  <2>2. StateTypeOK'
    BY <1>16 DEF StateTypeOK, Refuse, EndExecute, stateVars, apprVars
  <2>3. TaskTypeOK'
    BY <1>16, EndTyped DEF Refuse
  <2> QED BY <2>1, <2>2, <2>3
<1>17. ASSUME NEW t \in Tasks, ProbeDone(t) PROVE TypeOK'
  <2>1. HostTypeOK'
    BY <1>17 DEF HostTypeOK, ProbeDone, hostVars, sids
  <2>2. StateTypeOK'
    BY <1>17 DEF StateTypeOK, ProbeDone, stateVars, apprVars
  <2>3. TaskTypeOK'
    BY <1>17, GotoTyped DEF TaskTypeOK, ProbeDone, callVars, PC, GatedPC, OpeningPC
  <2> QED BY <2>1, <2>2, <2>3
<1>18. ASSUME NEW t \in Tasks, AskApproval(t) PROVE TypeOK'
  <2>1. HostTypeOK'
    BY <1>18 DEF HostTypeOK, AskApproval, hostVars, sids
  <2>2. StateTypeOK'
    <3>1. ref[t] \in Ref /\ req[t] \in Requests
      BY <1>18 DEF CallTyped, BoundPC, AskApproval
    <3> QED BY <1>18, <3>1 DEF StateTypeOK, Context, AskApproval, stateVars
  <2>3. TaskTypeOK'
    BY <1>18, ReturnTyped DEF TaskTypeOK, AskApproval
  <2> QED BY <2>1, <2>2, <2>3
<1>19. ASSUME NEW t \in Tasks, Reserve(t) PROVE TypeOK'
  <2>1. HostTypeOK'
    BY <1>19 DEF HostTypeOK, Reserve, hostVars, sids
  <2>2. StateTypeOK'
    <3>1. KeyOf(t) \in Key
      BY <1>19 DEF CallTyped, BoundPC, Reserve, KeyOf, Key, Ref
    <3> QED BY <1>19, <3>1 DEF StateTypeOK, Reserve, apprVars
  <2>3. TaskTypeOK'
    BY <1>19, GotoTyped DEF TaskTypeOK, Reserve, callVars, PC, GatedPC, OpeningPC
  <2> QED BY <2>1, <2>2, <2>3
<1>20. ASSUME NEW t \in Tasks, CancelReservation(t) PROVE TypeOK'
  <2>1. HostTypeOK'
    BY <1>20 DEF HostTypeOK, CancelReservation, EndExecute, hostVars, sids
  <2>2. StateTypeOK'
    BY <1>20 DEF StateTypeOK, CancelReservation, EndExecute, stateVars, apprVars
  <2>3. TaskTypeOK'
    BY <1>20, EndTyped DEF CancelReservation
  <2> QED BY <2>1, <2>2, <2>3
<1>21. ASSUME NEW t \in Tasks, Dispatch(t) PROVE TypeOK'
  <2>1. HostTypeOK'
    BY <1>21 DEF HostTypeOK, Dispatch, hostVars, sids
  <2>2. StateTypeOK'
    BY <1>21 DEF StateTypeOK, Dispatch, stateVars, apprVars
  <2>3. TaskTypeOK'
    <3>1. KeyOf(t) \in Key
      BY <1>21 DEF CallTyped, BoundPC, Dispatch, KeyOf, Key, Ref
    <3> QED BY <1>21, <3>1, GotoTyped DEF TaskTypeOK, Dispatch, callVars, PC, GatedPC
  <2> QED BY <2>1, <2>2, <2>3
<1>22. ASSUME NEW t \in Tasks, FinishExecute(t) PROVE TypeOK'
  <2>1. HostTypeOK'
    BY <1>22 DEF HostTypeOK, FinishExecute, EndExecute, hostVars, sids
  <2>2. StateTypeOK'
    BY <1>22 DEF StateTypeOK, FinishExecute, EndExecute, stateVars, apprVars
  <2>3. TaskTypeOK'
    BY <1>22, EndTyped DEF FinishExecute
  <2> QED BY <2>1, <2>2, <2>3
<1>23. ASSUME NEW q \in Requests, RecordApproval(q) PROVE TypeOK'
  <2>1. HostTypeOK'
    BY <1>23 DEF HostTypeOK, RecordApproval, hostVars, sids
  <2>2. StateTypeOK'
    BY <1>23 DEF StateTypeOK, RecordApproval, stateVars, apprVars
  <2>3. TaskTypeOK'
    BY <1>23 DEF TaskTypeOK, RecordApproval, callVars
  <2> QED BY <2>1, <2>2, <2>3
<1>24. ASSUME NEW q \in Requests, DiscardContext(q) PROVE TypeOK'
  <2>1. HostTypeOK'
    BY <1>24 DEF HostTypeOK, DiscardContext, hostVars, sids
  <2>2. StateTypeOK'
    BY <1>24 DEF StateTypeOK, DiscardContext, stateVars, apprVars
  <2>3. TaskTypeOK'
    BY <1>24 DEF TaskTypeOK, DiscardContext, callVars
  <2> QED BY <2>1, <2>2, <2>3
<1>25. ASSUME NEW t \in Tasks, NEW c \in contexts, TakeContext(t, c) PROVE TypeOK'
  <2>1. HostTypeOK'
    BY <1>25 DEF HostTypeOK, TakeContext, hostVars, sids
  <2>2. StateTypeOK'
    BY <1>25 DEF StateTypeOK, TakeContext, stateVars, apprVars
  <2>3. TaskTypeOK'
    <3>1. c.ref \in Ref /\ c.req \in Requests
      BY DEF StateTypeOK, Context
    <3>2. CASE UNCHANGED <<ref, req, resumed, pc>>
      BY <1>25, <3>2 DEF TaskTypeOK, TakeContext
    <3>3. CASE ~UNCHANGED <<ref, req, resumed, pc>>
      <4>1. pc' \in [Tasks -> PC]
        BY <1>25, <3>3, GotoTyped DEF TaskTypeOK, TakeContext, PC
      <4>2. ref' \in [Tasks -> Ref \union {Nil}] /\ req' \in [Tasks -> Requests \union {Nil}]
            /\ resumed' \in [Tasks -> BOOLEAN]
        BY <1>25, <3>1, <3>3 DEF TaskTypeOK, TakeContext
      <4> QED BY <1>25, <4>1, <4>2 DEF TaskTypeOK, TakeContext
    <3> QED BY <3>2, <3>3
  <2> QED BY <2>1, <2>2, <2>3
<1>26. ASSUME NEW t \in Tasks, CheckResume(t) PROVE TypeOK'
  <2>1. HostTypeOK'
    BY <1>26 DEF HostTypeOK, CheckResume, hostVars, sids
  <2>2. StateTypeOK'
    BY <1>26 DEF StateTypeOK, CheckResume, stateVars, apprVars
  <2>3. TaskTypeOK'
    BY <1>26, GotoTyped DEF TaskTypeOK, CheckResume, callVars, PC, GatedPC, OpeningPC
  <2> QED BY <2>1, <2>2, <2>3
<1>27. ASSUME NEW t \in Tasks, RefuseResume(t) PROVE TypeOK'
  <2>1. HostTypeOK'
    BY <1>27 DEF HostTypeOK, RefuseResume, hostVars, sids
  <2>2. StateTypeOK'
    BY <1>27 DEF StateTypeOK, RefuseResume, stateVars, apprVars
  <2>3. TaskTypeOK'
    BY <1>27, ReturnTyped DEF TaskTypeOK, RefuseResume
  <2> QED BY <2>1, <2>2, <2>3
<1>28. ASSUME NEW t \in Tasks, RestoreFocus(t) PROVE TypeOK'
  <2>1. HostTypeOK'
    BY <1>28 DEF HostTypeOK, RestoreFocus, hostVars, sids
  <2>2. StateTypeOK'
    BY <1>28 DEF StateTypeOK, RestoreFocus, stateVars, apprVars
  <2>3. TaskTypeOK'
    BY <1>28, GotoTyped DEF TaskTypeOK, RestoreFocus, callVars, PC, GatedPC, OpeningPC
  <2> QED BY <2>1, <2>2, <2>3
<1>29. ASSUME NEW t \in Tasks, ResumeExecute(t) PROVE TypeOK'
  <2>1. HostTypeOK'
    BY <1>29 DEF HostTypeOK, ResumeExecute, hostVars, sids
  <2>2. StateTypeOK'
    BY <1>29 DEF StateTypeOK, ResumeExecute, stateVars, apprVars
  <2>3. TaskTypeOK'
    <3>1. req[t] \in Requests
      BY <1>29 DEF CallTyped, BoundPC, ResumeExecute
    <3>2. grant' \in [Tasks -> SUBSET Requests]
      BY <1>29, <3>1 DEF StateTypeOK, TaskTypeOK, ResumeExecute
    <3> QED BY <1>29, <3>2, GotoTyped DEF TaskTypeOK, ResumeExecute, PC
  <2> QED BY <2>1, <2>2, <2>3
<1>30. ASSUME NEW t \in Tasks, Revoke(t) PROVE TypeOK'
  <2>1. HostTypeOK'
    BY <1>30 DEF HostTypeOK, Revoke, hostVars, sids
  <2>2. StateTypeOK'
    BY <1>30 DEF StateTypeOK, Revoke, stateVars, apprVars
  <2>3. TaskTypeOK'
    BY <1>30, ReturnTyped DEF TaskTypeOK, Revoke
  <2> QED BY <2>1, <2>2, <2>3
<1>31. ASSUME NEW t \in Tasks, RestartBegin(t) PROVE TypeOK'
  <2>1. HostTypeOK'
    BY <1>31 DEF HostTypeOK, RestartBegin, hostVars, sids
  <2>2. StateTypeOK'
    <3>1. CASE UNCHANGED <<stateVars, apprVars>>
      BY <3>1 DEF StateTypeOK, stateVars, apprVars
    <3>2. CASE ~CircuitOpen /\ ~UNCHANGED <<stateVars, apprVars>>
      <4>1. restarts' \in 0..RestartLimit
        BY <1>31, <3>2, BoundAssumption DEF StateTypeOK, RestartBegin, CircuitOpen
      <4>2. generation' \in 0..MaxGen
        BY <1>31, <3>2 DEF StateTypeOK, TaskTypeOK, RestartBegin, SyncedGeneration
      <4>3. contexts' \subseteq Context /\ approvals' \subseteq Requests
        BY <1>31, <3>2, ClearTyped DEF RestartBegin
      <4> QED BY <1>31, <3>2, <4>1, <4>2, <4>3 DEF StateTypeOK, RestartBegin
    <3> QED BY <1>31, <3>1, <3>2 DEF RestartBegin
  <2>3. TaskTypeOK'
    <3>1. snap' \in [Tasks -> 0..MaxGen]
      BY <1>31, ZeroTyped DEF TaskTypeOK, RestartBegin
    <3> QED BY <1>31, <3>1, GotoTyped DEF TaskTypeOK, RestartBegin, callVars, PC
  <2> QED BY <2>1, <2>2, <2>3
<1>32. ASSUME NEW t \in Tasks, RestartHost(t) PROVE TypeOK'
  <2>1. HostTypeOK'
    BY <1>32, HostTyped DEF HostTypeOK, RestartHost, hostVars, sids
  <2>2. StateTypeOK'
    BY <1>32 DEF StateTypeOK, RestartHost, stateVars, apprVars
  <2>3. TaskTypeOK'
    BY <1>32, GotoTyped DEF TaskTypeOK, RestartHost, callVars, PC, StartingPC, LifePC
  <2> QED BY <2>1, <2>2, <2>3
<1>33. ASSUME NEW t \in Tasks, Shutdown(t) PROVE TypeOK'
  <2>1. HostTypeOK'
    BY <1>33 DEF HostTypeOK, Shutdown, hostVars, sids
  <2>2. StateTypeOK'
    BY <1>33 DEF StateTypeOK, Shutdown, stateVars, apprVars
  <2>3. TaskTypeOK'
    BY <1>33, GotoTyped DEF TaskTypeOK, Shutdown, callVars, PC, GatedPC, OpeningPC
  <2> QED BY <2>1, <2>2, <2>3
<1>34. ASSUME NEW t \in Tasks, ShutdownHost(t) PROVE TypeOK'
  <2>1. HostTypeOK'
    BY <1>34, ZeroTyped DEF HostTypeOK, ShutdownHost, sids, HostStates
  <2>2. StateTypeOK'
    BY <1>34 DEF StateTypeOK, ShutdownHost, stateVars, apprVars
  <2>3. TaskTypeOK'
    BY <1>34, GotoTyped DEF TaskTypeOK, ShutdownHost, callVars, PC, StartingPC, LifePC
  <2> QED BY <2>1, <2>2, <2>3
<1>35. ASSUME NEW t \in Tasks, ShutdownDone(t) PROVE TypeOK'
  <2>1. HostTypeOK'
    BY <1>35 DEF HostTypeOK, ShutdownDone, sids, HostStates
  <2>2. StateTypeOK'
    BY <1>35 DEF StateTypeOK, ShutdownDone, stateVars, apprVars
  <2>3. TaskTypeOK'
    BY <1>35, GotoTyped DEF TaskTypeOK, ShutdownDone, callVars, PC, StartingPC, LifePC
  <2> QED BY <2>1, <2>2, <2>3
<1>36. ASSUME ProcessDies PROVE TypeOK'
  <2>1. HostTypeOK'
    BY <1>36 DEF HostTypeOK, ProcessDies, hostVars, sids
  <2>2. StateTypeOK'
    BY <1>36 DEF StateTypeOK, ProcessDies, stateVars, apprVars
  <2>3. TaskTypeOK'
    BY <1>36 DEF TaskTypeOK, ProcessDies, callVars
  <2> QED BY <2>1, <2>2, <2>3
<1>37. ASSUME LeaseDeadline PROVE TypeOK'
  <2>1. HostTypeOK'
    BY <1>37 DEF HostTypeOK, LeaseDeadline, hostVars, sids
  <2>2. StateTypeOK'
    BY <1>37 DEF StateTypeOK, LeaseDeadline, stateVars, apprVars
  <2>3. TaskTypeOK'
    BY <1>37 DEF TaskTypeOK, LeaseDeadline, callVars
  <2> QED BY <2>1, <2>2, <2>3
<1>39. ASSUME NEW t \in Tasks, Start(t) PROVE TypeOK'
  <2>1. HostTypeOK'
    BY <1>39, HostTyped DEF HostTypeOK, Start, hostVars, sids
  <2>2. StateTypeOK'
    BY <1>39 DEF StateTypeOK, Start, stateVars, apprVars
  <2>3. TaskTypeOK'
    BY <1>39, GotoTyped DEF TaskTypeOK, Start, callVars, PC, StartingPC, LifePC
  <2> QED BY <2>1, <2>2, <2>3
<1>40. ASSUME NEW t \in Tasks, Healthy(t) PROVE TypeOK'
  <2>1. HostTypeOK'
    BY <1>40, HostTyped DEF HostTypeOK, Healthy, hostVars, sids
  <2>2. StateTypeOK'
    BY <1>40 DEF StateTypeOK, Healthy, stateVars, apprVars
  <2>3. TaskTypeOK'
    BY <1>40, GotoTyped DEF TaskTypeOK, Healthy, callVars, PC, StartingPC, LifePC
  <2> QED BY <2>1, <2>2, <2>3
<1>41. ASSUME NEW t \in Tasks, HangUp(t) PROVE TypeOK'
  <2>1. HostTypeOK'
    BY <1>41, HostTyped DEF HostTypeOK, HangUp, hostVars, sids
  <2>2. StateTypeOK'
    BY <1>41 DEF StateTypeOK, HangUp, stateVars, apprVars
  <2>3. TaskTypeOK'
    BY <1>41, ReturnTyped DEF TaskTypeOK, HangUp
  <2> QED BY <2>1, <2>2, <2>3
<1>38. CASE UNCHANGED vars
  BY <1>38 DEF HostTypeOK, StateTypeOK, TaskTypeOK, vars, hostVars, sids, stateVars, apprVars, callVars
<1> QED BY <1>1, <1>2, <1>3, <1>4, <1>5, <1>6, <1>7, <1>8, <1>9, <1>10, <1>11, <1>12, <1>13, <1>14, <1>15, <1>16, <1>17, <1>18, <1>19, <1>20, <1>21, <1>22, <1>23, <1>24, <1>25, <1>26, <1>27, <1>28, <1>29, <1>30, <1>31, <1>32, <1>33, <1>34, <1>35, <1>36, <1>37, <1>38, <1>39, <1>40, <1>41
   DEF Next, Call, Continue, Refresh, SessionStep, ExecuteStep, ResumeStep,
       LifecycleStep, Environment

\* A call past validation keeps its session and its request.
LEMMA CallTypedStep ==
  ASSUME TypeOK, CallTyped, [Next]_vars
  PROVE  CallTyped'
<1> USE DEF TypeOK, CallTyped, BoundPC, OpeningPC, StartingPC
<1>1. ASSUME NEW t \in Tasks, ReadStatus(t) PROVE CallTyped'
  BY <1>1 DEF ReadStatus, TaskTypeOK, Goto, callVars
<1>2. ASSUME NEW t \in Tasks, Sync(t) PROVE CallTyped'
  BY <1>2 DEF Sync, TaskTypeOK, Goto, callVars
<1>3. ASSUME NEW t \in Tasks, OpenStart(t) PROVE CallTyped'
  BY <1>3 DEF OpenStart, TaskTypeOK, Goto, callVars
<1>4. ASSUME NEW t \in Tasks, OpenCreate(t) PROVE CallTyped'
  <2>1. CASE pc' = [pc EXCEPT ![t] = "idle"] /\ UNCHANGED ref
    BY <1>4, <2>1 DEF TaskTypeOK, OpenCreate
  <2>2. CASE pc' = [pc EXCEPT ![t] = "created"] /\ nextSid <= MaxSid /\ \E o \in Owners :
               ref' = [ref EXCEPT ![t] = [sid |-> nextSid, gen |-> 0, owner |-> o]]
    <3>1. ref'[t] \in Ref
      BY <2>2, ZeroTyped, BoundAssumption DEF HostTypeOK, TaskTypeOK, Ref
    <3> QED BY <1>4, <2>2, <3>1 DEF TaskTypeOK, OpenCreate
  <2> QED BY <1>4, <2>1, <2>2 DEF OpenCreate, Goto
<1>5. ASSUME NEW t \in Tasks, Register(t) PROVE CallTyped'
  BY <1>5 DEF Register, TaskTypeOK, Goto, callVars, Return
<1>6. ASSUME NEW t \in Tasks, NEW r \in sessions, CloseSession(t, r) PROVE CallTyped'
  BY <1>6 DEF CloseSession, TaskTypeOK, Goto, callVars, StateTypeOK
<1>7. ASSUME NEW t \in Tasks, CloseFinish(t) PROVE CallTyped'
  BY <1>7 DEF CloseFinish, TaskTypeOK, Goto, callVars, Return
<1>8. ASSUME NEW t \in Tasks, EndCall(t) PROVE CallTyped'
  BY <1>8 DEF EndCall, TaskTypeOK, Goto, callVars
<1>9. ASSUME NEW t \in Tasks, Health(t) PROVE CallTyped'
  BY <1>9 DEF Health, TaskTypeOK, Goto, callVars
<1>10. ASSUME NEW t \in Tasks, NEW r \in sessions, AcquireLease(t, r) PROVE CallTyped'
  BY <1>10 DEF AcquireLease, TaskTypeOK, Goto, callVars
<1>11. ASSUME NEW t \in Tasks, NEW l \in lease, ReleaseLease(t, l) PROVE CallTyped'
  BY <1>11 DEF ReleaseLease, TaskTypeOK, Goto, callVars
<1>12. ASSUME NEW t \in Tasks, ResetAfterInterrupt(t) \/ ForgetContexts(t) PROVE CallTyped'
  <2>1. CASE ResetAfterInterrupt(t)
    BY <2>1 DEF ResetAfterInterrupt, TaskTypeOK, Goto, callVars
  <2>2. CASE ForgetContexts(t)
    BY <2>2 DEF ForgetContexts, TaskTypeOK, Goto, callVars
  <2> QED BY <1>12, <2>1, <2>2
<1>13. ASSUME NEW t \in Tasks, CallExecute(t) PROVE CallTyped'
  BY <1>13 DEF CallExecute, TaskTypeOK, Goto, callVars
<1>14. ASSUME NEW t \in Tasks, LockGate(t) PROVE CallTyped'
  BY <1>14 DEF LockGate, TaskTypeOK, Goto, callVars
<1>15. ASSUME NEW t \in Tasks, NEW l \in lease, NEW q \in Requests, Admit(t, l.ref, l.id, q) PROVE CallTyped'
  BY <1>15 DEF Admit, TaskTypeOK, Goto, callVars, StateTypeOK, Lease
<1>16. ASSUME NEW t \in Tasks, Refuse(t) PROVE CallTyped'
  BY <1>16 DEF Refuse, TaskTypeOK, Goto, callVars, EndExecute, Return
<1>17. ASSUME NEW t \in Tasks, ProbeDone(t) PROVE CallTyped'
  BY <1>17 DEF ProbeDone, TaskTypeOK, Goto, callVars
<1>18. ASSUME NEW t \in Tasks, AskApproval(t) PROVE CallTyped'
  BY <1>18 DEF AskApproval, TaskTypeOK, Goto, callVars, Return
<1>19. ASSUME NEW t \in Tasks, Reserve(t) PROVE CallTyped'
  BY <1>19 DEF Reserve, TaskTypeOK, Goto, callVars
<1>20. ASSUME NEW t \in Tasks, CancelReservation(t) PROVE CallTyped'
  BY <1>20 DEF CancelReservation, TaskTypeOK, Goto, callVars, EndExecute, Return
<1>21. ASSUME NEW t \in Tasks, Dispatch(t) PROVE CallTyped'
  BY <1>21 DEF Dispatch, TaskTypeOK, Goto, callVars
<1>22. ASSUME NEW t \in Tasks, FinishExecute(t) PROVE CallTyped'
  BY <1>22 DEF FinishExecute, TaskTypeOK, Goto, callVars, EndExecute, Return
<1>23. ASSUME NEW q \in Requests, RecordApproval(q) PROVE CallTyped'
  BY <1>23 DEF RecordApproval, callVars
<1>24. ASSUME NEW q \in Requests, DiscardContext(q) PROVE CallTyped'
  BY <1>24 DEF DiscardContext, callVars
<1>25. ASSUME NEW t \in Tasks, NEW c \in contexts, TakeContext(t, c) PROVE CallTyped'
  BY <1>25 DEF TakeContext, TaskTypeOK, Goto, callVars, StateTypeOK, Context
<1>26. ASSUME NEW t \in Tasks, CheckResume(t) PROVE CallTyped'
  BY <1>26 DEF CheckResume, TaskTypeOK, Goto, callVars
<1>27. ASSUME NEW t \in Tasks, RefuseResume(t) PROVE CallTyped'
  BY <1>27 DEF RefuseResume, TaskTypeOK, Goto, callVars, Return
<1>28. ASSUME NEW t \in Tasks, RestoreFocus(t) PROVE CallTyped'
  BY <1>28 DEF RestoreFocus, TaskTypeOK, Goto, callVars
<1>29. ASSUME NEW t \in Tasks, ResumeExecute(t) PROVE CallTyped'
  BY <1>29 DEF ResumeExecute, TaskTypeOK, Goto, callVars
<1>30. ASSUME NEW t \in Tasks, Revoke(t) PROVE CallTyped'
  BY <1>30 DEF Revoke, TaskTypeOK, Goto, callVars, Return
<1>31. ASSUME NEW t \in Tasks, RestartBegin(t) PROVE CallTyped'
  BY <1>31 DEF RestartBegin, TaskTypeOK, Goto, callVars
<1>32. ASSUME NEW t \in Tasks, RestartHost(t) PROVE CallTyped'
  BY <1>32 DEF RestartHost, TaskTypeOK, Goto, callVars
<1>33. ASSUME NEW t \in Tasks, Shutdown(t) PROVE CallTyped'
  BY <1>33 DEF Shutdown, TaskTypeOK, Goto, callVars
<1>34. ASSUME NEW t \in Tasks, ShutdownHost(t) PROVE CallTyped'
  BY <1>34 DEF ShutdownHost, TaskTypeOK, Goto, callVars
<1>35. ASSUME NEW t \in Tasks, ShutdownDone(t) PROVE CallTyped'
  BY <1>35 DEF ShutdownDone, TaskTypeOK, Goto, callVars
<1>36. ASSUME ProcessDies PROVE CallTyped'
  BY <1>36 DEF ProcessDies, callVars
<1>37. ASSUME LeaseDeadline PROVE CallTyped'
  BY <1>37 DEF LeaseDeadline, callVars
<1>39. ASSUME NEW t \in Tasks, Start(t) PROVE CallTyped'
  BY <1>39 DEF Start, TaskTypeOK, Goto, callVars
<1>40. ASSUME NEW t \in Tasks, Healthy(t) PROVE CallTyped'
  BY <1>40 DEF Healthy, TaskTypeOK, Goto, callVars
<1>41. ASSUME NEW t \in Tasks, HangUp(t) PROVE CallTyped'
  BY <1>41 DEF HangUp, TaskTypeOK, Goto, callVars, Return
<1>38. CASE UNCHANGED vars
  BY <1>38 DEF vars, callVars
<1> QED BY <1>1, <1>2, <1>3, <1>4, <1>5, <1>6, <1>7, <1>8, <1>9, <1>10, <1>11, <1>12, <1>13, <1>14, <1>15, <1>16, <1>17, <1>18, <1>19, <1>20, <1>21, <1>22, <1>23, <1>24, <1>25, <1>26, <1>27, <1>28, <1>29, <1>30, <1>31, <1>32, <1>33, <1>34, <1>35, <1>36, <1>37, <1>38, <1>39, <1>40, <1>41
   DEF Next, Call, Continue, Refresh, SessionStep, ExecuteStep, ResumeStep,
       LifecycleStep, Environment

\* The action gate is held exactly by the call inside it.
LEMMA GateStep ==
  ASSUME TypeOK, GateExclusive, [Next]_vars
  PROVE  GateExclusive'
<1> USE NilAssumption DEF TypeOK, GateExclusive, GatedPC, StartingPC
<1>1. ASSUME NEW t \in Tasks, ReadStatus(t) PROVE GateExclusive'
  BY <1>1 DEF ReadStatus, TaskTypeOK, Goto
<1>2. ASSUME NEW t \in Tasks, Sync(t) PROVE GateExclusive'
  BY <1>2 DEF Sync, TaskTypeOK, Goto
<1>3. ASSUME NEW t \in Tasks, OpenStart(t) PROVE GateExclusive'
  BY <1>3 DEF OpenStart, TaskTypeOK, Goto
<1>4. ASSUME NEW t \in Tasks, OpenCreate(t) PROVE GateExclusive'
  BY <1>4 DEF OpenCreate, TaskTypeOK, Goto
<1>5. ASSUME NEW t \in Tasks, Register(t) PROVE GateExclusive'
  BY <1>5 DEF Register, TaskTypeOK, Goto, Return
<1>6. ASSUME NEW t \in Tasks, NEW r \in sessions, CloseSession(t, r) PROVE GateExclusive'
  BY <1>6 DEF CloseSession, TaskTypeOK, Goto
<1>7. ASSUME NEW t \in Tasks, CloseFinish(t) PROVE GateExclusive'
  BY <1>7 DEF CloseFinish, TaskTypeOK, Goto, Return
<1>8. ASSUME NEW t \in Tasks, EndCall(t) PROVE GateExclusive'
  BY <1>8 DEF EndCall, TaskTypeOK, Goto
<1>9. ASSUME NEW t \in Tasks, Health(t) PROVE GateExclusive'
  BY <1>9 DEF Health, TaskTypeOK, Goto
<1>10. ASSUME NEW t \in Tasks, NEW r \in sessions, AcquireLease(t, r) PROVE GateExclusive'
  BY <1>10 DEF AcquireLease, TaskTypeOK, Goto
<1>11. ASSUME NEW t \in Tasks, NEW l \in lease, ReleaseLease(t, l) PROVE GateExclusive'
  BY <1>11 DEF ReleaseLease, TaskTypeOK, Goto
<1>12. ASSUME NEW t \in Tasks, ResetAfterInterrupt(t) \/ ForgetContexts(t)
       PROVE  GateExclusive'
  BY <1>12 DEF ResetAfterInterrupt, ForgetContexts, TaskTypeOK, Goto
<1>13. ASSUME NEW t \in Tasks, CallExecute(t) PROVE GateExclusive'
  BY <1>13 DEF CallExecute, TaskTypeOK, Goto
<1>14. ASSUME NEW t \in Tasks, LockGate(t) PROVE GateExclusive'
  BY <1>14 DEF LockGate, TaskTypeOK, Goto
<1>15. ASSUME NEW t \in Tasks, NEW l \in lease, NEW q \in Requests, Admit(t, l.ref, l.id, q) PROVE GateExclusive'
  BY <1>15 DEF Admit, TaskTypeOK, Goto
<1>16. ASSUME NEW t \in Tasks, Refuse(t) PROVE GateExclusive'
  BY <1>16 DEF Refuse, TaskTypeOK, Goto, EndExecute, Return
<1>17. ASSUME NEW t \in Tasks, ProbeDone(t) PROVE GateExclusive'
  BY <1>17 DEF ProbeDone, TaskTypeOK, Goto
<1>18. ASSUME NEW t \in Tasks, AskApproval(t) PROVE GateExclusive'
  BY <1>18 DEF AskApproval, TaskTypeOK, Goto, Return
<1>19. ASSUME NEW t \in Tasks, Reserve(t) PROVE GateExclusive'
  BY <1>19 DEF Reserve, TaskTypeOK, Goto
<1>20. ASSUME NEW t \in Tasks, CancelReservation(t) PROVE GateExclusive'
  BY <1>20 DEF CancelReservation, TaskTypeOK, Goto, EndExecute, Return
<1>21. ASSUME NEW t \in Tasks, Dispatch(t) PROVE GateExclusive'
  BY <1>21 DEF Dispatch, TaskTypeOK, Goto
<1>22. ASSUME NEW t \in Tasks, FinishExecute(t) PROVE GateExclusive'
  BY <1>22 DEF FinishExecute, TaskTypeOK, Goto, EndExecute, Return
<1>23. ASSUME NEW q \in Requests, RecordApproval(q) PROVE GateExclusive'
  BY <1>23 DEF RecordApproval
<1>24. ASSUME NEW q \in Requests, DiscardContext(q) PROVE GateExclusive'
  BY <1>24 DEF DiscardContext
<1>25. ASSUME NEW t \in Tasks, NEW c \in contexts, TakeContext(t, c) PROVE GateExclusive'
  BY <1>25 DEF TakeContext, TaskTypeOK, Goto
<1>26. ASSUME NEW t \in Tasks, CheckResume(t) PROVE GateExclusive'
  BY <1>26 DEF CheckResume, TaskTypeOK, Goto
<1>27. ASSUME NEW t \in Tasks, RefuseResume(t) PROVE GateExclusive'
  BY <1>27 DEF RefuseResume, TaskTypeOK, Goto, Return
<1>28. ASSUME NEW t \in Tasks, RestoreFocus(t) PROVE GateExclusive'
  BY <1>28 DEF RestoreFocus, TaskTypeOK, Goto
<1>29. ASSUME NEW t \in Tasks, ResumeExecute(t) PROVE GateExclusive'
  BY <1>29 DEF ResumeExecute, TaskTypeOK, Goto
<1>30. ASSUME NEW t \in Tasks, Revoke(t) PROVE GateExclusive'
  BY <1>30 DEF Revoke, TaskTypeOK, Goto, Return
<1>31. ASSUME NEW t \in Tasks, RestartBegin(t) PROVE GateExclusive'
  BY <1>31 DEF RestartBegin, TaskTypeOK, Goto
<1>32. ASSUME NEW t \in Tasks, RestartHost(t) PROVE GateExclusive'
  BY <1>32 DEF RestartHost, TaskTypeOK, Goto
<1>33. ASSUME NEW t \in Tasks, Shutdown(t) PROVE GateExclusive'
  BY <1>33 DEF Shutdown, TaskTypeOK, Goto
<1>34. ASSUME NEW t \in Tasks, ShutdownHost(t) PROVE GateExclusive'
  BY <1>34 DEF ShutdownHost, TaskTypeOK, Goto
<1>35. ASSUME NEW t \in Tasks, ShutdownDone(t) PROVE GateExclusive'
  BY <1>35 DEF ShutdownDone, TaskTypeOK, Goto
<1>36. ASSUME ProcessDies PROVE GateExclusive'
  BY <1>36 DEF ProcessDies
<1>37. ASSUME LeaseDeadline PROVE GateExclusive'
  BY <1>37 DEF LeaseDeadline
<1>39. ASSUME NEW t \in Tasks, Start(t) PROVE GateExclusive'
  BY <1>39 DEF Start, TaskTypeOK, Goto
<1>40. ASSUME NEW t \in Tasks, Healthy(t) PROVE GateExclusive'
  BY <1>40 DEF Healthy, TaskTypeOK, Goto
<1>41. ASSUME NEW t \in Tasks, HangUp(t) PROVE GateExclusive'
  BY <1>41 DEF HangUp, TaskTypeOK, Goto, Return
<1>38. CASE UNCHANGED vars
  BY <1>38 DEF vars
<1> QED BY <1>1, <1>2, <1>3, <1>4, <1>5, <1>6, <1>7, <1>8, <1>9, <1>10, <1>11, <1>12, <1>13, <1>14, <1>15, <1>16, <1>17, <1>18, <1>19, <1>20, <1>21, <1>22, <1>23, <1>24, <1>25, <1>26, <1>27, <1>28, <1>29, <1>30, <1>31, <1>32, <1>33, <1>34, <1>35, <1>36, <1>37, <1>38, <1>39, <1>40, <1>41
   DEF Next, Call, Continue, Refresh, SessionStep, ExecuteStep, ResumeStep,
       LifecycleStep, Environment

-----------------------------------------------------------------------------
(* The inductive invariant.                                                *)

\* A step that leaves sessions, table and history alone, and brings no call
\* to the reservation or into open_session.
QuietStep ==
  /\ UNCHANGED <<generation, sessions, dispatched, sent, nextSid>>
  /\ \A u \in Tasks :
       /\ pc'[u] \in OpeningPC => pc[u] \in OpeningPC /\ ref'[u] = ref[u]
       /\ pc'[u] = "reserved" =>
            pc[u] = "reserved" /\ ref'[u] = ref[u] /\ req'[u] = req[u]

\* Such a step cannot disturb what is tracked about them.
LEMMA Quiet ==
  ASSUME Tracked, QuietStep
  PROVE  Tracked'
<1>1. \A u \in Tasks : Opening(u)' => Opening(u) /\ ref'[u] = ref[u]
  BY DEF QuietStep, Opening
<1>2. \A u \in Tasks : pc'[u] = "reserved" =>
        pc[u] = "reserved" /\ ref'[u] = ref[u] /\ KeyOf(u)' = KeyOf(u)
  BY DEF QuietStep, KeyOf
<1>3. \A n : HasSession(n)' <=> HasSession(n)
  BY DEF QuietStep, HasSession
<1>4. SessionsCurrent' /\ NoneBeforeReady'
  BY DEF Tracked, QuietStep, SessionsCurrent, NoneBeforeReady
<1>5. SidsIssued'
  BY <1>1, <1>2 DEF Tracked, QuietStep, SidsIssued
<1>6. OpeningFresh'
  BY <1>1, <1>2, <1>3 DEF Tracked, QuietStep, OpeningFresh
<1>7. ReservationHeld' /\ SentRemembered' /\ ExactlyOnce'
  BY <1>2, <1>3 DEF Tracked, QuietStep, ReservationHeld, SentRemembered, ExactlyOnce
<1> QED BY <1>4, <1>5, <1>6, <1>7 DEF Tracked

\* Every step but those on sessions, reservations and restarts is quiet.
LEMMA QuietActions ==
  ASSUME TypeOK, NEW t \in Tasks,
         \/ Start(t) \/ Healthy(t) \/ HangUp(t)
         \/ ReadStatus(t) \/ OpenStart(t) \/ CloseFinish(t) \/ EndCall(t)
         \/ Health(t) \/ CallExecute(t) \/ LockGate(t) \/ Refuse(t)
         \/ ProbeDone(t) \/ AskApproval(t) \/ FinishExecute(t)
         \/ CheckResume(t) \/ RefuseResume(t) \/ RestoreFocus(t)
         \/ ResumeExecute(t) \/ Revoke(t) \/ RestartHost(t)
         \/ ShutdownHost(t) \/ ShutdownDone(t) \/ ResetAfterInterrupt(t) \/ ForgetContexts(t)
         \/ ProcessDies \/ LeaseDeadline
         \/ (\E r \in sessions : AcquireLease(t, r))
         \/ (\E l \in lease : ReleaseLease(t, l))
         \/ (\E l \in lease, q \in Requests : Admit(t, l.ref, l.id, q))
         \/ (\E q \in Requests : RecordApproval(q) \/ DiscardContext(q))
         \/ (\E c \in contexts : TakeContext(t, c))
  PROVE  QuietStep
<1> USE DEF QuietStep, OpeningPC, Goto, stateVars, callVars, sids, TypeOK, TaskTypeOK, StartingPC
<1>1. CASE ReadStatus(t)
  BY <1>1 DEF ReadStatus
<1>2. CASE OpenStart(t)
  BY <1>2 DEF OpenStart
<1>3. CASE CloseFinish(t)
  BY <1>3 DEF CloseFinish, Return
<1>4. CASE EndCall(t)
  BY <1>4 DEF EndCall
<1>5. CASE Health(t)
  BY <1>5 DEF Health
<1>6. CASE CallExecute(t)
  BY <1>6 DEF CallExecute
<1>7. CASE LockGate(t)
  BY <1>7 DEF LockGate
<1>8. CASE Refuse(t)
  BY <1>8 DEF Refuse, EndExecute, Return
<1>9. CASE ProbeDone(t)
  BY <1>9 DEF ProbeDone
<1>10. CASE AskApproval(t)
  BY <1>10 DEF AskApproval, Return
<1>11. CASE FinishExecute(t)
  BY <1>11 DEF FinishExecute, EndExecute, Return
<1>12. CASE CheckResume(t)
  BY <1>12 DEF CheckResume
<1>13. CASE RefuseResume(t)
  BY <1>13 DEF RefuseResume, Return
<1>14. CASE RestoreFocus(t)
  BY <1>14 DEF RestoreFocus
<1>15. CASE ResumeExecute(t)
  BY <1>15 DEF ResumeExecute
<1>16. CASE Revoke(t)
  BY <1>16 DEF Revoke, Return
<1>17. CASE RestartHost(t)
  BY <1>17 DEF RestartHost
<1>18. CASE ShutdownHost(t)
  BY <1>18 DEF ShutdownHost
<1>19. CASE ShutdownDone(t)
  BY <1>19 DEF ShutdownDone
<1>20. CASE ResetAfterInterrupt(t) \/ ForgetContexts(t)
  BY <1>20 DEF ResetAfterInterrupt, ForgetContexts
<1>21. CASE ProcessDies
  BY <1>21 DEF ProcessDies
<1>22. CASE LeaseDeadline
  BY <1>22 DEF LeaseDeadline
<1>23. CASE \E r \in sessions : AcquireLease(t, r)
  BY <1>23 DEF AcquireLease
<1>24. CASE \E l \in lease : ReleaseLease(t, l)
  BY <1>24 DEF ReleaseLease
<1>25. CASE \E l \in lease, q \in Requests : Admit(t, l.ref, l.id, q)
  BY <1>25 DEF Admit
<1>26. CASE \E q \in Requests : RecordApproval(q) \/ DiscardContext(q)
  BY <1>26 DEF RecordApproval, DiscardContext
<1>27. CASE \E c \in contexts : TakeContext(t, c)
  BY <1>27 DEF TakeContext
<1>28. CASE Start(t)
  BY <1>28 DEF Start
<1>29. CASE Healthy(t)
  BY <1>29 DEF Healthy
<1>30. CASE HangUp(t)
  BY <1>30 DEF HangUp, Return
<1> QED BY <1>1, <1>2, <1>3, <1>4, <1>5, <1>6, <1>7, <1>8, <1>9, <1>10, <1>11, <1>12, <1>13, <1>14, <1>15, <1>16, <1>17, <1>18, <1>19, <1>20, <1>21, <1>22, <1>23, <1>24, <1>25, <1>26, <1>27, <1>28, <1>29, <1>30

\* Typing facts the arithmetic on session ids needs.
LEMMA SidsAreNumbers ==
  ASSUME TypeOK, CallTyped
  PROVE  /\ nextSid \in Nat
         /\ \A s \in sessions : s.sid \in Nat /\ s.gen \in Nat
         /\ \A k \in sent \union dispatched : k.sid \in Nat
         /\ \A t \in Tasks : Opening(t) \/ pc[t] = "reserved" => ref[t].sid \in Nat
BY BoundAssumption DEF TypeOK, HostTypeOK, StateTypeOK, TaskTypeOK, CallTyped, Ref, Key, Opening, BoundPC

\* The steps that are not quiet keep what is tracked.
LEMMA SyncTracked ==
  ASSUME IInv, NEW t \in Tasks, Sync(t)
  PROVE  Tracked'
<1> USE DEF IInv, Tracked
<1>1. UNCHANGED <<nextSid, sent, ref, req>>
  BY DEF Sync, sids, callVars
<1>2. \A u \in Tasks : (Opening(u)' <=> Opening(u)) /\ (pc'[u] = "reserved" <=> pc[u] = "reserved")
  BY DEF Sync, Goto, Opening, OpeningPC, TypeOK, TaskTypeOK
<1>3. CASE Lost(snap[t])
  <2>1. sessions' = {} /\ dispatched' = {}
    BY <1>3 DEF Sync, Kept
  <2> QED BY <1>1, <1>2, <2>1 DEF SessionsCurrent, NoneBeforeReady, SidsIssued, OpeningFresh,
        ReservationHeld, SentRemembered, ExactlyOnce, HasSession, KeyOf
<1>4. CASE ~Lost(snap[t])
  <2>1. UNCHANGED <<sessions, dispatched>> /\ generation' = snap[t] /\ snap[t] # 0
    BY <1>4 DEF Sync, Kept, Lost, SyncedGeneration
  <2>2. sessions # {} => generation' = generation
    BY <1>4, <2>1 DEF Lost, NoneBeforeReady
  <2> QED BY <1>1, <1>2, <2>1, <2>2 DEF SessionsCurrent, NoneBeforeReady, SidsIssued, OpeningFresh,
        ReservationHeld, SentRemembered, ExactlyOnce, HasSession, KeyOf
<1> QED BY <1>3, <1>4

\* A session that was just created is not registered yet.
LEMMA OpenCreateTracked ==
  ASSUME IInv, NEW t \in Tasks, OpenCreate(t)
  PROVE  Tracked'
<1> USE DEF IInv
<1>1. CASE Goto(t, "idle") /\ UNCHANGED <<sids, ref>>
  <2>1. QuietStep
    BY <1>1 DEF QuietStep, OpenCreate, Goto, OpeningPC, sids, stateVars, TypeOK, TaskTypeOK
  <2> QED BY <2>1, Quiet
<1>2. CASE /\ Goto(t, "created") /\ nextSid' = nextSid + 1
           /\ \E o \in Owners :
                ref' = [ref EXCEPT ![t] = [sid |-> nextSid, gen |-> 0, owner |-> o]]
  <2>1. UNCHANGED <<generation, sessions, dispatched, sent, req>>
    BY DEF OpenCreate, stateVars
  <2>2. ref'[t].sid = nextSid /\ Opening(t)' /\ pc'[t] # "reserved"
    BY <1>2 DEF Goto, Opening, OpeningPC, TypeOK, TaskTypeOK
  <2>3. \A u \in Tasks \ {t} : /\ ref'[u] = ref[u] /\ KeyOf(u)' = KeyOf(u)
                               /\ Opening(u)' <=> Opening(u)
                               /\ pc'[u] = "reserved" <=> pc[u] = "reserved"
    BY <1>2, <2>1 DEF Goto, Opening, KeyOf, TypeOK, TaskTypeOK
  <2>4. \A n : HasSession(n)' <=> HasSession(n)
    BY <2>1 DEF HasSession
  <2>5. SessionsCurrent' /\ NoneBeforeReady'
    BY <2>1 DEF Tracked, SessionsCurrent, NoneBeforeReady
  <2>6. SidsIssued'
    BY <1>2, <2>1, <2>2, <2>3, SidsAreNumbers DEF Tracked, SidsIssued
  <2>7. OpeningFresh'
    <3>1. ~HasSession(nextSid) /\ \A k \in sent \union dispatched : k.sid # nextSid
      BY SidsAreNumbers DEF Tracked, SidsIssued, HasSession
    <3>2. \A u \in Tasks : Opening(u) \/ pc[u] = "reserved" => ref[u].sid # nextSid
      BY SidsAreNumbers DEF Tracked, SidsIssued
    <3> QED BY <2>1, <2>2, <2>3, <2>4, <3>1, <3>2 DEF Tracked, OpeningFresh
  <2>8. ReservationHeld' /\ SentRemembered' /\ ExactlyOnce'
    BY <2>1, <2>2, <2>3, <2>4 DEF Tracked, ReservationHeld, SentRemembered, ExactlyOnce
  <2> QED BY <2>5, <2>6, <2>7, <2>8 DEF Tracked
<1> QED BY <1>1, <1>2 DEF OpenCreate

\* Registering it drops what is of another generation, from both tables.
LEMMA RegisterTracked ==
  ASSUME IInv, NEW t \in Tasks, Register(t)
  PROVE  Tracked'
<1> USE DEF IInv
<1>1. CASE UNCHANGED stateVars
  <2>1. QuietStep
    BY <1>1 DEF QuietStep, Register, Return, Goto, OpeningPC, sids, stateVars, TypeOK, TaskTypeOK
  <2> QED BY <2>1, Quiet
<1>2. CASE snap[t] # 0 /\ ~UNCHANGED stateVars
  <2> DEFINE new == [sid |-> ref[t].sid, gen |-> snap[t], owner |-> ref[t].owner]
  <2>1. /\ generation' = snap[t]
        /\ sessions' = Kept(snap[t], sessions) \union {new}
        /\ dispatched' = Kept(snap[t], dispatched)
    BY <1>2 DEF Register, apprVars
  <2>2. UNCHANGED <<nextSid, sent>> /\ Opening(t)
    BY DEF Register, sids, Opening, OpeningPC
  <2>3. ~Opening(t)' /\ pc'[t] # "reserved"
    BY DEF Register, Return, Goto, Opening, OpeningPC, TypeOK, TaskTypeOK
  <2>4. \A u \in Tasks \ {t} : /\ ref'[u] = ref[u] /\ KeyOf(u)' = KeyOf(u)
                               /\ Opening(u)' <=> Opening(u)
                               /\ pc'[u] = "reserved" <=> pc[u] = "reserved"
    BY DEF Register, Return, Goto, Opening, KeyOf, TypeOK, TaskTypeOK
  <2>5. \A s \in Kept(snap[t], sessions) : s \in sessions /\ s.gen = snap[t] /\ s.sid # ref[t].sid
    BY <1>2, <2>2 DEF Kept, Lost, Tracked, SessionsCurrent, NoneBeforeReady, OpeningFresh, HasSession
  <2>6. new.sid = ref[t].sid /\ new.gen = snap[t]
    OBVIOUS
  <2> HIDE DEF new
  <2>7. SessionsCurrent' /\ NoneBeforeReady'
    BY <1>2, <2>1, <2>5, <2>6 DEF Tracked, SessionsCurrent, NoneBeforeReady
  <2>8. ref[t].sid < nextSid
    BY <2>2 DEF Tracked, SidsIssued
  <2>9. dispatched' \subseteq dispatched
    BY <2>1 DEF Kept
  <2>10. SidsIssued'
    BY <2>1, <2>2, <2>3, <2>4, <2>5, <2>6, <2>8, <2>9 DEF Tracked, SidsIssued
  <2>11. \A n : HasSession(n)' => n = ref[t].sid \/ (HasSession(n) /\ dispatched' = dispatched)
    BY <2>1, <2>5, <2>6 DEF HasSession, Kept
  <2>12. OpeningFresh'
    BY <2>2, <2>3, <2>4, <2>9, <2>11 DEF Tracked, OpeningFresh
  <2>13. ReservationHeld'
    BY <2>2, <2>3, <2>4, <2>11 DEF Tracked, ReservationHeld, OpeningFresh
  <2>14. SentRemembered'
    BY <2>2, <2>11 DEF Tracked, SentRemembered, OpeningFresh
  <2>15. ExactlyOnce'
    BY <2>2, <2>3, <2>4 DEF Tracked, ExactlyOnce
  <2> QED BY <2>7, <2>10, <2>12, <2>13, <2>14, <2>15 DEF Tracked
<1> QED BY <1>1, <1>2 DEF Register

\* A step that ends sessions and drops exactly their reservations.
LEMMA ForgetTracked ==
  ASSUME IInv, NEW t \in Tasks, NEW p, Goto(t, p), p \notin OpeningPC \union {"reserved"},
         \A u \in Tasks \ {t} : ref'[u] = ref[u] /\ req'[u] = req[u],
         UNCHANGED <<nextSid, sent>>,
         \/ generation' = generation /\ sessions' \subseteq sessions
         \/ sessions' = {},
         dispatched' \subseteq dispatched,
         \A k \in dispatched \ dispatched' : ~HasSession(k.sid)'
  PROVE  Tracked'
<1> USE DEF IInv
<1>1. ~Opening(t)' /\ pc'[t] # "reserved"
  BY DEF Goto, Opening, TypeOK, TaskTypeOK
<1>2. \A u \in Tasks \ {t} : /\ ref'[u] = ref[u] /\ KeyOf(u)' = KeyOf(u)
                             /\ Opening(u)' <=> Opening(u)
                             /\ pc'[u] = "reserved" <=> pc[u] = "reserved"
  BY DEF Goto, Opening, KeyOf, TypeOK, TaskTypeOK
<1>3. \A n : HasSession(n)' => HasSession(n)
  BY DEF HasSession
<1>4. SessionsCurrent' /\ NoneBeforeReady'
  BY DEF Tracked, SessionsCurrent, NoneBeforeReady
<1>5. SidsIssued'
  BY <1>1, <1>2 DEF Tracked, SidsIssued
<1>6. OpeningFresh'
  BY <1>1, <1>2, <1>3 DEF Tracked, OpeningFresh
<1>7. ReservationHeld'
  <2> SUFFICES ASSUME NEW u \in Tasks, pc'[u] = "reserved", HasSession(ref[u].sid)', u # t
               PROVE  KeyOf(u) \in dispatched'
    BY <1>1, <1>2 DEF ReservationHeld
  <2>1. KeyOf(u) \in dispatched
    BY <1>2, <1>3 DEF Tracked, ReservationHeld
  <2> QED BY <2>1 DEF KeyOf
<1>8. SentRemembered'
  BY <1>3 DEF Tracked, SentRemembered
<1>9. ExactlyOnce'
  BY <1>1, <1>2 DEF Tracked, ExactlyOnce
<1> QED BY <1>4, <1>5, <1>6, <1>7, <1>8, <1>9 DEF Tracked

\* A closed session loses its dispatched keys with its entry.
LEMMA CloseSessionTracked ==
  ASSUME IInv, NEW t \in Tasks, NEW r \in sessions, CloseSession(t, r)
  PROVE  Tracked'
<1>1. \A u \in Tasks \ {t} : ref'[u] = ref[u] /\ req'[u] = req[u]
  BY DEF CloseSession, IInv, TypeOK, TaskTypeOK
<1>2. sessions' \subseteq sessions /\ dispatched' \subseteq dispatched /\ generation' = generation
  BY DEF CloseSession
<1>3. \A k \in dispatched \ dispatched' : ~HasSession(k.sid)'
  BY DEF CloseSession, HasSession
<1>4. Goto(t, "closing") /\ UNCHANGED <<nextSid, sent>>
  BY DEF CloseSession, sids
<1> QED BY <1>1, <1>2, <1>3, <1>4, ForgetTracked DEF OpeningPC

\* A restart empties both tables together.
LEMMA RestartBeginTracked ==
  ASSUME IInv, NEW t \in Tasks, RestartBegin(t)
  PROVE  Tracked'
<1>1. UNCHANGED <<nextSid, sent, ref, req>>
  BY DEF RestartBegin, sids, callVars
<1>2. CASE Goto(t, "idle") /\ UNCHANGED stateVars
  BY <1>1, <1>2, ForgetTracked DEF stateVars, OpeningPC
<1>3. CASE Goto(t, "restarting") /\ sessions' = {} /\ dispatched' = {}
  BY <1>1, <1>3, ForgetTracked DEF HasSession, OpeningPC
<1> QED BY <1>2, <1>3 DEF RestartBegin

\* So does a shutdown.
LEMMA ShutdownTracked ==
  ASSUME IInv, NEW t \in Tasks, Shutdown(t)
  PROVE  Tracked'
<1>1. UNCHANGED <<nextSid, sent, ref, req>> /\ Goto(t, "draining")
  BY DEF Shutdown, sids, callVars
<1>2. sessions' = {} /\ dispatched' = {}
  BY DEF Shutdown
<1> QED BY <1>1, <1>2, ForgetTracked DEF HasSession, OpeningPC

\* The reservation is of an action never sent: the session is registered, so
\* the exactly-once table remembers all it has sent.
LEMMA ReserveTracked ==
  ASSUME IInv, NEW t \in Tasks, Reserve(t)
  PROVE  Tracked'
<1> USE DEF IInv
<1>1. UNCHANGED <<nextSid, sent, ref, req, sessions, generation>>
  BY DEF Reserve, sids, callVars
<1>2. ~Opening(t)' /\ pc'[t] = "reserved" /\ gate = t
  BY DEF Reserve, Goto, Opening, OpeningPC, TypeOK, TaskTypeOK, GateExclusive, GatedPC
<1>3. \A u \in Tasks \ {t} : /\ Opening(u)' <=> Opening(u)
                             /\ pc'[u] # "reserved" /\ pc[u] # "reserved"
  BY <1>2 DEF Reserve, Goto, Opening, TypeOK, TaskTypeOK, GateExclusive, GatedPC
<1>4. HasSession(ref[t].sid) /\ KeyOf(t).sid = ref[t].sid
  BY DEF Reserve, ValidSession, HasSession, KeyOf
<1>5. KeyOf(t) \notin sent
  BY <1>4 DEF Reserve, Tracked, SentRemembered
<1>6. dispatched' = dispatched \union {KeyOf(t)} /\ \A u \in Tasks : KeyOf(u)' = KeyOf(u)
  BY <1>1 DEF Reserve, KeyOf
<1>7. \A n : HasSession(n)' <=> HasSession(n)
  BY <1>1 DEF HasSession
<1>8. SessionsCurrent' /\ NoneBeforeReady'
  BY <1>1 DEF Tracked, SessionsCurrent, NoneBeforeReady
<1>9. ref[t].sid < nextSid
  BY <1>4 DEF Tracked, SidsIssued, HasSession
<1>10. SidsIssued'
  BY <1>1, <1>2, <1>3, <1>4, <1>6, <1>9 DEF Tracked, SidsIssued
<1>11. OpeningFresh'
  BY <1>1, <1>2, <1>3, <1>4, <1>6, <1>7 DEF Tracked, OpeningFresh
<1>12. ReservationHeld'
  BY <1>3, <1>6 DEF ReservationHeld
<1>13. SentRemembered'
  BY <1>1, <1>6, <1>7 DEF Tracked, SentRemembered
<1>14. ExactlyOnce'
  BY <1>1, <1>3, <1>5, <1>6 DEF ExactlyOnce
<1> QED BY <1>8, <1>10, <1>11, <1>12, <1>13, <1>14 DEF Tracked

\* The reservation undone is of an action never sent.
LEMMA CancelTracked ==
  ASSUME IInv, NEW t \in Tasks, CancelReservation(t)
  PROVE  Tracked'
<1> USE DEF IInv
<1>1. UNCHANGED <<nextSid, sent, sessions, generation>> /\ dispatched' = dispatched \ {KeyOf(t)}
  BY DEF CancelReservation, EndExecute, sids
<1>2. ~Opening(t)' /\ pc'[t] # "reserved" /\ pc[t] = "reserved" /\ gate = t
  BY DEF CancelReservation, EndExecute, Return, Goto, Opening, OpeningPC, TypeOK, TaskTypeOK,
         GateExclusive, GatedPC
<1>3. \A u \in Tasks \ {t} : /\ ref'[u] = ref[u] /\ req'[u] = req[u]
                             /\ Opening(u)' <=> Opening(u)
                             /\ pc'[u] # "reserved"
  BY <1>2 DEF CancelReservation, EndExecute, Return, Goto, callVars, Opening, TypeOK, TaskTypeOK,
              GateExclusive, GatedPC
<1>4. \A n : HasSession(n)' <=> HasSession(n)
  BY <1>1 DEF HasSession
<1>5. SessionsCurrent' /\ NoneBeforeReady'
  BY <1>1 DEF Tracked, SessionsCurrent, NoneBeforeReady
<1>6. SidsIssued'
  BY <1>1, <1>2, <1>3 DEF Tracked, SidsIssued
<1>7. OpeningFresh'
  BY <1>1, <1>2, <1>3, <1>4 DEF Tracked, OpeningFresh
<1>8. SentRemembered'
  BY <1>1, <1>2, <1>4 DEF Tracked, SentRemembered, ExactlyOnce
<1>9. ReservationHeld' /\ ExactlyOnce'
  BY <1>2, <1>3 DEF ReservationHeld, ExactlyOnce
<1> QED BY <1>5, <1>6, <1>7, <1>8, <1>9 DEF Tracked

\* The action sent is in the table: its reservation is.
LEMMA DispatchTracked ==
  ASSUME IInv, NEW t \in Tasks, Dispatch(t)
  PROVE  Tracked'
<1> USE DEF IInv
<1>1. UNCHANGED <<nextSid, ref, req, dispatched, sessions, generation>>
      /\ sent' = sent \union {KeyOf(t)}
  BY DEF Dispatch, sids, callVars, stateVars
<1>2. ~Opening(t)' /\ pc'[t] # "reserved" /\ pc[t] = "reserved" /\ gate = t
  BY DEF Dispatch, Goto, Opening, OpeningPC, TypeOK, TaskTypeOK, GateExclusive, GatedPC
<1>3. \A u \in Tasks \ {t} : (Opening(u)' <=> Opening(u)) /\ pc'[u] # "reserved"
  BY <1>2 DEF Dispatch, Goto, Opening, TypeOK, TaskTypeOK, GateExclusive, GatedPC
<1>4. \A n : HasSession(n)' <=> HasSession(n)
  BY <1>1 DEF HasSession
<1>5. KeyOf(t).sid = ref[t].sid
  BY DEF KeyOf
<1>6. SessionsCurrent' /\ NoneBeforeReady'
  BY <1>1 DEF Tracked, SessionsCurrent, NoneBeforeReady
<1>7. SidsIssued'
  BY <1>1, <1>2, <1>3, <1>5 DEF Tracked, SidsIssued
<1>8. OpeningFresh'
  <2> SUFFICES ASSUME NEW u \in Tasks, Opening(u)'
               PROVE  /\ ~HasSession(ref[u].sid)
                      /\ \A k \in sent' \union dispatched : k.sid # ref[u].sid
                      /\ \A v \in Tasks \ {u} : Opening(v)' => ref[v].sid # ref[u].sid
    BY <1>1, <1>2, <1>3, <1>4 DEF OpeningFresh
  <2>1. u # t /\ Opening(u)
    BY <1>2, <1>3
  <2> QED BY <1>1, <1>2, <1>3, <1>5, <2>1 DEF Tracked, OpeningFresh
<1>9. SentRemembered'
  BY <1>1, <1>2, <1>4, <1>5 DEF Tracked, SentRemembered, ReservationHeld
<1>10. ReservationHeld' /\ ExactlyOnce'
  BY <1>2, <1>3 DEF ReservationHeld, ExactlyOnce
<1> QED BY <1>6, <1>7, <1>8, <1>9, <1>10 DEF Tracked

\* The initial state satisfies the invariant.
LEMMA InitIInv == Init => IInv
<1> SUFFICES ASSUME Init PROVE IInv
  OBVIOUS
<1>1. HostTypeOK
  BY BoundAssumption, ZeroTyped DEF Init, HostTypeOK, HostStates
<1>2. StateTypeOK
  <2>1. 0 \in 0..RestartLimit /\ 1 \in 1..(MaxLease + 1)
    BY BoundAssumption
  <2> QED BY <2>1, ZeroTyped DEF Init, StateTypeOK
<1>3. TaskTypeOK
  BY ZeroTyped DEF Init, TaskTypeOK, PC
<1>4. CallTyped /\ GateExclusive
  BY NilAssumption DEF Init, CallTyped, BoundPC, OpeningPC, GateExclusive, GatedPC
<1>5. Tracked
  BY DEF Init, Tracked, SessionsCurrent, NoneBeforeReady, SidsIssued, OpeningFresh,
         ReservationHeld, SentRemembered, ExactlyOnce, Opening, OpeningPC
<1> QED BY <1>1, <1>2, <1>3, <1>4, <1>5 DEF IInv, TypeOK

\* Every step keeps what is tracked.
LEMMA TrackedStep ==
  ASSUME IInv, [Next]_vars
  PROVE  Tracked'
<1>1. CASE UNCHANGED vars
  BY <1>1 DEF vars, stateVars, callVars, sids, IInv, Tracked, SessionsCurrent, NoneBeforeReady,
         SidsIssued, OpeningFresh, ReservationHeld, SentRemembered, ExactlyOnce, Opening,
         HasSession, KeyOf
<1>2. ASSUME NEW t \in Tasks, Call(t) \/ Continue(t) PROVE Tracked'
  <2>1. CASE \/ Sync(t) \/ OpenCreate(t) \/ Register(t) \/ Reserve(t) \/ CancelReservation(t)
             \/ Dispatch(t) \/ RestartBegin(t) \/ Shutdown(t)
             \/ \E r \in sessions : CloseSession(t, r)
    BY <2>1, SyncTracked, OpenCreateTracked, RegisterTracked, CloseSessionTracked, ReserveTracked,
       CancelTracked, DispatchTracked, RestartBeginTracked, ShutdownTracked
  <2>2. CASE QuietStep
    BY <2>2, Quiet DEF IInv
  <2> QED BY <1>2, <2>1, <2>2, QuietActions
          DEF IInv, Call, Continue, Refresh, SessionStep, ExecuteStep, ResumeStep, LifecycleStep
<1>3. CASE Environment /\ Tasks # {}
  BY <1>3, Quiet, QuietActions DEF IInv, Environment
<1>4. CASE Environment /\ Tasks = {}
  BY <1>4 DEF Environment, ProcessDies, LeaseDeadline, RecordApproval,
         DiscardContext, stateVars, sids, IInv, Tracked, SessionsCurrent, NoneBeforeReady,
         SidsIssued, OpeningFresh, ReservationHeld, SentRemembered, ExactlyOnce, HasSession
<1> QED BY <1>1, <1>2, <1>3, <1>4 DEF Next

-----------------------------------------------------------------------------
(* The theorems.                                                           *)

\* The invariant is inductive.
THEOREM Invariance == Spec => []IInv
<1>1. IInv /\ [Next]_vars => IInv'
  BY TypeStep, CallTypedStep, GateStep, TrackedStep DEF IInv
<1> QED BY InitIInv, <1>1, PTL DEF Spec

\* Every variable always has its type.
THEOREM TypeCorrect == Spec => []TypeOK
<1>1. IInv => TypeOK
  BY DEF IInv
<1> QED BY Invariance, <1>1, PTL

\* No action is sent twice, whatever restarts, closes and resumes happen.
THEOREM ExactlyOnceDispatch == Spec => []ExactlyOnce
<1>1. IInv => ExactlyOnce
  BY DEF IInv, Tracked
<1> QED BY Invariance, <1>1, PTL

\* What a usable session has sent stays in the exactly-once table.
THEOREM DispatchRemembered == Spec => []SentRemembered
<1>1. IInv => SentRemembered
  BY DEF IInv, Tracked
<1> QED BY Invariance, <1>1, PTL

\* Registered sessions are of the broker's generation, with distinct ids.
THEOREM SessionsOfGeneration == Spec => []SessionsCurrent
<1>1. IInv => SessionsCurrent
  BY DEF IInv, Tracked
<1> QED BY Invariance, <1>1, PTL

\* The action gate is held exactly by the one call executing.
THEOREM OneExecution == Spec => []GateExclusive
<1>1. IInv => GateExclusive
  BY DEF IInv
<1> QED BY Invariance, <1>1, PTL

-----------------------------------------------------------------------------
(* Sessions are never older than their process.                            *)

\* Generations only grow: the process of a session, the client of the host
\* and the status an open_session is about to register are none of them newer
\* than the host, and the session is not newer than that status.
Ages ==
  /\ hostClient <= hostGen
  /\ \A n \in 1..MaxSid : client[n] <= hostGen
  /\ \A t \in Tasks : pc[t] = "openStatus" /\ snap[t] # 0 => client[ref[t].sid] <= snap[t]
  /\ SessionNotOlder

\* The three outcomes of asking for the sidecar never go back to an old one.
HostForward == hostGen <= hostGen' /\ hostClient' <= hostGen'

\* The host service never goes back to an older generation.
LEMMA HostGrows ==
  ASSUME TypeOK, hostClient <= hostGen, HostStatus \/ HostStarted \/ HostNotStarted
  PROVE  HostForward
BY BoundAssumption DEF TypeOK, HostTypeOK, HostForward, HostStatus, HostStarted, HostNotStarted, hostVars

\* A step that creates no session and brings no call to the registration.
SettledStep ==
  /\ HostForward /\ client' = client /\ sessions' \subseteq sessions
  /\ \A u \in Tasks : pc'[u] = "openStatus" =>
       pc[u] = "openStatus" /\ snap'[u] = snap[u] /\ ref'[u] = ref[u]

\* Such a step keeps the ages.
LEMMA Settled ==
  ASSUME TypeOK, TypeOK', Ages, SettledStep
  PROVE  Ages'
<1>1. /\ hostGen \in Nat /\ hostGen' \in Nat /\ hostGen <= hostGen' /\ client' = client
      /\ \A n \in 1..MaxSid : client[n] \in Nat
  BY BoundAssumption DEF TypeOK, HostTypeOK, SettledStep, HostForward
<1>2. \A n \in 1..MaxSid : client'[n] <= hostGen'
  BY <1>1 DEF Ages
<1>3. SessionNotOlder'
  BY <1>1 DEF Ages, SettledStep, SessionNotOlder
<1> QED BY <1>1, <1>2, <1>3 DEF Ages, SettledStep, HostForward

\* Every step but the opening of sessions is settled.
LEMMA SettledActions ==
  ASSUME TypeOK, Ages, NEW t \in Tasks,
         Sync(t) \/ Start(t) \/ Healthy(t) \/ HangUp(t) \/ OpenStart(t) \/ CloseFinish(t) \/ EndCall(t) \/ Health(t)
         \/ CallExecute(t) \/ LockGate(t) \/ Refuse(t) \/ ProbeDone(t) \/
         AskApproval(t) \/ Reserve(t) \/ CancelReservation(t) \/ Dispatch(t) \/
         FinishExecute(t) \/ CheckResume(t) \/ RefuseResume(t) \/
         RestoreFocus(t) \/ ResumeExecute(t) \/ Revoke(t) \/ RestartBegin(t) \/
         RestartHost(t) \/ Shutdown(t) \/ ShutdownHost(t) \/ ShutdownDone(t) \/
         ResetAfterInterrupt(t) \/ ForgetContexts(t) \/ ProcessDies \/
         LeaseDeadline \/ (\E r \in sessions : CloseSession(t, r) \/
         AcquireLease(t, r)) \/ (\E l \in lease : ReleaseLease(t, l)) \/ (\E l
         \in lease, q \in Requests : Admit(t, l.ref, l.id, q)) \/ (\E q \in
         Requests : RecordApproval(q) \/ DiscardContext(q)) \/ (\E c \in
         contexts : TakeContext(t, c))
  PROVE  SettledStep
<1>0. hostGen \in Nat /\ hostClient \in Nat /\ hostClient <= hostGen /\ hostGen <= hostGen /\ 0 <= hostGen
  BY BoundAssumption DEF TypeOK, HostTypeOK, Ages
<1> USE <1>0 DEF SettledStep, HostForward, Goto, hostVars, stateVars, callVars, sids, TypeOK, TaskTypeOK, StartingPC
<1>1. CASE Sync(t)
  BY <1>1 DEF Sync, Kept
<1>2. CASE OpenStart(t)
  BY <1>2, HostGrows DEF OpenStart
<1>3. CASE CloseFinish(t)
  BY <1>3, HostGrows DEF CloseFinish, Return
<1>4. CASE EndCall(t)
  BY <1>4 DEF EndCall
<1>5. CASE Health(t)
  BY <1>5, HostGrows DEF Health
<1>6. CASE CallExecute(t)
  BY <1>6 DEF CallExecute
<1>7. CASE LockGate(t)
  BY <1>7 DEF LockGate
<1>8. CASE Refuse(t)
  BY <1>8 DEF Refuse, EndExecute, Return
<1>9. CASE ProbeDone(t)
  BY <1>9 DEF ProbeDone
<1>10. CASE AskApproval(t)
  BY <1>10 DEF AskApproval, Return
<1>11. CASE Reserve(t)
  BY <1>11 DEF Reserve
<1>12. CASE CancelReservation(t)
  BY <1>12 DEF CancelReservation, EndExecute, Return
<1>13. CASE Dispatch(t)
  BY <1>13 DEF Dispatch
<1>14. CASE FinishExecute(t)
  BY <1>14 DEF FinishExecute, EndExecute, Return
<1>15. CASE CheckResume(t)
  BY <1>15 DEF CheckResume
<1>16. CASE RefuseResume(t)
  BY <1>16 DEF RefuseResume, Return
<1>17. CASE RestoreFocus(t)
  BY <1>17 DEF RestoreFocus
<1>18. CASE ResumeExecute(t)
  BY <1>18 DEF ResumeExecute
<1>19. CASE Revoke(t)
  BY <1>19 DEF Revoke, Return
<1>20. CASE RestartBegin(t)
  BY <1>20 DEF RestartBegin
<1>21. CASE RestartHost(t)
  BY <1>21, HostGrows DEF RestartHost
<1>22. CASE Shutdown(t)
  BY <1>22 DEF Shutdown
<1>23. CASE ShutdownHost(t)
  BY <1>23 DEF ShutdownHost
<1>24. CASE ShutdownDone(t)
  BY <1>24 DEF ShutdownDone
<1>25. CASE ResetAfterInterrupt(t) \/ ForgetContexts(t)
  BY <1>25 DEF ResetAfterInterrupt, ForgetContexts
<1>26. CASE ProcessDies \/ LeaseDeadline
  BY <1>26 DEF ProcessDies, LeaseDeadline
<1>27. CASE \E r \in sessions : CloseSession(t, r) \/ AcquireLease(t, r)
  BY <1>27 DEF CloseSession, AcquireLease
<1>28. CASE \E l \in lease : ReleaseLease(t, l)
  BY <1>28 DEF ReleaseLease
<1>29. CASE \E l \in lease, q \in Requests : Admit(t, l.ref, l.id, q)
  BY <1>29 DEF Admit
<1>30. CASE \E q \in Requests : RecordApproval(q) \/ DiscardContext(q)
  BY <1>30 DEF RecordApproval, DiscardContext
<1>31. CASE \E c \in contexts : TakeContext(t, c)
  BY <1>31 DEF TakeContext
<1>32. CASE Start(t)
  BY <1>32, HostGrows DEF Start
<1>33. CASE Healthy(t)
  BY <1>33 DEF Healthy
<1>34. CASE HangUp(t)
  BY <1>34, HostGrows DEF HangUp, Return
<1> QED
  BY <1>1, <1>2, <1>3, <1>4, <1>5, <1>6, <1>7, <1>8, <1>9, <1>10, <1>11, <1>12, <1>13,
     <1>14, <1>15, <1>16, <1>17, <1>18, <1>19, <1>20, <1>21, <1>22, <1>23, <1>24, <1>25, <1>26,
     <1>27, <1>28, <1>29, <1>30, <1>31, <1>32, <1>33, <1>34

\* Reading the status on the way into a registration finds the session old enough.
LEMMA ReadStatusAges ==
  ASSUME TypeOK, TypeOK', CallTyped, Ages, NEW t \in Tasks, ReadStatus(t)
  PROVE  Ages'
<1>1. HostForward
  BY HostGrows DEF ReadStatus, Ages
<1>2. client' = client /\ sessions' = sessions /\ ref' = ref
  BY DEF ReadStatus, sids, stateVars, callVars
<1>3. CASE pc[t] # "created"
  <2>1. SettledStep
    BY <1>1, <1>2, <1>3 DEF ReadStatus, SettledStep, Goto, TypeOK, TaskTypeOK
  <2> QED BY <2>1, Settled
<1>4. CASE pc[t] = "created"
  <2>0. /\ hostGen \in Nat /\ hostGen' \in Nat /\ hostGen <= hostGen'
        /\ \A n \in 1..MaxSid : client[n] \in Nat
    BY <1>1, BoundAssumption DEF TypeOK, HostTypeOK, HostForward
  <2>1. \A n \in 1..MaxSid : client[n] <= hostGen'
    BY <2>0 DEF Ages
  <2>2. snap'[t] # 0 => snap'[t] = hostGen'
    BY DEF ReadStatus, Status, TypeOK, TaskTypeOK
  <2>3. ref[t].sid \in 1..MaxSid
    BY <1>4 DEF CallTyped, OpeningPC, Ref
  <2>4. \A u \in Tasks : pc'[u] = "openStatus" /\ snap'[u] # 0 => client'[ref'[u].sid] <= snap'[u]
    <3> SUFFICES ASSUME NEW u \in Tasks, pc'[u] = "openStatus", snap'[u] # 0
                 PROVE  client[ref[u].sid] <= snap'[u]
      BY <1>2
    <3>1. CASE u = t
      BY <2>1, <2>2, <2>3, <3>1
    <3>2. CASE u # t
      <4>1. pc[u] = "openStatus" /\ snap'[u] = snap[u]
        BY <1>4, <3>2 DEF ReadStatus, Goto, TypeOK, TaskTypeOK
      <4> QED BY <4>1 DEF Ages
    <3> QED BY <3>1, <3>2
  <2> QED BY <1>1, <1>2, <2>1, <2>4 DEF Ages, HostForward, SessionNotOlder
<1> QED BY <1>3, <1>4

\* A new session gets a fresh id and the client of now.
LEMMA OpenCreateAges ==
  ASSUME IInv, Ages, NEW t \in Tasks, OpenCreate(t)
  PROVE  Ages'
<1> USE DEF IInv
<1>1. UNCHANGED <<hostGen, hostClient, sessions, snap>>
  BY DEF OpenCreate, hostVars, stateVars
<1>2. \A u \in Tasks : pc'[u] = "openStatus" => pc[u] = "openStatus" /\ ref'[u] = ref[u]
  BY DEF OpenCreate, Goto, sids, TypeOK, TaskTypeOK
<1>3. CASE client' = client
  BY <1>1, <1>2, <1>3 DEF Ages, SessionNotOlder
<1>4. CASE nextSid <= MaxSid /\ client' = [client EXCEPT ![nextSid] = hostClient]
  <2>1. \A n : n < nextSid => client'[n] = client[n]
    BY <1>4, SidsAreNumbers DEF TypeOK, HostTypeOK
  <2>2. \A n \in 1..MaxSid : client'[n] <= hostGen
    BY <1>4 DEF Ages, TypeOK, HostTypeOK
  <2>3. \A s \in sessions : client'[s.sid] = client[s.sid]
    BY <2>1 DEF Tracked, SidsIssued
  <2>4. \A u \in Tasks : pc[u] = "openStatus" => client'[ref[u].sid] = client[ref[u].sid]
    BY <2>1 DEF Tracked, SidsIssued, Opening, OpeningPC
  <2> QED BY <1>1, <1>2, <2>2, <2>3, <2>4 DEF Ages, SessionNotOlder
<1> QED BY <1>3, <1>4 DEF OpenCreate, sids

\* The registered session is not older than the status it is registered under.
LEMMA RegisterAges ==
  ASSUME TypeOK, Ages, NEW t \in Tasks, Register(t)
  PROVE  Ages'
<1>1. UNCHANGED <<hostGen, hostClient, client>> /\ pc[t] = "openStatus"
  BY DEF Register, hostVars, sids
<1>2. \A u \in Tasks : pc'[u] = "openStatus" =>
        pc[u] = "openStatus" /\ snap'[u] = snap[u] /\ ref'[u] = ref[u]
  BY DEF Register, Return, Goto, TypeOK, TaskTypeOK
<1>3. CASE sessions' = sessions
  BY <1>1, <1>2, <1>3 DEF Ages, SessionNotOlder
<1>4. CASE /\ snap[t] # 0
           /\ sessions' = Kept(snap[t], sessions)
                \union {[sid |-> ref[t].sid, gen |-> snap[t], owner |-> ref[t].owner]}
  <2>1. \A s \in sessions' : s \in sessions \/ (s.sid = ref[t].sid /\ s.gen = snap[t])
    BY <1>4 DEF Kept
  <2>2. SessionNotOlder'
    BY <1>1, <1>4, <2>1 DEF Ages, SessionNotOlder
  <2> QED BY <1>1, <1>2, <2>2 DEF Ages
<1> QED BY <1>3, <1>4 DEF Register, stateVars

\* The step that keeps the ages.
LEMMA AgesStep ==
  ASSUME IInv, TypeOK', Ages, [Next]_vars
  PROVE  Ages'
<1> USE DEF IInv
<1>1. CASE UNCHANGED vars
  BY <1>1 DEF vars, hostVars, stateVars, callVars, sids, Ages, SessionNotOlder
<1>2. ASSUME NEW t \in Tasks, Call(t) \/ Continue(t) PROVE Ages'
  <2>1. CASE ReadStatus(t) \/ OpenCreate(t) \/ Register(t)
    BY <2>1, ReadStatusAges, OpenCreateAges, RegisterAges
  <2>2. CASE SettledStep
    BY <2>2, Settled
  <2> QED BY <1>2, <2>1, <2>2, SettledActions
          DEF Call, Continue, Refresh, SessionStep, ExecuteStep, ResumeStep, LifecycleStep
<1>3. CASE Environment /\ Tasks # {}
  BY <1>3, Settled, SettledActions DEF Environment
<1>4. CASE Environment /\ Tasks = {}
  BY <1>4 DEF Environment, ProcessDies, LeaseDeadline, RecordApproval, DiscardContext,
         hostVars, stateVars, sids, Ages, SessionNotOlder
<1> QED BY <1>1, <1>2, <1>3, <1>4 DEF Next

\* A session is never registered under a generation older than its process.
THEOREM SessionsNeverOlder == Spec => []SessionNotOlder
<1>1. Init => Ages
  BY DEF Init, Ages, SessionNotOlder
<1>2. IInv /\ IInv' /\ Ages /\ [Next]_vars => Ages'
  BY AgesStep DEF IInv
<1>3. Ages => SessionNotOlder
  BY DEF Ages
<1> QED BY Invariance, <1>1, <1>2, <1>3, PTL DEF Spec

-----------------------------------------------------------------------------
(* Refinement of DesktopWriter.                                            *)

\* A step that leaves reserved and sent actions alone is a stutter.
LEMMA WriterStutter ==
  ASSUME sent' = sent,
         \A u \in Tasks : /\ pc'[u] = "reserved" <=> pc[u] = "reserved"
                          /\ pc'[u] = "sent" <=> pc[u] = "sent"
                          /\ pc[u] \in {"reserved", "sent"} => ref'[u] = ref[u] /\ req'[u] = req[u]
  PROVE  UNCHANGED Writer!vars
<1>1. \A u \in Tasks : pc[u] \in {"reserved", "sent"} => KeyOf(u)' = KeyOf(u)
  BY DEF KeyOf
<1>2. {KeyOf(t) : t \in {u \in Tasks : pc[u] = "reserved"}}'
        = {KeyOf(t) : t \in {u \in Tasks : pc[u] = "reserved"}}
  BY <1>1
<1>3. {KeyOf(t) : t \in {u \in Tasks : pc[u] = "sent"}}'
        = {KeyOf(t) : t \in {u \in Tasks : pc[u] = "sent"}}
  BY <1>1
<1> QED BY <1>2, <1>3 DEF Writer!vars

\* Under the gate, what is reserved or written is the action of one call.
LEMMA OneWriter ==
  ASSUME GateExclusive, NEW t \in Tasks, pc[t] \in GatedPC
  PROVE  /\ {KeyOf(u) : u \in {v \in Tasks : pc[v] = "reserved"}}
              = IF pc[t] = "reserved" THEN {KeyOf(t)} ELSE {}
         /\ {KeyOf(u) : u \in {v \in Tasks : pc[v] = "sent"}}
              = IF pc[t] = "sent" THEN {KeyOf(t)} ELSE {}
BY DEF GateExclusive, GatedPC

\* ... and in the next state.
LEMMA OneWriterNext ==
  ASSUME GateExclusive', NEW t \in Tasks, pc'[t] \in GatedPC
  PROVE  /\ {KeyOf(u) : u \in {v \in Tasks : pc[v] = "reserved"}}'
              = IF pc'[t] = "reserved" THEN {KeyOf(t)'} ELSE {}
         /\ {KeyOf(u) : u \in {v \in Tasks : pc[v] = "sent"}}'
              = IF pc'[t] = "sent" THEN {KeyOf(t)'} ELSE {}
BY DEF GateExclusive, GatedPC

\* Every step outside of reservation, dispatch and their ends is a stutter.
LEMMA SilentActions ==
  ASSUME TypeOK, NEW t \in Tasks,
         \/ Start(t) \/ Healthy(t) \/ HangUp(t)
         \/ ReadStatus(t) \/ Sync(t) \/ OpenStart(t) \/ OpenCreate(t) \/ Register(t)
         \/ CloseFinish(t) \/ EndCall(t) \/ Health(t) \/ CallExecute(t) \/ LockGate(t)
         \/ Refuse(t) \/ ProbeDone(t) \/ AskApproval(t) \/ CheckResume(t) \/ RefuseResume(t)
         \/ RestoreFocus(t) \/ ResumeExecute(t) \/ Revoke(t) \/ RestartBegin(t) \/ RestartHost(t)
         \/ Shutdown(t) \/ ShutdownHost(t) \/ ShutdownDone(t)
         \/ ResetAfterInterrupt(t) \/ ForgetContexts(t)
         \/ (\E r \in sessions : CloseSession(t, r) \/ AcquireLease(t, r))
         \/ (\E l \in lease : ReleaseLease(t, l))
         \/ (\E l \in lease, q \in Requests : Admit(t, l.ref, l.id, q))
         \/ (\E c \in contexts : TakeContext(t, c))
  PROVE  UNCHANGED Writer!vars
<1> USE WriterStutter DEF Goto, callVars, TypeOK, TaskTypeOK, StartingPC
<1>1. CASE ReadStatus(t)
  BY <1>1 DEF ReadStatus
<1>2. CASE Sync(t)
  BY <1>2 DEF Sync
<1>3. CASE OpenStart(t)
  BY <1>3 DEF OpenStart
<1>4. CASE OpenCreate(t)
  BY <1>4 DEF OpenCreate
<1>5. CASE Register(t)
  BY <1>5 DEF Register, Return
<1>6. CASE CloseFinish(t)
  BY <1>6 DEF CloseFinish, Return
<1>7. CASE EndCall(t)
  BY <1>7 DEF EndCall
<1>8. CASE Health(t)
  BY <1>8 DEF Health
<1>9. CASE CallExecute(t)
  BY <1>9 DEF CallExecute
<1>10. CASE LockGate(t)
  BY <1>10 DEF LockGate
<1>11. CASE Refuse(t)
  BY <1>11 DEF Refuse, EndExecute, Return
<1>12. CASE ProbeDone(t)
  BY <1>12 DEF ProbeDone
<1>13. CASE AskApproval(t)
  BY <1>13 DEF AskApproval, Return
<1>14. CASE CheckResume(t)
  BY <1>14 DEF CheckResume
<1>15. CASE RefuseResume(t)
  BY <1>15 DEF RefuseResume, Return
<1>16. CASE RestoreFocus(t)
  BY <1>16 DEF RestoreFocus
<1>17. CASE ResumeExecute(t)
  BY <1>17 DEF ResumeExecute
<1>18. CASE Revoke(t)
  BY <1>18 DEF Revoke, Return
<1>19. CASE RestartBegin(t)
  BY <1>19 DEF RestartBegin
<1>20. CASE RestartHost(t)
  BY <1>20 DEF RestartHost
<1>21. CASE Shutdown(t)
  BY <1>21 DEF Shutdown
<1>22. CASE ShutdownHost(t)
  BY <1>22 DEF ShutdownHost
<1>23. CASE ShutdownDone(t) \/ ResetAfterInterrupt(t) \/ ForgetContexts(t)
  BY <1>23 DEF ShutdownDone, ResetAfterInterrupt, ForgetContexts
<1>24. CASE \E r \in sessions : CloseSession(t, r) \/ AcquireLease(t, r)
  BY <1>24 DEF CloseSession, AcquireLease
<1>25. CASE \E l \in lease : ReleaseLease(t, l)
  BY <1>25 DEF ReleaseLease
<1>26. CASE \E l \in lease, q \in Requests : Admit(t, l.ref, l.id, q)
  BY <1>26 DEF Admit
<1>27. CASE \E c \in contexts : TakeContext(t, c)
  BY <1>27 DEF TakeContext
<1>28. CASE Start(t)
  BY <1>28 DEF Start
<1>29. CASE Healthy(t)
  BY <1>29 DEF Healthy
<1>30. CASE HangUp(t)
  BY <1>30 DEF HangUp, Return
<1> QED BY <1>1, <1>2, <1>3, <1>4, <1>5, <1>6, <1>7, <1>8, <1>9, <1>10, <1>11, <1>12, <1>13, <1>14, <1>15, <1>16, <1>17, <1>18, <1>19, <1>20, <1>21, <1>22, <1>23, <1>24, <1>25, <1>26, <1>27, <1>28, <1>29, <1>30

\* The steps of DesktopWriter that the four others implement.
LEMMA WriterActions ==
  ASSUME IInv, IInv', NEW t \in Tasks,
         Reserve(t) \/ CancelReservation(t) \/ Dispatch(t) \/ FinishExecute(t)
  PROVE  Writer!Next
<1> USE DEF IInv, TypeOK
<1>1. PICK a \in Key : a = KeyOf(t)
  BY DEF CallTyped, BoundPC, Reserve, CancelReservation, Dispatch, FinishExecute, KeyOf, Key, Ref
<1>2. pc[t] \in GatedPC
  BY DEF Reserve, CancelReservation, Dispatch, FinishExecute, GatedPC
<1>3. CASE Reserve(t)
  <2>1. pc'[t] = "reserved" /\ pc[t] \notin {"reserved", "sent"} /\ KeyOf(t)' = KeyOf(t)
    BY <1>3 DEF Reserve, Goto, TaskTypeOK, callVars, KeyOf
  <2>2. KeyOf(t) \notin sent /\ sent' = sent
    BY <1>3, <2>1 DEF Reserve, Tracked, ExactlyOnce
  <2>3. Writer!Reserve(a)
    BY <1>1, <1>2, <2>1, <2>2, OneWriter, OneWriterNext DEF Writer!Reserve, GatedPC
  <2> QED BY <1>1, <2>3 DEF Writer!Next
<1>4. CASE CancelReservation(t)
  <2>1. pc[t] = "reserved" /\ sent' = sent
    BY <1>4 DEF CancelReservation
  <2>2. \A u \in Tasks : pc'[u] \notin {"reserved", "sent"}
    BY <1>2, <1>4 DEF CancelReservation, EndExecute, Return, Goto, TaskTypeOK, GateExclusive, GatedPC
  <2>3. Writer!Cancel
    BY <1>2, <2>1, <2>2, OneWriter DEF Writer!Cancel
  <2> QED BY <2>3 DEF Writer!Next
<1>5. CASE Dispatch(t)
  <2>1. pc[t] = "reserved" /\ pc'[t] = "sent" /\ KeyOf(t)' = KeyOf(t) /\ sent' = sent \union {KeyOf(t)}
    BY <1>5 DEF Dispatch, Goto, TaskTypeOK, callVars, KeyOf
  <2>2. Writer!Write(a)
    BY <1>1, <1>2, <2>1, OneWriter, OneWriterNext DEF Writer!Write, GatedPC
  <2> QED BY <1>1, <2>2 DEF Writer!Next
<1>6. CASE FinishExecute(t)
  <2>1. pc[t] = "sent" /\ sent' = sent
    BY <1>6 DEF FinishExecute
  <2>2. \A u \in Tasks : pc'[u] \notin {"reserved", "sent"}
    BY <1>2, <1>6 DEF FinishExecute, EndExecute, Return, Goto, TaskTypeOK, GateExclusive, GatedPC
  <2>3. Writer!Answer
    BY <1>2, <2>1, <2>2, OneWriter DEF Writer!Answer
  <2> QED BY <2>3 DEF Writer!Next
<1> QED BY <1>3, <1>4, <1>5, <1>6

\* Every step of the broker is a step of DesktopWriter or a stutter.
LEMMA WriterStep ==
  ASSUME IInv, IInv', [Next]_vars
  PROVE  [Writer!Next]_(Writer!vars)
<1>1. CASE UNCHANGED vars
  BY <1>1, WriterStutter DEF vars, callVars
<1>2. CASE Environment
  BY <1>2, WriterStutter DEF Environment, ProcessDies, LeaseDeadline, RecordApproval,
         DiscardContext, callVars
<1>3. ASSUME NEW t \in Tasks, Call(t) \/ Continue(t) PROVE [Writer!Next]_(Writer!vars)
  <2>1. CASE Reserve(t) \/ CancelReservation(t) \/ Dispatch(t) \/ FinishExecute(t)
    BY <2>1, WriterActions
  <2>2. CASE UNCHANGED Writer!vars
    BY <2>2
  <2> QED BY <1>3, <2>1, <2>2, SilentActions
          DEF IInv, Call, Continue, Refresh, SessionStep, ExecuteStep, ResumeStep, LifecycleStep
<1> QED BY <1>1, <1>2, <1>3 DEF Next

\* The broker implements DesktopWriter: input is written one action at a
\* time, and no action twice.
THEOREM Refinement == Spec => WriterSpec
<1>1. Init => Writer!Init
  BY DEF Init, Writer!Init
<1>2. IInv /\ IInv' /\ [Next]_vars => [Writer!Next]_(Writer!vars)
  BY WriterStep
<1> QED BY Invariance, <1>1, <1>2, PTL DEF Spec, WriterSpec, Writer!Spec
=============================================================================
