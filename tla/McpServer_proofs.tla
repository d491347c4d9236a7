--------------------------- MODULE McpServer_proofs ---------------------------
(***************************************************************************)
(* Proofs about the batches of the MCP server, for any windows, lengths of *)
(* batches, attempts to rebind and numbers of sidecar processes.           *)
(***************************************************************************)
EXTENDS McpServer, TLAPS, FiniteSetTheorems

\* Processes are numbered in the order they are started.
GenInv ==
  /\ host \in Nat /\ spawned \in Nat /\ own \in Nat
  /\ host <= spawned /\ own <= spawned
  /\ pc \in Holding \union {"lease"} => own # 0

\* The lease is the lease of the call, which holds it until its release.
LeaseInv == lease \subseteq {own} /\ (pc \notin Holding => lease = {})

\* A batch with a pointer action has a frame.
BatchInv ==
  /\ batch \in Seq(Kinds)
  /\ \A i \in 1..Len(batch) : batch[i] = "pointer" => needsFrame

\* The frame is of the session of the call, or that session is lost.
AimInv ==
  pc \in {"steps", "performed", "rebind", "probe"} /\ needsFrame => frame = own \/ host # own

\* A frame older than a change of foreground is used with global input only.
StaleInv ==
  requested = NoWindow /\ needsFrame /\ stale =>
    /\ pc = "steps" => pending
    /\ pc = "performed" => pending \/ action_changes_foreground(Head(batch))

\* Program points of a batch and of the picture after it.
Busy == {"capture", "steps", "performed", "refused", "rebind", "probe", "failed", "release",
         "output"}

\* Input stays global while an overlay is open.
OverlayInv ==
  /\ overlay => pc \in Busy
  /\ requested = NoWindow /\ overlay =>
       /\ pc \in {"steps", "capture", "rebind", "probe"} => pending /\ ~committed
       /\ pc \in {"rebind", "probe"} => why = "wait"
       /\ pc = "performed" => \/ Head(batch) = "overlay"
                              \/ pending /\ ~committed /\ Head(batch) \notin {"switch", "commit"}

SentInv == AimedInItsSession /\ FrameFollowsSwitch /\ OverlayGetsTheKeys

\* Between calls nothing is remembered of what was sent; an action that was
\* performed is still the head of its batch.
QuietInv ==
  /\ pc \notin Busy => sent = {}
  /\ pc = "performed" => batch # <<>>

IInv == GenInv /\ LeaseInv /\ BatchInv /\ AimInv /\ StaleInv /\ OverlayInv /\ SentInv /\ QuietInv

\* A call that is answered leaves nothing but the processes.
LEMMA AnswerKeeps ==
  ASSUME NEW e, Answer(e), host' \in Nat, spawned' \in Nat, host' <= spawned', lease' = {}
  PROVE  IInv'
<1>1. pc' = "idle" /\ own' = 0 /\ batch' = <<>> /\ ~stale' /\ ~overlay' /\ sent' = {}
  BY DEF Answer
<1>2. GenInv' /\ LeaseInv' /\ BatchInv' /\ QuietInv'
  BY <1>1 DEF GenInv, LeaseInv, BatchInv, QuietInv, Busy, Holding
<1>3. AimInv' /\ StaleInv' /\ OverlayInv' /\ SentInv'
  BY <1>1 DEF AimInv, StaleInv, OverlayInv, Busy, SentInv, AimedInItsSession, FrameFollowsSwitch,
              OverlayGetsTheKeys
<1> QED BY <1>2, <1>3 DEF IInv

\* Outside a batch nothing is sent.
LEMMA NothingSent ==
  ASSUME sent' = {}
  PROVE  SentInv'
BY DEF SentInv, AimedInItsSession, FrameFollowsSwitch, OverlayGetsTheKeys

\* What was sent stays as it was judged.
LEMMA SentSame ==
  ASSUME IInv, UNCHANGED <<sent, requested, overlay>>
  PROVE  SentInv'
BY DEF IInv, SentInv, AimedInItsSession, FrameFollowsSwitch, OverlayGetsTheKeys

\* The rest of a batch needs no frame the batch did not need.
LEMMA TailKeeps ==
  ASSUME BatchInv, batch # <<>>, batch' = Tail(batch), needsFrame' = needsFrame
  PROVE  BatchInv'
<1>1. Tail(batch) \in Seq(Kinds) /\ Len(Tail(batch)) = Len(batch) - 1 /\ Len(batch) \in Nat
  BY DEF BatchInv
<1>2. ASSUME NEW i \in 1..Len(Tail(batch)) PROVE Tail(batch)[i] = batch[i + 1] /\ i + 1 \in 1..Len(batch)
  BY <1>1, <1>2 DEF BatchInv
<1> QED BY <1>1, <1>2 DEF BatchInv

\* What the host service and the broker do keeps the numbers in order.
LEMMA SessionFacts ==
  ASSUME IInv, Session
  PROVE  /\ host' \in Nat \ {0} /\ spawned' \in Nat /\ host' <= spawned' /\ spawned <= spawned'
         /\ sess' = host' /\ lease' \in {{}, lease}
         /\ host' = host \/ host' > spawned
<1>1. host \in Nat /\ spawned \in Nat /\ host <= spawned
  BY DEF IInv, GenInv
<1>2. CASE SessionReady
  BY <1>1, <1>2 DEF Session, SessionReady, brokerVars
<1>3. CASE ~SessionReady
  BY <1>1, <1>3 DEF Session, Started
<1> QED BY <1>2, <1>3

\* Also when it fails.
LEMMA SessionFailsFacts ==
  ASSUME IInv, SessionFails
  PROVE  /\ host' \in Nat /\ spawned' \in Nat /\ host' <= spawned' /\ spawned <= spawned'
         /\ lease' \in {{}, lease} /\ (host' = host \/ host' > spawned)
<1>1. host \in Nat /\ spawned \in Nat /\ host <= spawned
  BY DEF IInv, GenInv
<1> QED BY <1>1 DEF SessionFails, Started

\* A refresh may lose the lease and never grants one.
LEMMA RefreshFacts ==
  ASSUME Refresh
  PROVE  lease' \in {{}, lease}
BY DEF Refresh

-----------------------------------------------------------------------------
(* The environment, and the calls without a batch.                         *)

\* Outside the batch only the numbers and the lease matter.
LEMMA OutsideKeeps ==
  ASSUME IInv, GenInv', LeaseInv', BatchInv', UNCHANGED <<overlay, sent, requested>>,
         pc' \notin {"capture", "steps", "performed", "rebind", "probe"},
         pc' \in Busy \/ (~overlay /\ sent = {})
  PROVE  IInv'
<1>1. AimInv' /\ StaleInv' /\ OverlayInv' /\ QuietInv'
  BY DEF AimInv, StaleInv, OverlayInv, QuietInv
<1> QED BY <1>1, SentSame DEF IInv

\* Crashes, deadlines, and steps that change nothing.
LEMMA EnvironmentKeeps ==
  ASSUME IInv, ProcessDies \/ LeaseDeadline \/ UNCHANGED vars
  PROVE  IInv'
<1>1. /\ UNCHANGED <<spawned, pc, batch, needsFrame, own, requested, frame, pending, committed, why,
                    stale, overlay, sent, lease>>
      /\ host' \in {host, 0}
  BY DEF ProcessDies, LeaseDeadline, vars, brokerVars, callVars, stepVars, histVars
<1>2. GenInv'
  BY <1>1 DEF IInv, GenInv
<1>3. LeaseInv' /\ BatchInv'
  BY <1>1 DEF IInv, LeaseInv, BatchInv
<1>4. AimInv'
  BY <1>1 DEF IInv, GenInv, AimInv, Holding
<1>5. StaleInv' /\ OverlayInv' /\ QuietInv'
  BY <1>1 DEF IInv, StaleInv, OverlayInv, QuietInv
<1>6. SentInv'
  BY <1>1, SentSame
<1> QED BY <1>2, <1>3, <1>4, <1>5, <1>6 DEF IInv

\* A request arrives, or the input ends.
LEMMA RequestKeeps ==
  ASSUME IInv, Request
  PROVE  IInv'
<1>1. pc = "idle" /\ lease = {} /\ ~overlay /\ sent = {} /\ host \in Nat /\ spawned \in Nat /\ host <= spawned
  BY DEF IInv, GenInv, LeaseInv, OverlayInv, QuietInv, Busy, Holding, Request, CallBatch, CallTool, Refused, EndOfInput
<1>2. ASSUME NEW b \in Batches, NEW req, NEW shot \in BOOLEAN, CallBatch(b, req, shot)
      PROVE  IInv'
  <2>1. /\ UNCHANGED <<brokerVars, own, overlay, sent, stale>> /\ batch' = b
        /\ pc' \in {"session", "plain"} /\ requested' = req
    BY <1>2 DEF CallBatch, Goto
  <2>2. b \in Seq(Kinds)
    BY DEF Batches
  <2>3. needsFrame' = \E i \in 1..Len(b) : b[i] = "pointer"
    BY <1>2 DEF CallBatch, Contains, action_requires_frame
  <2>4. BatchInv'
    BY <2>1, <2>2, <2>3 DEF BatchInv
  <2>5. GenInv' /\ LeaseInv'
    BY <1>1, <2>1 DEF IInv, GenInv, LeaseInv, Holding, brokerVars
  <2>6. AimInv' /\ StaleInv' /\ OverlayInv'
    BY <1>1, <2>1 DEF AimInv, StaleInv, OverlayInv
  <2>7. SentInv' /\ QuietInv'
    BY <1>1, <2>1, NothingSent DEF QuietInv
  <2> QED BY <2>4, <2>5, <2>6, <2>7 DEF IInv
<1>3. ASSUME NEW t, CallTool(t) PROVE IInv'
  <2>1. /\ UNCHANGED <<brokerVars, own, overlay, sent, requested, batch, needsFrame>>
        /\ pc' \in {"session", "health"}
    BY <1>3 DEF CallTool, Goto
  <2>2. GenInv' /\ LeaseInv' /\ BatchInv'
    BY <1>1, <2>1 DEF IInv, GenInv, LeaseInv, BatchInv, Holding, brokerVars
  <2> QED BY <1>1, <2>1, <2>2, OutsideKeeps
<1>4. CASE Refused
  <2>1. Answer(TRUE) /\ UNCHANGED brokerVars
    BY <1>4 DEF Refused
  <2> QED BY <1>1, <2>1, AnswerKeeps DEF brokerVars
<1>5. CASE EndOfInput
  <2>1. /\ UNCHANGED <<spawned, own, overlay, sent, requested, batch, needsFrame>>
        /\ pc' = "stopped" /\ host' = 0 /\ lease' = {}
    BY <1>5 DEF EndOfInput, Goto, callVars, histVars
  <2>2. GenInv' /\ LeaseInv' /\ BatchInv'
    BY <1>1, <2>1 DEF IInv, GenInv, LeaseInv, BatchInv, Holding
  <2> QED BY <1>1, <2>1, <2>2, OutsideKeeps
<1> QED BY <1>2, <1>3, <1>4, <1>5 DEF Request
\* Facts every action of the server starts from.
LEMMA Numbers ==
  ASSUME IInv
  PROVE  /\ host \in Nat /\ spawned \in Nat /\ own \in Nat /\ host <= spawned /\ own <= spawned
         /\ lease \subseteq {own}
         /\ pc \notin Holding => lease = {}
         /\ pc \notin Busy => ~overlay /\ sent = {}
BY DEF IInv, GenInv, LeaseInv, OverlayInv, QuietInv

\* Calls that hold no lease: a start, a read, waits without input, a picture.
LEMMA FreeKeeps ==
  ASSUME IInv, Health \/ PlainStep \/ PlainEnd \/ OpenSession \/ Read \/ Output
  PROVE  IInv'
<1>1. pc \notin Holding
  BY DEF Health, PlainStep, PlainEnd, OpenSession, Read, Output, Holding
<1>2. CASE Health
  <2>1. lease' = {} /\ (Started \/ UNCHANGED <<host, spawned>>)
    BY <1>1, <1>2, Numbers DEF Health, brokerVars
  <2>2. host' \in Nat /\ spawned' \in Nat /\ host' <= spawned'
    BY <2>1, Numbers DEF Started
  <2>3. \E e \in BOOLEAN : Answer(e)
    BY <1>2 DEF Health
  <2> QED BY <2>1, <2>2, <2>3, AnswerKeeps
<1>3. CASE PlainStep
  <2>1. UNCHANGED <<host, spawned, lease>>
    BY <1>3 DEF PlainStep, brokerVars
  <2>2. ASSUME Answer(TRUE) PROVE IInv'
    BY <1>1, <2>1, <2>2, Numbers, AnswerKeeps
  <2>3. CASE /\ batch' = Tail(batch)
             /\ UNCHANGED <<requested, needsFrame, own, pc, overlay, sent>>
    <3>1. BatchInv'
      BY <1>3, <2>3, TailKeeps DEF PlainStep, IInv
    <3>2. GenInv' /\ LeaseInv'
      BY <1>1, <2>1, <2>3 DEF IInv, GenInv, LeaseInv
    <3> QED BY <1>3, <2>3, <3>1, <3>2, Numbers, OutsideKeeps DEF PlainStep, Busy, Holding
  <2> QED BY <1>3, <2>2, <2>3 DEF PlainStep, histVars
<1>4. CASE PlainEnd
  <2>1. UNCHANGED <<host, spawned, lease>>
    BY <1>4 DEF PlainEnd, brokerVars
  <2>2. ASSUME Answer(FALSE) PROVE IInv'
    BY <1>1, <2>1, <2>2, Numbers, AnswerKeeps
  <2>3. CASE pc' = "output" /\ UNCHANGED <<callVars, histVars>>
    <3>1. GenInv' /\ LeaseInv' /\ BatchInv'
      BY <1>1, <2>1, <2>3 DEF IInv, GenInv, LeaseInv, BatchInv, callVars, Holding
    <3> QED BY <2>3, <3>1, OutsideKeeps DEF callVars, histVars, Busy
  <2> QED BY <1>4, <2>2, <2>3 DEF PlainEnd, Goto
<1>5. CASE OpenSession
  <2>1. CASE SessionFails /\ Answer(TRUE)
    BY <1>1, <2>1, Numbers, SessionFailsFacts, AnswerKeeps
  <2>2. CASE /\ Session /\ own' \in {0, sess'} /\ pc' \in {"read", "lease"}
             /\ (pc' = "lease" => own' = sess')
             /\ UNCHANGED <<batch, needsFrame, requested, overlay, sent>>
    <3>1. lease' = {}
      BY <1>1, <2>2, Numbers, SessionFacts
    <3>2. GenInv' /\ LeaseInv' /\ BatchInv'
      BY <2>2, <3>1, SessionFacts DEF IInv, GenInv, LeaseInv, BatchInv, Holding
    <3>3. pc \notin Busy
      BY <1>5 DEF OpenSession, Busy, Holding
    <3> QED BY <2>2, <3>2, <3>3, Numbers, OutsideKeeps
  <2> QED BY <1>5, <2>1, <2>2 DEF OpenSession, Goto, histVars
<1>6. CASE Read
  <2>1. lease' = {} /\ UNCHANGED <<host, spawned>>
    BY <1>1, <1>6, Numbers, RefreshFacts DEF Read
  <2>2. \E e \in BOOLEAN : Answer(e)
    BY <1>6 DEF Read
  <2> QED BY <2>1, <2>2, Numbers, AnswerKeeps
<1>7. CASE Output
  <2>1. \E e \in BOOLEAN : Answer(e)
    BY <1>7 DEF Output
  <2>2. CASE Session
    BY <1>1, <2>1, <2>2, Numbers, SessionFacts, AnswerKeeps
  <2>3. CASE SessionFails
    BY <1>1, <2>1, <2>3, Numbers, SessionFailsFacts, AnswerKeeps
  <2> QED BY <1>7, <2>2, <2>3 DEF Output
<1> QED BY <1>2, <1>3, <1>4, <1>5, <1>6, <1>7

\* The lease is taken, used for one action, and given back.
LEMMA LeaseKeeps ==
  ASSUME IInv, AcquireLease \/ Execute \/ ReleaseLease \/ ReleaseAfterFailure
  PROVE  IInv'
<1>1. UNCHANGED <<host, spawned>>
  BY DEF AcquireLease, Execute, ReleaseLease, ReleaseAfterFailure, ReleaseDesktop
<1>2. CASE AcquireLease
  <2>1. pc = "lease" /\ pc \notin Holding /\ own # 0
    BY <1>2 DEF AcquireLease, Holding, IInv, GenInv
  <2>2. CASE lease' = {} /\ Answer(TRUE)
    BY <1>1, <2>2, Numbers, AnswerKeeps
  <2>3. CASE /\ lease' = {own} /\ pc' \in {"execute", "prepare"} /\ UNCHANGED <<callVars, histVars>>
    <3>1. GenInv' /\ LeaseInv' /\ BatchInv'
      BY <1>1, <2>1, <2>3 DEF IInv, GenInv, LeaseInv, BatchInv, callVars, Holding
    <3>2. ~overlay /\ sent = {}
      BY <2>1, Numbers DEF Busy
    <3> QED BY <2>3, <3>1, <3>2, OutsideKeeps DEF callVars, histVars
  <2> QED BY <1>2, <2>1, <2>2, <2>3, Numbers DEF AcquireLease, Goto
<1>3. CASE Execute
  <2>1. /\ lease' \in {{}, lease} /\ pc' = "release" /\ UNCHANGED <<callVars, histVars>>
        /\ pc \in Holding
    BY <1>3, RefreshFacts DEF Execute, Goto, Holding
  <2>2. GenInv' /\ LeaseInv' /\ BatchInv'
    BY <1>1, <2>1 DEF IInv, GenInv, LeaseInv, BatchInv, callVars, Holding
  <2> QED BY <2>1, <2>2, OutsideKeeps DEF callVars, histVars, Busy, Holding
<1>4. CASE ReleaseLease \/ ReleaseAfterFailure
  <2>1. lease' = {}
    BY <1>4, Numbers DEF ReleaseLease, ReleaseAfterFailure, ReleaseDesktop
  <2>2. ASSUME NEW e, Answer(e) PROVE IInv'
    BY <1>1, <2>1, <2>2, Numbers, AnswerKeeps
  <2>3. CASE pc = "release" /\ pc' = "output" /\ UNCHANGED <<callVars, histVars>>
    <3>1. GenInv' /\ LeaseInv' /\ BatchInv'
      BY <1>1, <2>1, <2>3 DEF IInv, GenInv, LeaseInv, BatchInv, callVars, Holding
    <3> QED BY <2>3, <3>1, OutsideKeeps DEF callVars, histVars, Busy
  <2> QED BY <1>4, <2>2, <2>3 DEF ReleaseLease, ReleaseAfterFailure, Goto
<1> QED BY <1>2, <1>3, <1>4
-----------------------------------------------------------------------------
(* The batch.                                                              *)

\* A step of a batch that starts no process and is granted nothing.
LEMMA StepKeeps ==
  ASSUME IInv, UNCHANGED <<host, spawned, own>>, lease' \in {{}, lease},
         pc \in Holding, pc' \in Holding
  PROVE  GenInv' /\ LeaseInv'
BY DEF IInv, GenInv, LeaseInv

\* An early return: the lease is still to be given back.
LEMMA FailKeeps ==
  ASSUME IInv, Fail, GenInv', LeaseInv'
  PROVE  IInv'
<1>1. pc' = "failed" /\ UNCHANGED <<batch, needsFrame, requested, overlay, sent>>
  BY DEF Fail, Goto, callVars, histVars
<1>2. BatchInv'
  BY <1>1 DEF IInv, BatchInv
<1> QED BY <1>1, <1>2, OutsideKeeps DEF Busy

\* A batch that waits for its first frame has sent nothing.
LEMMA PrepareKeeps ==
  ASSUME IInv, Prepare
  PROVE  IInv'
<1>1. pc = "prepare" /\ lease' \in {{}, lease} /\ UNCHANGED <<host, spawned>>
  BY RefreshFacts DEF Prepare
<1>2. ~overlay /\ sent = {}
  BY <1>1, Numbers DEF Busy
<1>3. CASE Fail
  <2>1. GenInv' /\ LeaseInv'
    BY <1>1, <1>3, StepKeeps DEF Fail, Goto, callVars, Holding
  <2> QED BY <1>3, <2>1, FailKeeps
<1>4. CASE /\ pc' = (IF needsFrame THEN "capture" ELSE "steps")
           /\ UNCHANGED <<callVars, frame, pending, committed, why, attempt, histVars>>
  <2>1. UNCHANGED <<batch, needsFrame, own, requested, stale, overlay, sent>>
    BY <1>4 DEF callVars, histVars
  <2>2. GenInv' /\ LeaseInv'
    BY <1>1, <1>4, <2>1, StepKeeps DEF Holding
  <2>3. BatchInv' /\ AimInv' /\ StaleInv'
    BY <1>4, <2>1 DEF IInv, BatchInv, AimInv, StaleInv
  <2>4. OverlayInv' /\ QuietInv' /\ SentInv'
    BY <1>2, <1>4, <2>1, NothingSent DEF OverlayInv, QuietInv
  <2> QED BY <2>2, <2>3, <2>4 DEF IInv
<1> QED BY <1>3, <1>4 DEF Prepare, Goto

\* The new frame is of the session that is open then: that of the call, or one
\* of a later process.
LEMMA CaptureKeeps ==
  ASSUME IInv, Capture
  PROVE  IInv'
<1>1. pc = "capture"
  BY DEF Capture
<1>2. /\ Session \/ SessionFails
      /\ host' \in Nat /\ spawned' \in Nat /\ host' <= spawned' /\ spawned <= spawned'
      /\ lease' \in {{}, lease}
  BY SessionFacts, SessionFailsFacts DEF Capture
<1>3. ASSUME own' = own, pc' \in Holding PROVE GenInv' /\ LeaseInv'
  <2>1. own \in Nat /\ own <= spawned /\ own # 0 /\ lease \subseteq {own} /\ spawned \in Nat
    BY <1>1 DEF IInv, GenInv, LeaseInv, Holding
  <2>2. own' \in Nat /\ own' # 0 /\ own' <= spawned'
    BY <1>2, <1>3, <2>1
  <2>3. lease' \subseteq {own'}
    BY <1>2, <1>3, <2>1
  <2> QED BY <1>2, <1>3, <2>2, <2>3 DEF GenInv, LeaseInv
<1>4. CASE Fail
  <2>1. GenInv' /\ LeaseInv'
    BY <1>3, <1>4 DEF Fail, Goto, callVars, Holding
  <2> QED BY <1>4, <2>1, FailKeeps
<1>5. CASE /\ Session /\ frame' = sess' /\ stale' = FALSE /\ pc' = "steps"
           /\ UNCHANGED <<callVars, target, pending, committed, why, attempt, due, overlay, sent, reply>>
  <2>1. UNCHANGED <<batch, needsFrame, own, requested>>
    BY <1>5 DEF callVars
  <2>2. GenInv' /\ LeaseInv'
    BY <1>3, <1>5, <2>1 DEF Holding
  <2>3. AimInv'
    <3>1. frame' = host'
      BY <1>5, SessionFacts
    <3> QED BY <2>1, <3>1 DEF AimInv
  <2>4. BatchInv' /\ StaleInv'
    BY <1>5, <2>1 DEF IInv, BatchInv, StaleInv
  <2>5. OverlayInv' /\ QuietInv'
    BY <1>1, <1>5, <2>1 DEF IInv, OverlayInv, QuietInv, Busy
  <2>6. SentInv'
    BY <1>5, <2>1, SentSame
  <2> QED BY <2>2, <2>3, <2>4, <2>5, <2>6 DEF IInv
<1> QED BY <1>4, <1>5 DEF Capture, Goto

\* The end of the batch, or an argument that is refused.
LEMMA EndKeeps ==
  ASSUME IInv, BatchEnd \/ ParseFails \/ NotPerformed
  PROVE  IInv'
<1>1. UNCHANGED <<host, spawned, lease>> /\ pc \in {"steps", "refused"}
  BY DEF BatchEnd, ParseFails, NotPerformed, brokerVars
<1>2. CASE BatchEnd
  <2>1. pc' = "release" /\ UNCHANGED <<batch, needsFrame, own, requested, overlay, sent>>
    BY <1>2 DEF BatchEnd, Goto, callVars, histVars
  <2>2. GenInv' /\ LeaseInv'
    BY <1>1, <2>1, StepKeeps DEF Holding
  <2>3. BatchInv'
    BY <2>1 DEF IInv, BatchInv
  <2> QED BY <2>1, <2>2, <2>3, OutsideKeeps DEF Busy
<1>3. CASE Fail
  <2>1. GenInv' /\ LeaseInv'
    BY <1>1, <1>3, StepKeeps DEF Fail, Goto, callVars, Holding
  <2> QED BY <1>3, <2>1, FailKeeps
<1> QED BY <1>2, <1>3 DEF ParseFails, NotPerformed

\* A wait, or a picture, between the actions.
LEMMA PauseKeeps ==
  ASSUME IInv, Wait \/ Screenshot
  PROVE  IInv'
<1>1. /\ pc = "steps" /\ batch # <<>> /\ batch' = Tail(batch)
      /\ UNCHANGED <<host, spawned, lease, own, needsFrame, requested, frame, pending, committed,
                    stale, overlay, sent>>
  BY DEF Wait, Screenshot, Advance, brokerVars, histVars
<1>2. /\ pc' \in {"rebind", "capture", "steps"}
      /\ pc' = "rebind" => why' = "wait"
      /\ pc' = "steps" => Wait \/ ~needsFrame
  BY <1>1 DEF Wait, Screenshot, Goto
<1>3. GenInv' /\ LeaseInv'
  BY <1>1, <1>2, StepKeeps DEF Holding
<1>4. BatchInv'
  BY <1>1, TailKeeps DEF IInv
<1>5. AimInv' /\ StaleInv'
  BY <1>1, <1>2 DEF IInv, AimInv, StaleInv
<1>6. OverlayInv' /\ QuietInv'
  BY <1>1, <1>2 DEF IInv, OverlayInv, QuietInv, Busy
<1>7. SentInv'
  BY <1>1, SentSame
<1> QED BY <1>3, <1>4, <1>5, <1>6, <1>7 DEF IInv
\* An action is given to the broker, by way of the frame and the route that
\* the invariant has for it.
LEMMA DispatchKeeps ==
  ASSUME IInv, NEW k \in Inputs, Dispatch(k)
  PROVE  IInv'
<1>1. /\ pc = "steps" /\ batch # <<>> /\ Head(batch) = k /\ lease' \in {{}, lease}
      /\ UNCHANGED <<host, spawned, own, batch, needsFrame, requested, frame, pending, committed, why>>
  BY RefreshFacts DEF Dispatch, callVars, stepVars
<1>2. PICK ok \in BOOLEAN :
        /\ ok => Admits(own)
        /\ sent' = {[kind |-> k, route |-> Route(k), frame |-> frame, own |-> own, stale |-> stale,
                     pending |-> pending, accepted |-> ok]}
        /\ pc' = (IF ok THEN "performed" ELSE "refused")
        /\ stale' = (stale \/ (ok /\ action_changes_foreground(k)))
        /\ overlay' = (IF ok /\ k \in {"switch", "commit"} THEN FALSE
                       ELSE overlay \/ (ok /\ action_opens_transient_overlay(k)))
  BY DEF Dispatch, Goto
<1> DEFINE a == [kind |-> k, route |-> Route(k), frame |-> frame, own |-> own, stale |-> stale,
                 pending |-> pending, accepted |-> ok]
<1>3. sent' = {a} /\ pc' \in {"performed", "refused"} /\ (ok => pc' = "performed")
  BY <1>2
<1>4. GenInv' /\ LeaseInv'
  BY <1>1, <1>3, StepKeeps DEF Holding
<1>5. BatchInv' /\ AimInv'
  BY <1>1, <1>3 DEF IInv, BatchInv, AimInv
<1>6. k = "pointer" => needsFrame
  BY <1>1 DEF IInv, BatchInv
<1>7. AimedInItsSession'
  <2>1. k = "pointer" /\ ok => frame = own
    BY <1>1, <1>2, <1>6 DEF IInv, AimInv, Admits
  <2> QED BY <1>3, <2>1 DEF AimedInItsSession
<1>8. FrameFollowsSwitch'
  <2>1. k = "pointer" /\ requested = NoWindow /\ ~pending => ~stale
    BY <1>1, <1>6 DEF IInv, StaleInv
  <2> QED BY <1>1, <1>3, <2>1 DEF FrameFollowsSwitch
<1>9. OverlayGetsTheKeys'
  <2>1. requested = NoWindow /\ overlay' => pending \/ action_changes_foreground(k)
    BY <1>1, <1>2 DEF IInv, OverlayInv, action_opens_transient_overlay, action_changes_foreground
  <2>2. requested = NoWindow /\ overlay' => Route(k) = "global"
    BY <2>1 DEF Route, GlobalScope
  <2> QED BY <1>1, <1>3, <2>2 DEF OverlayGetsTheKeys
<1>10. StaleInv'
  BY <1>1, <1>2, <1>3 DEF IInv, StaleInv
<1>11. OverlayInv'
  <2>1. k \in {"switch", "commit"} /\ ok => ~overlay'
    BY <1>2
  <2>2. overlay' => overlay \/ k = "overlay"
    BY <1>2 DEF action_opens_transient_overlay
  <2>3. overlay /\ requested = NoWindow => pending /\ ~committed
    BY <1>1 DEF IInv, OverlayInv
  <2>4. ok \/ pc' # "performed"
    BY <1>2
  <2> QED BY <1>1, <1>3, <2>1, <2>2, <2>3, <2>4 DEF OverlayInv, Busy
<1>12. QuietInv'
  BY <1>1, <1>3 DEF QuietInv, Busy
<1> QED BY <1>4, <1>5, <1>7, <1>8, <1>9, <1>10, <1>11, <1>12 DEF IInv, SentInv

\* The action was performed: what it does to the foreground decides how the
\* batch goes on.
LEMMA PerformedKeeps ==
  ASSUME IInv, Performed
  PROVE  IInv'
<1>1. /\ pc = "performed" /\ batch' = Tail(batch) /\ sent' = {} /\ pc' \in {"steps", "rebind"}
      /\ UNCHANGED <<host, spawned, lease, own, needsFrame, requested, frame, stale, overlay>>
  BY DEF Performed, Advance, Goto, brokerVars
<1>0. batch # <<>>
  BY <1>1 DEF IInv, QuietInv
<1> DEFINE k == Head(batch)
           starts == action_changes_foreground(k)
           commits == pending /\ action_commits_foreground_transition(k)
<1>2. \/ /\ requested # NoWindow \/ ~(starts \/ commits)
         /\ pc' = "steps" /\ UNCHANGED <<pending, committed>>
      \/ /\ requested = NoWindow /\ pc' = "steps" /\ pending' /\ ~committed'
      \/ /\ requested = NoWindow /\ (starts \/ commits) /\ k # "overlay" /\ pc' = "rebind"
         /\ UNCHANGED <<pending, committed>>
  BY DEF Performed, Goto, action_opens_transient_overlay
<1>3. GenInv' /\ LeaseInv'
  BY <1>1, StepKeeps DEF Holding
<1>4. BatchInv'
  BY <1>0, <1>1, TailKeeps DEF IInv
<1>5. AimInv'
  BY <1>1 DEF IInv, AimInv
<1>6. StaleInv'
  BY <1>1, <1>2 DEF IInv, StaleInv
<1>7. OverlayInv'
  <2>1. requested = NoWindow /\ overlay => k = "overlay" \/ (pending /\ ~committed /\ k \notin {"switch", "commit"})
    BY <1>1 DEF IInv, OverlayInv
  <2>2. k = "overlay" => starts
    BY DEF action_changes_foreground
  <2>3. (starts => k \in {"switch", "overlay"}) /\ (commits => k = "commit")
    BY DEF action_changes_foreground, action_commits_foreground_transition
  <2> QED BY <1>1, <1>2, <2>1, <2>2, <2>3 DEF OverlayInv, Busy
<1>8. QuietInv' /\ SentInv'
  BY <1>1, NothingSent DEF QuietInv
<1> QED BY <1>3, <1>4, <1>5, <1>6, <1>7, <1>8 DEF IInv

\* The foreground is looked for, and the batch goes on with what was found: a
\* frame is taken again unless input stays global.
LEMMA RebindKeeps ==
  ASSUME IInv, Rebind \/ Probe
  PROVE  IInv'
<1>1. /\ pc \in {"rebind", "probe"} /\ lease' \in {{}, lease} /\ UNCHANGED <<host, spawned>>
  BY RefreshFacts DEF Rebind, Probe
<1>2. CASE Fail
  <2>1. GenInv' /\ LeaseInv'
    BY <1>1, <1>2, StepKeeps DEF Fail, Goto, callVars, Holding
  <2> QED BY <1>2, <2>1, FailKeeps
<1>3. CASE /\ pc = "rebind" /\ pc' \in {"rebind", "probe"}
           /\ UNCHANGED <<callVars, target, frame, pending, committed, why, histVars>>
  <2>1. UNCHANGED <<batch, needsFrame, own, requested, frame, pending, committed, why, stale, overlay, sent>>
    BY <1>3 DEF callVars, histVars
  <2>2. GenInv' /\ LeaseInv'
    BY <1>1, <1>3, <2>1, StepKeeps DEF Holding
  <2>3. BatchInv' /\ AimInv' /\ StaleInv'
    BY <1>1, <1>3, <2>1 DEF IInv, BatchInv, AimInv, StaleInv
  <2>4. OverlayInv' /\ QuietInv' /\ SentInv'
    BY <1>1, <1>3, <2>1, SentSame DEF IInv, OverlayInv, QuietInv, Busy
  <2> QED BY <2>2, <2>3, <2>4 DEF IInv
<1>4. ASSUME pc = "probe", NEW t, pending' = PendingAfter(t),
             committed' = (why = "commit" \/ (why = "wait" /\ committed)),
             pc' = (IF Recapture(pending') THEN "capture" ELSE "steps"),
             UNCHANGED <<callVars, frame, histVars>>
      PROVE  IInv'
  <2>1. UNCHANGED <<batch, needsFrame, own, requested, stale, overlay, sent>>
    BY <1>4 DEF callVars, histVars
  <2>2. GenInv' /\ LeaseInv'
    BY <1>1, <1>4, <2>1, StepKeeps DEF Holding
  <2>3. BatchInv' /\ AimInv'
    BY <1>4, <2>1, <1>1 DEF IInv, BatchInv, AimInv
  <2>4. StaleInv'
    <3>1. pc' = "steps" /\ needsFrame => pending'
      BY <1>4 DEF Recapture
    <3>2. pc' # "performed"
      BY <1>4
    <3> QED BY <2>1, <3>1, <3>2 DEF StaleInv
  <2>5. OverlayInv'
    <3>1. requested = NoWindow /\ overlay => ~committed /\ why = "wait"
      BY <1>4 DEF IInv, OverlayInv
    <3>2. requested = NoWindow /\ overlay => pending' /\ ~committed'
      BY <1>4, <3>1 DEF PendingAfter
    <3>3. pc' \in {"capture", "steps"}
      BY <1>4
    <3> QED BY <2>1, <3>2, <3>3 DEF OverlayInv, Busy
  <2>6. QuietInv' /\ SentInv'
    BY <1>4, <2>1, SentSame DEF QuietInv, Busy
  <2> QED BY <2>2, <2>3, <2>4, <2>5, <2>6 DEF IInv
<1>5. CASE Rebind
  BY <1>2, <1>3, <1>5 DEF Rebind, Goto
<1>6. CASE Probe
  BY <1>2, <1>4, <1>6 DEF Probe, Goto
<1> QED BY <1>5, <1>6
-----------------------------------------------------------------------------
(* The theorems.                                                           *)

\* Every step keeps the invariant.
LEMMA StepsKeep ==
  ASSUME IInv, [Next]_vars
  PROVE  IInv'
<1>1. CASE Serve
  BY <1>1, FreeKeeps, LeaseKeeps, PrepareKeeps, CaptureKeeps, EndKeeps, PauseKeeps, DispatchKeeps,
     PerformedKeeps, RebindKeeps DEF Serve
<1> QED BY <1>1, RequestKeeps, EnvironmentKeeps DEF Next

\* The inductive invariant holds in every state of the server.
THEOREM ServerInvariance == Spec => []IInv
<1>1. Init => IInv
  BY DEF Init, IInv, GenInv, LeaseInv, BatchInv, AimInv, StaleInv, OverlayInv, QuietInv, SentInv,
         AimedInItsSession, FrameFollowsSwitch, OverlayGetsTheKeys, Holding
<1>2. IInv /\ [Next]_vars => IInv'
  BY StepsKeep
<1> QED BY <1>1, <1>2, PTL DEF Spec

\* However a call ends, the desktop lease is not left with the server.
THEOREM LeaseAlwaysReturned == Spec => []LeaseReturned
<1>1. IInv => LeaseReturned
  BY DEF IInv, LeaseInv, LeaseReturned
<1> QED BY <1>1, ServerInvariance, PTL

\* A pointer action that is accepted was aimed in its own session.
THEOREM AimedRight == Spec => []AimedInItsSession
<1>1. IInv => AimedInItsSession
  BY DEF IInv, SentInv
<1> QED BY <1>1, ServerInvariance, PTL

\* Pointer actions follow a frame captured after the last foreground change.
THEOREM FramesAreFresh == Spec => []FrameFollowsSwitch
<1>1. IInv => FrameFollowsSwitch
  BY DEF IInv, SentInv
<1> QED BY <1>1, ServerInvariance, PTL

\* Keyboard input goes to an open overlay and not to the window behind it.
THEOREM KeysReachOverlay == Spec => []OverlayGetsTheKeys
<1>1. IInv => OverlayGetsTheKeys
  BY DEF IInv, SentInv
<1> QED BY <1>1, ServerInvariance, PTL

-----------------------------------------------------------------------------
(* The types, and what a call still has to perform.                        *)

BrokerTypes ==
  /\ host \in 0..MaxGen /\ spawned \in 0..MaxGen /\ known \in 0..MaxGen
  /\ lease \in SUBSET (1..MaxGen) /\ expired \in BOOLEAN /\ sess \in 0..MaxGen

\* Program points without a batch, or after its end.
NoBatch == {"idle", "stopped", "health", "read", "execute", "release", "output"}

\* What is owed is what is left of the batch; an action that was performed is
\* still its head.  Only a call of computer_use has a batch, and not after its
\* end.
DueInv ==
  /\ pc \notin {"failed", "performed"} => due = Executions(batch)
  /\ pc = "performed" => due = Executions(Tail(batch))
  /\ pc = "plain" => Executions(batch) = 0
  /\ pc \in NoBatch \/ tool # "computer_use" => batch = <<>>

CallInv == TypeOK /\ DueInv

\* The bounds of processes and of rebind attempts.
LEMMA Bounds == MaxGen \in Nat /\ Rebinds \in Nat /\ Rebinds >= 1
BY BoundAssumption

\* A batch and its rest.
LEMMA ExecutionsFacts ==
  /\ Executions(<<>>) = 0
  /\ \A b \in Seq(Kinds) : Executions(b) \in Nat
  /\ \A b \in Seq(Kinds) : b # <<>> =>
        Executions(b) = Executions(Tail(b)) + (IF action_requires_execution(Head(b)) THEN 1 ELSE 0)
<1> DEFINE At(b) == {i \in 1..Len(b) : action_requires_execution(b[i])}
<1>1. \A b \in Seq(Kinds) : IsFiniteSet(At(b)) /\ Cardinality(At(b)) \in Nat
  <2> TAKE b \in Seq(Kinds)
  <2>1. Len(b) \in Nat /\ IsFiniteSet(1..Len(b))
    BY FS_Interval
  <2>2. At(b) \subseteq 1..Len(b)
    OBVIOUS
  <2> QED BY <2>1, <2>2, FS_Subset, FS_CardinalityType
<1>2. Executions(<<>>) = 0
  <2>1. At(<<>>) = {}
    OBVIOUS
  <2> QED BY <2>1, FS_EmptySet DEF Executions
<1>3. ASSUME NEW b \in Seq(Kinds), b # <<>>
      PROVE  Executions(b) = Executions(Tail(b)) + (IF action_requires_execution(Head(b)) THEN 1 ELSE 0)
  <2> DEFINE t == Tail(b)
             later == {i \in 2..Len(b) : action_requires_execution(b[i])}
  <2>1. /\ t \in Seq(Kinds) /\ Len(b) \in Nat \ {0} /\ Len(t) = Len(b) - 1 /\ b[1] = Head(b)
        /\ \A i \in 1..Len(t) : t[i] = b[i + 1]
    BY <1>3
  <2> HIDE DEF t
  <2>2. Cardinality(later) = Cardinality(At(t)) /\ IsFiniteSet(later)
    <3> DEFINE f == [i \in At(t) |-> i + 1]
    <3>1. \A i \in At(t) : i + 1 \in later
      BY <2>1
    <3>2. \A j \in later : j - 1 \in At(t) /\ (j - 1) + 1 = j
      BY <2>1
    <3>3. \A i, j \in At(t) : i + 1 = j + 1 => i = j
      BY <2>1
    <3>4. f \in Bijection(At(t), later)
      BY <3>1, <3>2, <3>3 DEF Bijection, Injection, Surjection, IsInjective
    <3> QED BY <1>1, <2>1, <3>4, FS_Bijection DEF ExistsBijection
  <2>3. At(b) = IF action_requires_execution(Head(b)) THEN later \union {1} ELSE later
    BY <2>1
  <2>4. 1 \notin later
    OBVIOUS
  <2>5. Cardinality(At(b)) = Cardinality(later) + (IF action_requires_execution(Head(b)) THEN 1 ELSE 0)
    <3>1. Cardinality(later) \in Nat
      BY <2>2, FS_CardinalityType
    <3>2. Cardinality(later \union {1}) = Cardinality(later) + 1
      BY <2>2, <2>4, FS_AddElement
    <3> HIDE DEF later, At
    <3>3. CASE action_requires_execution(Head(b))
      <4>1. At(b) = later \union {1}
        BY <2>3, <3>3
      <4> QED BY <3>2, <3>3, <4>1
    <3>4. CASE ~action_requires_execution(Head(b))
      <4>1. At(b) = later
        BY <2>3, <3>4
      <4> QED BY <3>1, <3>4, <4>1
    <3> QED BY <3>3, <3>4
  <2> QED BY <2>2, <2>5 DEF Executions, t
<1> QED BY <1>1, <1>2, <1>3 DEF Executions

\* The types of the calls.
PcOK ==
  pc \in {"idle", "stopped", "health", "plain", "session", "read", "lease", "execute", "release",
          "failed", "output", "prepare", "capture", "steps", "performed", "refused", "rebind", "probe"}

CallTypes ==
  /\ tool \in Tools \union {"none"} /\ batch \in Seq(Kinds)
  /\ requested \in Windows \union {NoWindow} /\ needsFrame \in BOOLEAN /\ wantsShot \in BOOLEAN
  /\ own \in 0..MaxGen

StepTypes ==
  /\ target \in Windows \union {NoWindow} /\ frame \in 0..MaxGen
  /\ pending \in BOOLEAN /\ committed \in BOOLEAN
  /\ why \in {"none", "wait", "switch", "commit"} /\ attempt \in 0..Rebinds

HistTypes ==
  /\ due \in Nat /\ stale \in BOOLEAN /\ overlay \in BOOLEAN
  /\ sent \in SUBSET Sent /\ reply \in SUBSET Reply

\* The types, part by part,
LEMMA TypeParts ==
  TypeOK <=> BrokerTypes /\ PcOK /\ CallTypes /\ StepTypes /\ HistTypes
BY DEF TypeOK, BrokerTypes, PcOK, CallTypes, StepTypes, HistTypes

\* and after a step.
LEMMA TypePartsNext ==
  BrokerTypes' /\ PcOK' /\ CallTypes' /\ StepTypes' /\ HistTypes' => TypeOK'
BY DEF TypeOK, BrokerTypes, PcOK, CallTypes, StepTypes, HistTypes

\* What stays has its type.
LEMMA SameTypes ==
  ASSUME TypeOK
  PROVE  /\ UNCHANGED <<brokerVars, sess>> => BrokerTypes'
         /\ UNCHANGED callVars => CallTypes'
         /\ UNCHANGED stepVars => StepTypes'
         /\ UNCHANGED histVars => HistTypes'
         /\ UNCHANGED pc => PcOK'
<1>1. UNCHANGED <<brokerVars, sess>> => BrokerTypes'
  BY DEF TypeOK, BrokerTypes, brokerVars
<1>2. UNCHANGED callVars => CallTypes'
  BY DEF TypeOK, CallTypes, callVars
<1>3. UNCHANGED stepVars => StepTypes'
  BY DEF TypeOK, StepTypes, stepVars
<1>4. UNCHANGED histVars => HistTypes'
  BY DEF TypeOK, HistTypes, histVars
<1>5. UNCHANGED pc => PcOK'
  BY DEF TypeOK, PcOK
<1> QED BY <1>1, <1>2, <1>3, <1>4, <1>5

\* The host service and the broker.
LEMMA RefreshTypes ==
  ASSUME TypeOK, Refresh, UNCHANGED <<host, spawned, sess>>
  PROVE  BrokerTypes'
BY Bounds DEF TypeOK, BrokerTypes, Refresh

\* A process that is started has the next number, within the bound.
LEMMA StartedTypes ==
  ASSUME TypeOK, Started
  PROVE  host' \in 0..MaxGen /\ spawned' \in 0..MaxGen
BY Bounds DEF TypeOK, Started

\* Opening or keeping a session keeps the types of the broker,
LEMMA SessionTypes ==
  ASSUME TypeOK, Session
  PROVE  BrokerTypes'
<1>1. CASE UNCHANGED <<brokerVars, sess>>
  BY <1>1, SameTypes
<1>2. CASE /\ Started /\ sess' = host' /\ known' = host'
           /\ lease' = (IF sess # 0 /\ host = 0 THEN {} ELSE lease)
           /\ expired' = (expired /\ lease' # {})
  BY <1>2, StartedTypes, Bounds DEF TypeOK, BrokerTypes
<1> QED BY <1>1, <1>2 DEF Session

\* and so does failing to,
LEMMA SessionFailsTypes ==
  ASSUME TypeOK, SessionFails
  PROVE  BrokerTypes'
<1>1. host' \in 0..MaxGen /\ spawned' \in 0..MaxGen
  BY StartedTypes DEF SessionFails, TypeOK
<1> QED BY <1>1, Bounds DEF SessionFails, TypeOK, BrokerTypes

\* and giving the desktop back.
LEMMA ReleaseTypes ==
  ASSUME TypeOK, ReleaseDesktop
  PROVE  BrokerTypes'
BY Bounds DEF TypeOK, BrokerTypes, ReleaseDesktop

\* A call is answered.
LEMMA AnswerCall ==
  ASSUME CallInv, NEW e \in BOOLEAN, Answer(e), BrokerTypes'
  PROVE  CallInv'
<1>1. /\ pc' = "idle" /\ tool' = "none" /\ batch' = <<>> /\ due' = 0 /\ sent' = {}
      /\ requested' = NoWindow /\ needsFrame' = FALSE /\ wantsShot' = FALSE /\ own' = 0
      /\ target' = NoWindow /\ frame' = 0 /\ pending' = FALSE /\ committed' = FALSE
      /\ why' = "none" /\ attempt' = 0 /\ stale' = FALSE /\ overlay' = FALSE
      /\ reply' = {[error |-> e, due |-> due]}
  BY DEF Answer
<1>2. PcOK' /\ CallTypes' /\ StepTypes'
  <2>1. PcOK'
    BY <1>1 DEF PcOK
  <2>2. 0 \in 0..MaxGen /\ 0 \in 0..Rebinds /\ <<>> \in Seq(Kinds)
    BY Bounds
  <2>3. CallTypes'
    BY <1>1, <2>2 DEF CallTypes
  <2>4. StepTypes'
    BY <1>1, <2>2 DEF StepTypes
  <2> QED BY <2>1, <2>3, <2>4
<1>3. HistTypes'
  <2>1. due \in Nat
    BY DEF CallInv, TypeOK
  <2>2. [error |-> e, due |-> due] \in Reply
    BY <2>1 DEF Reply
  <2>3. reply' \subseteq Reply /\ sent' \subseteq Sent
    BY <1>1, <2>2
  <2> QED BY <1>1, <2>3 DEF HistTypes
<1>4. DueInv'
  BY <1>1, ExecutionsFacts DEF DueInv, NoBatch
<1> QED BY <1>2, <1>3, <1>4, TypePartsNext DEF CallInv

\* The early return of a batch.
LEMMA FailCall ==
  ASSUME CallInv, Fail, BrokerTypes'
  PROVE  CallInv'
<1>1. pc' = "failed" /\ UNCHANGED <<callVars, stepVars, histVars>>
  BY DEF Fail, Goto
<1>2. PcOK' /\ CallTypes' /\ StepTypes' /\ HistTypes'
  BY <1>1, SameTypes DEF CallInv, PcOK
<1>3. DueInv'
  BY <1>1 DEF CallInv, DueInv, NoBatch, callVars
<1> QED BY <1>2, <1>3, TypePartsNext DEF CallInv

\* A step to another point of the call that performs nothing.
LEMMA MoveCall ==
  ASSUME CallInv, BrokerTypes', CallTypes', StepTypes', PcOK', UNCHANGED histVars,
         pc \notin {"failed", "performed"}, pc' \notin {"failed", "performed", "plain"},
         UNCHANGED <<batch, tool>>, pc' \in NoBatch => batch = <<>>
  PROVE  CallInv'
<1>1. HistTypes'
  BY SameTypes DEF CallInv
<1>2. DueInv'
  BY DEF CallInv, DueInv, NoBatch, histVars
<1> QED BY <1>1, <1>2, TypePartsNext DEF CallInv

\* Nothing of the call changes.
LEMMA SameCall ==
  ASSUME CallInv, BrokerTypes', UNCHANGED <<pc, callVars, stepVars, histVars>>
  PROVE  CallInv'
<1>1. PcOK' /\ CallTypes' /\ StepTypes' /\ HistTypes'
  BY SameTypes DEF CallInv
<1>2. DueInv'
  BY DEF CallInv, DueInv, NoBatch, callVars, histVars
<1> QED BY <1>1, <1>2, TypePartsNext DEF CallInv

\* The environment.
LEMMA EnvironmentCall ==
  ASSUME CallInv, ProcessDies \/ LeaseDeadline \/ UNCHANGED vars
  PROVE  CallInv'
<1>1. UNCHANGED <<pc, callVars, stepVars, histVars>>
  BY DEF ProcessDies, LeaseDeadline, vars
<1>2. 0 \in 0..MaxGen
  BY Bounds
<1>3. BrokerTypes'
  <2>1. CASE ProcessDies
    BY <1>2, <2>1 DEF CallInv, TypeOK, BrokerTypes, ProcessDies
  <2>2. CASE LeaseDeadline
    BY <2>2 DEF CallInv, TypeOK, BrokerTypes, LeaseDeadline
  <2>3. CASE UNCHANGED vars
    BY <2>3, SameTypes DEF CallInv, vars
  <2> QED BY <2>1, <2>2, <2>3
<1> QED BY <1>1, <1>3, SameCall

\* A request.
LEMMA RequestCall ==
  ASSUME CallInv, Request
  PROVE  CallInv'
<1>1. pc = "idle" /\ batch = <<>> /\ TypeOK /\ due = Executions(batch)
  BY DEF CallInv, DueInv, NoBatch, Request, CallBatch, CallTool, Refused, EndOfInput
<1>2. ASSUME NEW b \in Batches, NEW req \in Windows \union {NoWindow}, NEW shot \in BOOLEAN,
             CallBatch(b, req, shot)
      PROVE  CallInv'
  <2>1. /\ UNCHANGED <<brokerVars, sess, own, stepVars, stale, overlay, sent>>
        /\ batch' = b /\ tool' = "computer_use" /\ due' = Executions(b) /\ requested' = req /\ reply' = {}
        /\ needsFrame' = Contains(b, action_requires_frame)
        /\ wantsShot' = (shot \/ \E i \in 1..Len(b) : b[i] = "screenshot")
        /\ pc' = (IF Contains(b, action_requires_execution) THEN "session" ELSE "plain")
    BY <1>2 DEF CallBatch, Goto
  <2>2. b \in Seq(Kinds) /\ Executions(b) \in Nat
    BY ExecutionsFacts DEF Batches
  <2>3. pc' = "plain" => Executions(b) = 0
    <3>1. ~Contains(b, action_requires_execution) =>
            {i \in 1..Len(b) : action_requires_execution(b[i])} = {}
      BY DEF Contains
    <3> QED BY <2>1, <3>1, FS_EmptySet DEF Executions
  <2>4. BrokerTypes' /\ StepTypes' /\ PcOK'
    BY <1>1, <2>1, SameTypes DEF PcOK
  <2>5. CallTypes'
    <3>1. needsFrame' \in BOOLEAN /\ wantsShot' \in BOOLEAN
      BY <2>1 DEF Contains
    <3> QED BY <1>1, <2>1, <2>2, <3>1 DEF CallTypes, TypeOK, Tools
  <2>6. HistTypes'
    BY <1>1, <2>1, <2>2 DEF HistTypes, TypeOK
  <2>7. DueInv'
    BY <2>1, <2>3 DEF DueInv, NoBatch
  <2> QED BY <2>4, <2>5, <2>6, <2>7, TypePartsNext DEF CallInv
<1>3. ASSUME NEW t \in Tools, CallTool(t) PROVE CallInv'
  <2>1. /\ UNCHANGED <<brokerVars, sess, batch, requested, needsFrame, wantsShot, own, stepVars, due,
                       stale, overlay, sent>>
        /\ tool' = t /\ reply' = {} /\ pc' \in {"health", "session"}
    BY <1>3 DEF CallTool, Goto
  <2>2. BrokerTypes' /\ StepTypes' /\ PcOK'
    BY <1>1, <2>1, SameTypes DEF PcOK
  <2>3. CallTypes' /\ HistTypes'
    BY <1>1, <2>1 DEF CallTypes, HistTypes, TypeOK
  <2>4. DueInv'
    BY <1>1, <2>1 DEF DueInv, NoBatch
  <2> QED BY <2>2, <2>3, <2>4, TypePartsNext DEF CallInv
<1>4. CASE Refused
  BY <1>1, <1>4, SameTypes, AnswerCall DEF Refused
<1>5. CASE EndOfInput
  <2>1. /\ UNCHANGED <<spawned, sess, callVars, stepVars, histVars>> /\ pc' = "stopped"
        /\ host' = 0 /\ known' = 0 /\ lease' = {} /\ expired' = FALSE
    BY <1>5 DEF EndOfInput, Goto
  <2>2. BrokerTypes'
    <3>1. 0 \in 0..MaxGen
      BY Bounds
    <3> QED BY <1>1, <2>1, <3>1 DEF BrokerTypes, TypeOK
  <2>3. CallTypes' /\ StepTypes' /\ PcOK'
    BY <1>1, <2>1, SameTypes DEF PcOK
  <2> QED BY <1>1, <2>1, <2>2, <2>3, MoveCall DEF callVars
<1> QED BY <1>2, <1>3, <1>4, <1>5 DEF Request

\* Calls without a batch of input.
LEMMA FreeCall ==
  ASSUME CallInv, Health \/ PlainStep \/ PlainEnd \/ OpenSession \/ Read \/ Output
  PROVE  CallInv'
<1>1. TypeOK
  BY DEF CallInv
<1>2. CASE Health
  <2>1. BrokerTypes'
    <3>1. CASE Started /\ known' = (IF known = host' THEN known ELSE 0) /\ UNCHANGED <<lease, expired, sess>>
      BY <1>1, <3>1, StartedTypes, Bounds DEF TypeOK, BrokerTypes
    <3> QED BY <1>1, <1>2, <3>1, SameTypes DEF Health
  <2> QED BY <1>2, <2>1, AnswerCall DEF Health
<1>3. CASE PlainStep
  <2>1. BrokerTypes' /\ pc = "plain" /\ batch # <<>>
    BY <1>1, <1>3, SameTypes DEF PlainStep
  <2>2. ASSUME batch' = Tail(batch),
               UNCHANGED <<tool, requested, needsFrame, wantsShot, own, pc, target, frame, pending,
                           committed, why, attempt, histVars>>
        PROVE  CallInv'
    <3>1. batch \in Seq(Kinds) /\ Tail(batch) \in Seq(Kinds)
      BY <1>1, <2>1 DEF TypeOK
    <3>2. PcOK' /\ StepTypes' /\ HistTypes'
      BY <1>1, <2>2, SameTypes DEF stepVars
    <3>3. CallTypes'
      BY <1>1, <2>2, <3>1 DEF TypeOK, CallTypes
    <3>4. Executions(batch) = 0 /\ Executions(Tail(batch)) = 0 /\ due = 0
      <4>1. Executions(batch) = 0 /\ due = Executions(batch)
        BY <2>1 DEF CallInv, DueInv
      <4>2. Executions(Tail(batch)) \in Nat
        BY <3>1, ExecutionsFacts
      <4>3. Executions(batch) = Executions(Tail(batch)) + (IF action_requires_execution(Head(batch)) THEN 1 ELSE 0)
        BY <2>1, <3>1, ExecutionsFacts
      <4> QED BY ONLY <4>1, <4>2, <4>3
    <3>5. DueInv'
      BY <2>1, <2>2, <3>1, <3>4 DEF CallInv, DueInv, NoBatch, histVars
    <3> QED BY <2>1, <3>2, <3>3, <3>5, TypePartsNext DEF CallInv
  <2> QED BY <1>3, <2>1, <2>2, AnswerCall DEF PlainStep
<1>4. CASE PlainEnd
  <2>1. BrokerTypes' /\ pc = "plain" /\ batch = <<>>
    BY <1>1, <1>4, SameTypes DEF PlainEnd
  <2>2. ASSUME pc' = "output", UNCHANGED <<callVars, stepVars, histVars>> PROVE CallInv'
    BY <1>1, <2>1, <2>2, SameTypes, MoveCall DEF PcOK, callVars
  <2> QED BY <1>4, <2>1, <2>2, AnswerCall DEF PlainEnd, Goto
<1>5. CASE OpenSession
  <2>1. CASE SessionFails /\ Answer(TRUE)
    BY <1>1, <2>1, SessionFailsTypes, AnswerCall
  <2>2. CASE /\ Session /\ own' = (IF tool = "read" THEN 0 ELSE sess')
             /\ pc' = (IF tool = "read" THEN "read" ELSE "lease")
             /\ UNCHANGED <<tool, batch, requested, needsFrame, wantsShot, stepVars, histVars>>
    <3>1. BrokerTypes' /\ sess' \in 0..MaxGen
      BY <1>1, <2>2, SessionTypes DEF BrokerTypes
    <3>2. CallTypes'
      BY <1>1, <2>2, <3>1, Bounds DEF TypeOK, CallTypes
    <3>3. StepTypes' /\ PcOK'
      BY <1>1, <2>2, SameTypes DEF PcOK
    <3>4. pc = "session"
      BY <1>5 DEF OpenSession
    <3>5. pc' \in NoBatch => batch = <<>>
      BY <2>2 DEF NoBatch, CallInv, DueInv
    <3> QED BY <2>2, <3>1, <3>2, <3>3, <3>4, <3>5, MoveCall
  <2> QED BY <1>5, <2>1, <2>2 DEF OpenSession, Goto
<1>6. CASE Read
  <2>1. BrokerTypes'
    BY <1>1, <1>6, RefreshTypes DEF Read
  <2> QED BY <1>6, <2>1, AnswerCall DEF Read
<1>7. CASE Output
  <2>1. BrokerTypes'
    BY <1>1, <1>7, SessionTypes, SessionFailsTypes DEF Output
  <2> QED BY <1>7, <2>1, AnswerCall DEF Output
<1> QED BY <1>2, <1>3, <1>4, <1>5, <1>6, <1>7

\* The lease is taken, used for one action, and given back.
LEMMA LeaseCall ==
  ASSUME IInv, CallInv, AcquireLease \/ Execute \/ ReleaseLease \/ ReleaseAfterFailure
  PROVE  CallInv'
<1>1. TypeOK
  BY DEF CallInv
<1>2. CASE AcquireLease
  <2>1. pc = "lease" /\ own \in 1..MaxGen /\ 0 \in 0..MaxGen
    BY <1>1, <1>2, Bounds DEF AcquireLease, IInv, GenInv, TypeOK
  <2>2. BrokerTypes'
    <3>1. /\ known' \in {known, 0} /\ lease' \in {{own}, {}, lease} /\ expired' \in BOOLEAN
          /\ UNCHANGED <<host, spawned, sess>>
      BY <1>1, <1>2 DEF AcquireLease, TypeOK
    <3> QED BY <1>1, <2>1, <3>1 DEF BrokerTypes, TypeOK
  <2>3. ASSUME pc' = (IF tool = "execute" THEN "execute" ELSE "prepare"),
               UNCHANGED <<callVars, stepVars, histVars>>
        PROVE  CallInv'
    <3>1. pc' \in NoBatch => batch = <<>>
      BY <2>3 DEF NoBatch, CallInv, DueInv
    <3> QED BY <1>1, <2>1, <2>2, <2>3, <3>1, SameTypes, MoveCall DEF PcOK, callVars
  <2> QED BY <1>2, <2>2, <2>3, AnswerCall DEF AcquireLease, Goto
<1>3. CASE Execute
  <2>1. /\ pc = "execute" /\ pc' = "release" /\ UNCHANGED <<host, spawned, sess, callVars, stepVars, histVars>>
        /\ Refresh
    BY <1>3 DEF Execute, Goto
  <2>2. batch = <<>>
    BY <1>3, <2>1 DEF CallInv, DueInv, NoBatch
  <2>3. BrokerTypes' /\ CallTypes' /\ StepTypes' /\ PcOK'
    BY <1>1, <2>1, RefreshTypes, SameTypes DEF PcOK
  <2> QED BY <2>1, <2>2, <2>3, MoveCall DEF callVars
<1>4. CASE ReleaseLease
  <2>1. pc = "release" /\ batch = <<>> /\ BrokerTypes'
    BY <1>1, <1>4, ReleaseTypes DEF ReleaseLease, CallInv, DueInv, NoBatch
  <2>2. ASSUME pc' = "output", UNCHANGED <<callVars, stepVars, histVars>> PROVE CallInv'
    BY <1>1, <2>1, <2>2, SameTypes, MoveCall DEF PcOK, callVars
  <2> QED BY <1>4, <2>1, <2>2, AnswerCall DEF ReleaseLease, Goto
<1>5. CASE ReleaseAfterFailure
  <2>1. BrokerTypes'
    BY <1>1, <1>5, ReleaseTypes DEF ReleaseAfterFailure
  <2> QED BY <1>5, <2>1, AnswerCall DEF ReleaseAfterFailure
<1> QED BY <1>2, <1>3, <1>4, <1>5

\* A batch takes its target, its frame, and ends.
LEMMA OpenCall ==
  ASSUME CallInv, Prepare \/ Capture \/ BatchEnd \/ ParseFails \/ NotPerformed
  PROVE  CallInv'
<1>1. TypeOK
  BY DEF CallInv
<1>2. CASE Prepare
  <2>1. pc = "prepare" /\ BrokerTypes'
    BY <1>1, <1>2, RefreshTypes DEF Prepare
  <2>2. ASSUME target' \in Targets, pc' \in {"capture", "steps"},
               UNCHANGED <<callVars, frame, pending, committed, why, attempt, histVars>>
        PROVE  CallInv'
    <3>1. CallTypes' /\ PcOK'
      BY <1>1, <2>2, SameTypes DEF PcOK
    <3>2. StepTypes'
      BY <1>1, <2>2 DEF StepTypes, TypeOK, Targets
    <3> QED BY <2>1, <2>2, <3>1, <3>2, MoveCall DEF callVars, NoBatch
  <2> QED BY <1>2, <2>1, <2>2, FailCall DEF Prepare, Goto
<1>3. CASE Capture
  <2>1. pc = "capture" /\ BrokerTypes'
    BY <1>1, <1>3, SessionTypes, SessionFailsTypes DEF Capture
  <2>2. ASSUME Session, frame' = sess', stale' = FALSE, pc' = "steps",
               UNCHANGED <<callVars, target, pending, committed, why, attempt, due, overlay, sent, reply>>
        PROVE  CallInv'
    <3>1. CallTypes' /\ PcOK'
      BY <1>1, <2>2, SameTypes DEF PcOK
    <3>2. StepTypes'
      BY <1>1, <2>1, <2>2 DEF StepTypes, BrokerTypes, TypeOK
    <3>3. HistTypes'
      BY <1>1, <2>2 DEF HistTypes, TypeOK
    <3>4. DueInv'
      BY <2>1, <2>2 DEF CallInv, DueInv, NoBatch, callVars
    <3> QED BY <2>1, <3>1, <3>2, <3>3, <3>4, TypePartsNext DEF CallInv
  <2> QED BY <1>3, <2>1, <2>2, FailCall DEF Capture, Goto
<1>4. CASE BatchEnd
  <2>1. /\ pc = "steps" /\ batch = <<>> /\ pc' = "release"
        /\ UNCHANGED <<brokerVars, sess, callVars, stepVars, histVars>>
    BY <1>4 DEF BatchEnd, Goto
  <2> QED BY <1>1, <2>1, SameTypes, MoveCall DEF PcOK, callVars
<1>5. CASE ParseFails \/ NotPerformed
  <2>1. BrokerTypes' /\ Fail
    BY <1>1, <1>5, SameTypes DEF ParseFails, NotPerformed
  <2> QED BY <2>1, FailCall
<1> QED BY <1>2, <1>3, <1>4, <1>5

\* Steps of a batch that perform no input.
LEMMA PauseCall ==
  ASSUME CallInv, Wait \/ Screenshot
  PROVE  CallInv'
<1>1. TypeOK /\ pc = "steps" /\ batch # <<>> /\ ~action_requires_execution(Head(batch))
  BY DEF CallInv, Wait, Screenshot, action_requires_execution
<1>2. /\ batch' = Tail(batch) /\ UNCHANGED <<tool, requested, needsFrame, wantsShot, own>>
      /\ UNCHANGED <<brokerVars, sess, target, frame, pending, committed, histVars>>
      /\ why' \in {why, "wait"} /\ attempt' \in {attempt, 1}
      /\ pc' \in {"steps", "rebind", "capture"}
  BY <1>1 DEF Wait, Screenshot, Advance, Goto
<1>3. batch \in Seq(Kinds) /\ Tail(batch) \in Seq(Kinds)
  BY <1>1 DEF TypeOK
<1>4. due' = Executions(batch')
  <2>1. due = Executions(batch) /\ Executions(Tail(batch)) \in Nat
    BY <1>1, <1>3, ExecutionsFacts DEF CallInv, DueInv
  <2>2. Executions(batch) = Executions(Tail(batch)) + (IF action_requires_execution(Head(batch)) THEN 1 ELSE 0)
    BY <1>1, <1>3, ExecutionsFacts
  <2>3. Executions(batch) = Executions(Tail(batch))
    BY ONLY <1>1, <2>1, <2>2
  <2> QED BY <1>2, <2>1, <2>3 DEF histVars
<1>5. BrokerTypes' /\ HistTypes' /\ PcOK'
  BY <1>1, <1>2, SameTypes DEF PcOK
<1>6. CallTypes'
  BY <1>1, <1>2, <1>3 DEF CallTypes, TypeOK
<1>7. StepTypes'
  <2>1. 1 \in 0..Rebinds
    BY Bounds
  <2> QED BY <1>1, <1>2, <2>1 DEF StepTypes, TypeOK
<1>8. DueInv'
  <2>1. tool # "computer_use" => FALSE
    BY <1>1 DEF CallInv, DueInv
  <2> QED BY <1>2, <1>4, <2>1 DEF DueInv, NoBatch
<1> QED BY <1>5, <1>6, <1>7, <1>8, TypePartsNext DEF CallInv

\* An input action goes to the broker, which performs it or not.
LEMMA DispatchCall ==
  ASSUME CallInv, NEW k \in Inputs, Dispatch(k)
  PROVE  CallInv'
<1>1. TypeOK /\ pc = "steps" /\ batch # <<>> /\ Head(batch) = k /\ action_requires_execution(Head(batch))
  BY DEF CallInv, Dispatch, action_requires_execution, Inputs, Keyboard
<1>2. PICK ok \in BOOLEAN :
        /\ sent' = {[kind |-> k, route |-> Route(k), frame |-> frame, own |-> own, stale |-> stale,
                     pending |-> pending, accepted |-> ok]}
        /\ pc' = (IF ok THEN "performed" ELSE "refused")
        /\ due' = due - (IF ok THEN 1 ELSE 0)
        /\ stale' = (stale \/ (ok /\ action_changes_foreground(k)))
        /\ overlay' = (IF ok /\ k \in {"switch", "commit"} THEN FALSE
                       ELSE overlay \/ (ok /\ action_opens_transient_overlay(k)))
  BY DEF Dispatch, Goto
<1>3. Refresh /\ UNCHANGED <<host, spawned, sess, callVars, stepVars, reply>>
  BY DEF Dispatch
<1>4. /\ batch \in Seq(Kinds) /\ Executions(Tail(batch)) \in Nat /\ due = Executions(batch)
      /\ Executions(batch) = Executions(Tail(batch)) + 1
  <2>1. batch \in Seq(Kinds) /\ Tail(batch) \in Seq(Kinds) /\ due = Executions(batch)
    BY <1>1 DEF TypeOK, CallInv, DueInv
  <2>2. Executions(Tail(batch)) \in Nat
    BY <2>1, ExecutionsFacts
  <2>3. Executions(batch) = Executions(Tail(batch)) + (IF action_requires_execution(Head(batch)) THEN 1 ELSE 0)
    BY <1>1, <2>1, ExecutionsFacts
  <2> QED BY <1>1, <2>1, <2>2, <2>3
<1>5. due' \in Nat /\ (ok => due' = Executions(Tail(batch))) /\ (~ok => due' = Executions(batch))
  <2>1. CASE ok
    BY ONLY <1>2, <1>4, <2>1
  <2>2. CASE ~ok
    BY ONLY <1>2, <1>4, <2>2
  <2> QED BY <2>1, <2>2
<1>6. BrokerTypes' /\ CallTypes' /\ StepTypes' /\ PcOK'
  BY <1>1, <1>2, <1>3, RefreshTypes, SameTypes DEF PcOK
<1>7. HistTypes'
  <2>1. sent' \subseteq Sent
    <3>1. Route(k) \in Routes
      BY DEF Route, Routes
    <3>2. frame \in 0..MaxGen /\ own \in 0..MaxGen /\ stale \in BOOLEAN /\ pending \in BOOLEAN
      BY <1>1 DEF TypeOK
    <3> QED BY <1>2, <3>1, <3>2 DEF Sent
  <2>2. stale' \in BOOLEAN
    BY <1>1, <1>2 DEF TypeOK
  <2>3. overlay' \in BOOLEAN
    BY <1>1, <1>2 DEF TypeOK
  <2>4. reply' \in SUBSET Reply
    BY <1>1, <1>3 DEF TypeOK
  <2> QED BY <1>5, <2>1, <2>2, <2>3, <2>4 DEF HistTypes
<1>8. DueInv'
  <2>1. tool = "computer_use"
    BY <1>1 DEF CallInv, DueInv
  <2> QED BY <1>2, <1>3, <1>5, <2>1 DEF DueInv, NoBatch, callVars
<1> QED BY <1>6, <1>7, <1>8, TypePartsNext DEF CallInv

\* The action that was performed leaves the batch.
LEMMA PerformedCall ==
  ASSUME IInv, CallInv, Performed
  PROVE  CallInv'
<1>1. TypeOK /\ pc = "performed" /\ batch # <<>> /\ due = Executions(Tail(batch))
  BY DEF CallInv, DueInv, Performed, IInv, QuietInv
<1>2. /\ batch' = Tail(batch) /\ UNCHANGED <<tool, requested, needsFrame, wantsShot, own>>
      /\ UNCHANGED <<brokerVars, sess, target, frame, due, stale, overlay, reply>> /\ sent' = {}
      /\ pending' \in {pending, TRUE} /\ committed' \in {committed, FALSE}
      /\ why' \in {why, "switch", "commit"} /\ attempt' \in {attempt, 1}
      /\ pc' \in {"steps", "rebind"}
  BY DEF Performed, Advance, Goto
<1>3. BrokerTypes' /\ PcOK'
  BY <1>1, <1>2, SameTypes DEF PcOK
<1>4. CallTypes'
  BY <1>1, <1>2 DEF CallTypes, TypeOK
<1>5. StepTypes'
  <2>1. 1 \in 0..Rebinds
    BY Bounds
  <2> QED BY <1>1, <1>2, <2>1 DEF StepTypes, TypeOK
<1>6. HistTypes'
  BY <1>1, <1>2 DEF HistTypes, TypeOK
<1>7. DueInv'
  <2>1. tool = "computer_use"
    BY <1>1 DEF CallInv, DueInv
  <2> QED BY <1>1, <1>2, <2>1 DEF DueInv, NoBatch
<1> QED BY <1>3, <1>4, <1>5, <1>6, <1>7, TypePartsNext DEF CallInv

\* The attempts to rebind are counted and end.
LEMMA RebindCall ==
  ASSUME CallInv, Rebind \/ Probe
  PROVE  CallInv'
<1>1. TypeOK /\ pc \in {"rebind", "probe"} /\ BrokerTypes'
  BY RefreshTypes DEF CallInv, Rebind, Probe
<1>2. ASSUME pc' \in {"rebind", "probe"}, attempt' \in 0..Rebinds,
             UNCHANGED <<callVars, target, frame, pending, committed, why, histVars>>
      PROVE  CallInv'
  <2>1. CallTypes' /\ PcOK'
    BY <1>1, <1>2, SameTypes DEF PcOK
  <2>2. StepTypes'
    BY <1>1, <1>2 DEF StepTypes, TypeOK
  <2> QED BY <1>1, <1>2, <2>1, <2>2, MoveCall DEF NoBatch, callVars
<1>3. CASE Rebind
  <2>1. attempt \in 0..Rebinds /\ (~LastAttempt => attempt + 1 \in 0..Rebinds)
    BY <1>1, Bounds DEF TypeOK, LastAttempt
  <2>2. \/ Fail
        \/ /\ pc' \in {"rebind", "probe"} /\ attempt' \in 0..Rebinds
           /\ UNCHANGED <<callVars, target, frame, pending, committed, why, histVars>>
    BY <1>1, <1>3, <2>1 DEF Rebind, NextAttempt, Goto
  <2> QED BY <1>1, <1>2, <2>2, FailCall
<1>4. CASE Probe
  <2>1. ASSUME target' \in Targets, pending' = PendingAfter(target'),
               committed' = (why = "commit" \/ (why = "wait" /\ committed)),
               pc' \in {"capture", "steps"}, why' = "none", attempt' = 0,
               UNCHANGED <<callVars, frame, histVars>>
        PROVE  CallInv'
    <3>1. CallTypes' /\ PcOK'
      BY <1>1, <2>1, SameTypes DEF PcOK
    <3>2. 0 \in 0..Rebinds /\ target' \in Windows \union {NoWindow}
      BY <1>1, <2>1, Bounds DEF TypeOK, Targets
    <3>3. pending' \in BOOLEAN /\ committed' \in BOOLEAN
      BY <2>1 DEF PendingAfter
    <3>4. StepTypes'
      BY <1>1, <2>1, <3>2, <3>3 DEF StepTypes, TypeOK
    <3> QED BY <1>1, <2>1, <3>1, <3>4, MoveCall DEF NoBatch, callVars
  <2> QED BY <1>1, <1>4, <2>1, FailCall DEF Probe, Goto
<1> QED BY <1>3, <1>4

\* At the start nothing is called and nothing is owed.
LEMMA InitCall ==
  ASSUME Init
  PROVE  CallInv
<1>1. 0 \in 0..MaxGen /\ 0 \in 0..Rebinds /\ <<>> \in Seq(Kinds)
  BY Bounds
<1>2. TypeOK
  BY <1>1 DEF Init, TypeOK
<1>3. DueInv
  BY ExecutionsFacts DEF Init, DueInv
<1> QED BY <1>2, <1>3 DEF CallInv

\* Every step of the server, of clients and of the environment keeps the count
\* of the actions left, and the types.
LEMMA StepsKeepCall ==
  ASSUME IInv, CallInv, [Next]_vars
  PROVE  CallInv'
<1>1. CASE Serve
  BY <1>1, FreeCall, LeaseCall, OpenCall, PauseCall, DispatchCall, PerformedCall, RebindCall DEF Serve
<1> QED BY <1>1, RequestCall, EnvironmentCall DEF Next

\* What the calls of the server are made of has its type in every state, and
\* so have the actions a call still owes and the attempts to rebind it.
THEOREM ServerTypes == Spec => []TypeOK
<1>1. Init => CallInv
  BY InitCall
<1>2. IInv /\ CallInv /\ [Next]_vars => CallInv'
  BY StepsKeepCall
<1>3. CallInv => TypeOK
  BY DEF CallInv
<1> QED BY <1>1, <1>2, <1>3, ServerInvariance, PTL DEF Spec

-----------------------------------------------------------------------------
(* Success.                                                                *)

\* An answer without an error is given where nothing of the batch is left.
LEMMA SuccessKept ==
  ASSUME CallInv, SuccessIsComplete, [Next]_vars
  PROVE  SuccessIsComplete'
<1>1. UNCHANGED reply \/ reply' = {} => SuccessIsComplete'
  BY DEF SuccessIsComplete
<1>2. ASSUME Answer(TRUE) PROVE SuccessIsComplete'
  BY <1>2 DEF SuccessIsComplete, Answer
<1>3. ASSUME NEW e \in BOOLEAN, Answer(e), pc \in NoBatch \/ (pc = "plain" /\ batch = <<>>)
      PROVE  SuccessIsComplete'
  <2>1. due = 0
    BY <1>3, ExecutionsFacts DEF CallInv, DueInv, NoBatch
  <2> QED BY <1>3, <2>1 DEF SuccessIsComplete, Answer
<1>4. CASE Health \/ PlainStep \/ PlainEnd \/ OpenSession \/ Read \/ Output
  <2>1. CASE Health \/ Read \/ Output
    BY <1>3, <2>1 DEF Health, Read, Output, NoBatch
  <2>2. CASE PlainStep
    BY <1>1, <1>2, <2>2 DEF PlainStep, histVars
  <2>3. CASE PlainEnd
    BY <1>1, <1>3, <2>3 DEF PlainEnd, histVars
  <2>4. CASE OpenSession
    BY <1>1, <1>2, <2>4 DEF OpenSession, histVars
  <2> QED BY <1>4, <2>1, <2>2, <2>3, <2>4
<1>5. CASE AcquireLease \/ Execute \/ ReleaseLease \/ ReleaseAfterFailure
  <2>1. CASE AcquireLease
    BY <1>1, <1>2, <2>1 DEF AcquireLease, histVars
  <2>2. CASE Execute
    BY <1>1, <2>2 DEF Execute, histVars
  <2>3. CASE ReleaseLease
    BY <1>1, <1>3, <2>3 DEF ReleaseLease, histVars, NoBatch
  <2>4. CASE ReleaseAfterFailure
    BY <1>2, <2>4 DEF ReleaseAfterFailure
  <2> QED BY <1>5, <2>1, <2>2, <2>3, <2>4
<1>6. CASE Prepare \/ Capture \/ BatchEnd \/ ParseFails \/ Wait \/ Screenshot \/ NotPerformed
           \/ Performed \/ Rebind \/ Probe \/ \E k \in Inputs : Dispatch(k)
  <2>1. UNCHANGED reply
    BY <1>6 DEF Prepare, Capture, BatchEnd, ParseFails, Wait, Screenshot, NotPerformed, Performed,
                Rebind, Probe, Dispatch, Fail, histVars
  <2> QED BY <1>1, <2>1
<1>7. CASE Request
  <2>1. Refused => Answer(TRUE)
    BY DEF Refused
  <2>2. Request => Refused \/ UNCHANGED reply \/ reply' = {}
    BY DEF Request, CallBatch, CallTool, EndOfInput, histVars
  <2> QED BY <1>1, <1>2, <1>7, <2>1, <2>2
<1>8. CASE ProcessDies \/ LeaseDeadline \/ UNCHANGED vars
  BY <1>1, <1>8 DEF ProcessDies, LeaseDeadline, vars, histVars
<1> QED BY <1>4, <1>5, <1>6, <1>7, <1>8 DEF Next, Serve

\* A call that is answered without an error has performed every input action
\* it asked for, however long its batch and whatever died under it.
THEOREM SuccessComplete == Spec => []SuccessIsComplete
<1>1. Init => CallInv /\ SuccessIsComplete
  BY InitCall DEF Init, SuccessIsComplete
<1>2. IInv /\ CallInv /\ SuccessIsComplete /\ [Next]_vars => CallInv' /\ SuccessIsComplete'
  BY StepsKeepCall, SuccessKept
<1> QED BY <1>1, <1>2, ServerInvariance, PTL DEF Spec
=============================================================================
