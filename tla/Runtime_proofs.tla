---------------------------- MODULE Runtime_proofs ----------------------------
(***************************************************************************)
(* Proofs about the backends of the sidecar process: the store of elements *)
(* they share, execute_policy of Windows and of macOS, and the process     *)
(* with all its parts.  For any controls, windows, sizes of trees and any  *)
(* number of generations, sessions and verifications.                      *)
(***************************************************************************)
EXTENDS MCRuntime, SidecarServer_proofs, FrameStore_proofs, InputDispatch_proofs

-----------------------------------------------------------------------------
(* The store.                                                              *)

HeldFields == {"id", "control", "window", "spent"}

\* A reference the caller has is of this generation or an earlier one.
NotAhead(h) ==
  /\ DOMAIN h = HeldFields
  /\ h.id.nonce \in Nat /\ h.id.nonce <= nonce /\ h.id.gen \in Nat
  /\ h.id.nonce = nonce => h.id.gen <= gen

HeldBehind == \A h \in held : NotAhead(h)

\* So is what a probe remembers.
CacheBehind ==
  /\ DOMAIN cache = Windows
  /\ \A w \in Windows : \A e \in cache[w] : e.gen \in Nat /\ e.gen <= gen

ElementInv ==
  /\ gen \in Nat /\ nonce \in Nat
  /\ HeldBehind /\ CacheBehind
  /\ ReferenceHolds /\ SpentIsDead /\ CachedIsCurrent

\* A new generation, whatever elements it has: no old reference and no old
\* entry of the cache is of it.
Renewed == gen' \in Nat /\ gen' > gen /\ UNCHANGED <<nonce, cache>>

\* What is left of the references after a new generation is behind it.
LEMMA OldDoNotResolve ==
  ASSUME ElementInv, Renewed, NEW h \in held
  PROVE  ~Resolves(h.id)' /\ NotAhead(h)'
BY DEF ElementInv, Renewed, HeldBehind, NotAhead, Resolves

\* Nor is any entry of the cache fresh.
LEMMA OldAreNotFresh ==
  ASSUME ElementInv, Renewed
  PROVE  CacheBehind' /\ CachedIsCurrent'
<1>1. ASSUME NEW w \in Windows, NEW e \in cache[w] PROVE e.gen \in Nat /\ e.gen < gen'
  BY <1>1 DEF ElementInv, CacheBehind, Renewed
<1>2. CacheBehind'
  BY <1>1 DEF CacheBehind, ElementInv, Renewed
<1>3. \A w \in Windows : Fresh(w)' = {}
  BY <1>1 DEF Fresh, Renewed
<1> QED BY <1>2, <1>3 DEF CachedIsCurrent

\* A spent reference is the same reference.
LEMMA SpentSame ==
  ASSUME NEW h, NotAhead(h)
  PROVE  LET s == [h EXCEPT !.spent = TRUE]
         IN s.id = h.id /\ DOMAIN s = HeldFields
BY DEF NotAhead, HeldFields

\* A new generation keeps the store in order.
LEMMA RenewKeeps ==
  ASSUME ElementInv, Renewed, held' = held \/ Spend
  PROVE  ElementInv'
<1>1. ASSUME NEW g \in held' PROVE ~Resolves(g.id)' /\ NotAhead(g)'
  <2>1. CASE held' = held
    BY <1>1, <2>1, OldDoNotResolve
  <2>2. CASE Spend
    <3>1. PICK h \in held : g = [h EXCEPT !.spent = TRUE]
      BY <1>1, <2>2 DEF Spend
    <3>2. g.id = h.id /\ DOMAIN g = HeldFields
      BY <3>1, SpentSame DEF ElementInv, HeldBehind
    <3>3. ~Resolves(h.id)' /\ NotAhead(h)'
      BY OldDoNotResolve
    <3> QED BY <3>2, <3>3 DEF NotAhead
  <2> QED BY <2>1, <2>2
<1>2. HeldBehind' /\ ReferenceHolds' /\ SpentIsDead'
  BY <1>1 DEF HeldBehind, ReferenceHolds, SpentIsDead
<1> QED BY <1>2, OldAreNotFresh DEF ElementInv, Renewed

\* A new observation that the caller sees.
LEMMA GiveKeeps ==
  ASSUME ElementInv, NEW w \in Windows, NEW t \in Trees, ObserveOk(w, t), Give(w, t),
         UNCHANGED <<nonce, cache>>
  PROVE  ElementInv'
<1>1. Renewed /\ current' = t /\ window' = w
  BY DEF ObserveOk, replace_snapshot, Renewed, ElementInv
<1>2. CASE held' = held
  BY <1>1, <1>2, RenewKeeps
<1>3. CASE held' # held
  <2>1. PICK i \in 1..Len(t) :
          held' = {[id |-> Id(gen', i), control |-> t[i].control, window |-> w, spent |-> FALSE]}
    BY <1>3 DEF Give
  <2>2. HeldBehind'
    BY <2>1, <1>1 DEF HeldBehind, NotAhead, HeldFields, Id, Renewed, ElementInv
  <2>3. ReferenceHolds' /\ SpentIsDead'
    BY <2>1, <1>1 DEF ReferenceHolds, SpentIsDead, Resolves, Record, Id
  <2> QED BY <1>1, <2>2, <2>3, OldAreNotFresh DEF ElementInv, Renewed
<1> QED BY <1>2, <1>3

\* A probe remembers what the sample of the current elements says.
LEMMA ProbeKeeps ==
  ASSUME ElementInv, capability_probe
  PROVE  ElementInv'
<1>1. UNCHANGED <<nonce, gen, current, window, held>>
  BY DEF capability_probe
<1>2. PICK w \in Windows : cache' = [cache EXCEPT ![w] = {}] \/ cache' = [cache EXCEPT ![w] = {Profile(w)}]
  BY DEF capability_probe
<1>3. ASSUME NEW v \in Windows, NEW e \in cache'[v]
      PROVE  e \in cache[v] \/ (v = w /\ e = Profile(w))
  BY <1>2, <1>3 DEF ElementInv, CacheBehind
<1>4. Profile(w).gen = gen /\ Profile(w).status = Assess(w)
  BY DEF Profile
<1>5. Assess(w) # "unknown" => window = w
  BY DEF Assess
<1>6. CacheBehind'
  <2>1. DOMAIN cache' = Windows
    BY <1>2 DEF ElementInv, CacheBehind
  <2> QED BY <2>1, <1>1, <1>3, <1>4 DEF ElementInv, CacheBehind
<1>7. CachedIsCurrent'
  <2> SUFFICES ASSUME NEW v \in Windows, NEW e \in Fresh(v)', e.status # "unknown", gen' # 0
               PROVE  window' = v /\ e.status = Assess(v)'
    BY DEF CachedIsCurrent
  <2>1. e \in cache'[v] /\ e.gen = gen /\ gen # 0
    BY <1>1 DEF Fresh
  <2>2. Assess(v)' = Assess(v)
    BY <1>1 DEF Assess, SampleLen
  <2>3. CASE e \in cache[v]
    <3>1. e \in Fresh(v)
      BY <2>1, <2>3 DEF Fresh
    <3> QED BY <3>1, <2>1, <2>2, <1>1 DEF ElementInv, CachedIsCurrent
  <2>4. CASE v = w /\ e = Profile(w)
    BY <2>2, <2>4, <1>1, <1>4, <1>5
  <2> QED BY <1>3, <2>1, <2>3, <2>4
<1>8. HeldBehind' /\ ReferenceHolds' /\ SpentIsDead'
  BY <1>1 DEF ElementInv, HeldBehind, NotAhead, ReferenceHolds, SpentIsDead, Resolves, Record
<1> QED BY <1>1, <1>6, <1>7, <1>8 DEF ElementInv

\* The next session has another nonce, and an empty cache.
LEMMA NextSessionKeeps ==
  ASSUME ElementInv, close_session
  PROVE  ElementInv'
<1>1. /\ nonce' = nonce + 1 /\ nonce' \in Nat /\ gen' = 0 /\ held' = held
      /\ cache' = [w \in Windows |-> {}]
  BY DEF close_session, ElementInv
<1>2. ASSUME NEW h \in held PROVE ~Resolves(h.id)' /\ NotAhead(h)'
  BY <1>1 DEF ElementInv, HeldBehind, NotAhead, Resolves
<1>3. CacheBehind' /\ CachedIsCurrent'
  BY <1>1 DEF CacheBehind, CachedIsCurrent, Fresh
<1> QED BY <1>1, <1>2, <1>3 DEF ElementInv, HeldBehind, ReferenceHolds, SpentIsDead

\* Nothing of the store changes.
LEMMA StoreSame ==
  ASSUME ElementInv, UNCHANGED storeVars
  PROVE  ElementInv'
<1>1. UNCHANGED <<nonce, gen, current, window, cache, held>>
  BY DEF storeVars
<1>2. HeldBehind' /\ CacheBehind'
  BY <1>1 DEF ElementInv, HeldBehind, NotAhead, CacheBehind
<1>3. ReferenceHolds' /\ SpentIsDead'
  BY <1>1 DEF ElementInv, ReferenceHolds, SpentIsDead, Resolves, Record
<1>4. CachedIsCurrent'
  BY <1>1 DEF ElementInv, CachedIsCurrent, Fresh, Assess, SampleLen
<1> QED BY <1>1, <1>2, <1>3, <1>4 DEF ElementInv

\* An observation, seen or not.
LEMMA ObserveKeeps ==
  ASSUME ElementInv, observe
  PROVE  ElementInv'
<1>1. UNCHANGED <<nonce, cache>>
  BY DEF observe
<1>2. ASSUME NEW w \in Windows, NEW t \in Trees, ObserveOk(w, t), Give(w, t) PROVE ElementInv'
  BY <1>1, <1>2, GiveKeeps
<1>3. CASE ObserveErr /\ held' = held
  <2>1. Renewed
    BY <1>1, <1>3 DEF ObserveErr, invalidate, Renewed, ElementInv
  <2> QED BY <1>3, <2>1, RenewKeeps
<1> QED BY <1>2, <1>3 DEF observe

-----------------------------------------------------------------------------
(* The actions of UI Automation.                                           *)

\* A pattern that was called has an outcome that says so, only such a call is
\* told as performed, and a generation that is told is the new one.
Fits(r) ==
  /\ r.called => r.status \in {"Performed", "VerificationFailed", "OutcomeUnknown", "FocusDenied"}
  /\ r.status = "Performed" => r.called
  /\ r.after \subseteq {gen'}

\* What an action does to the store, and what it returns.
Effect == Fits(result') /\ (UNCHANGED storeVars \/ (Renewed /\ Spend))

\* A refusal.
LEMMA RefuseFits ==
  ASSUME NEW s, s # "Performed", Refuse(s)
  PROVE  Effect
BY DEF Refuse, Answered, Effect, Fits

\* A call that leaves no elements.
LEMMA InvalidatedFits ==
  ASSUME ElementInv, NEW s \in {"Performed", "VerificationFailed", "OutcomeUnknown", "FocusDenied"},
         Invalidated(s)
  PROVE  Effect
<1>1. Renewed /\ Spend
  BY DEF Invalidated, invalidate, Renewed, ElementInv
<1>2. Fits(result')
  BY DEF Invalidated, Answered, Fits
<1> QED BY <1>1, <1>2 DEF Effect

\* A call with new elements.
LEMMA RefreshedFits ==
  ASSUME ElementInv, NEW s \in {"Performed", "VerificationFailed"}, NEW id, NEW n \in BOOLEAN,
         Refreshed(s, id, n)
  PROVE  Effect
<1>1. Renewed /\ Spend
  BY DEF Refreshed, replace_snapshot, Renewed, ElementInv
<1>2. Fits(result')
  BY DEF Refreshed, Answered, Fits
<1> QED BY <1>1, <1>2 DEF Effect

\* Focus; its verified call is the one that keeps the store.
LEMMA FocusFits ==
  ASSUME ElementInv, NEW id, Focus(id)
  PROVE  Effect
<1>1. ASSUME Answered("Performed", TRUE, {gen}), UNCHANGED storeVars PROVE Effect
  <2>1. gen' = gen
    BY <1>1 DEF storeVars
  <2> QED BY <1>1, <2>1 DEF Answered, Effect, Fits
<1> QED BY <1>1, RefuseFits, InvalidatedFits DEF Focus

\* Invoke.
LEMMA InvokeFits ==
  ASSUME ElementInv, NEW id, Invoke(id)
  PROVE  Effect
BY RefuseFits, InvalidatedFits, RefreshedFits DEF Invoke

\* SetValue, with the invalidation that follows an unread refresh.
LEMMA SetValueFits ==
  ASSUME ElementInv, NEW id, SetValue(id)
  PROVE  Effect
<1>1. ASSUME invalidate(2), Spend, Answered("OutcomeUnknown", TRUE, {gen'}), UNCHANGED <<nonce, cache>>
      PROVE  Effect
  <2>1. Renewed
    BY <1>1 DEF invalidate, Renewed, ElementInv
  <2> QED BY <1>1, <2>1 DEF Answered, Effect, Fits
<1>2. ASSUME ValueWritten(id) PROVE Effect
  BY <1>1, <1>2, InvalidatedFits, RefreshedFits DEF ValueWritten
<1> QED BY <1>2, RefuseFits DEF SetValue

\* Toggle.
LEMMA ToggleFits ==
  ASSUME ElementInv, NEW id, Toggle(id)
  PROVE  Effect
<1>1. ASSUME Toggled(id) PROVE Effect
  BY <1>1, InvalidatedFits, RefreshedFits DEF Toggled
<1> QED BY <1>1, RefuseFits DEF Toggle

\* Select and ExpandCollapse.
LEMMA SelectFits ==
  ASSUME ElementInv, NEW id, Select(id)
  PROVE  Effect
BY RefuseFits, InvalidatedFits, RefreshedFits DEF Select

\* A range without limits is answered without a call.
LEMMA RangeFits ==
  ASSUME ElementInv, NEW id, SetRangeValue(id)
  PROVE  Effect
<1>1. ASSUME invalidate(1), Spend, Answered("OutcomeUnknown", FALSE, {gen'}), UNCHANGED <<nonce, cache>>
      PROVE  Effect
  <2>1. Renewed
    BY <1>1 DEF invalidate, Renewed, ElementInv
  <2> QED BY <1>1, <2>1 DEF Answered, Effect, Fits
<1>2. ASSUME RangeWritten(id) PROVE Effect
  BY <1>1, <1>2, InvalidatedFits, RefreshedFits DEF RangeWritten
<1> QED BY <1>2, RefuseFits DEF SetRangeValue

\* ScrollIntoView.
LEMMA ScrollFits ==
  ASSUME ElementInv, NEW id, ScrollIntoView(id)
  PROVE  Effect
BY RefuseFits, InvalidatedFits, RefreshedFits DEF ScrollIntoView

\* Every action of every kind.
LEMMA ActionFits ==
  ASSUME ElementInv, NEW k, NEW id, action(k, id)
  PROVE  Effect
<1>1. CASE ActionPrologue(id)
  <2>1. element_status_for_generation(id) # "Performed"
    BY DEF element_status_for_generation
  <2> QED BY <1>1, <2>1, RefuseFits DEF ActionPrologue
<1>2. CASE ActionError(id)
  BY <1>2 DEF ActionError, Answered, Effect, Fits
<1>3. CASE Act(k, id)
  <2>1. \/ Focus(id) \/ Invoke(id) \/ SetValue(id) \/ Toggle(id) \/ Select(id)
        \/ SetRangeValue(id) \/ ScrollIntoView(id)
    BY <1>3 DEF Act, ExpandCollapse
  <2> QED BY <2>1, FocusFits, InvokeFits, SetValueFits, ToggleFits, SelectFits, RangeFits, ScrollFits
<1> QED BY <1>1, <1>2, <1>3 DEF action

\* And so every action keeps the store in order.
LEMMA EffectKeeps ==
  ASSUME ElementInv, Effect
  PROVE  ElementInv'
BY StoreSame, RenewKeeps DEF Effect

-----------------------------------------------------------------------------
(* The request.                                                            *)

JobFields == {"outcome", "after", "attempts", "called", "dispatched", "aimed", "window",
              "from", "fallback", "verified", "looks", "seen", "missed"}

\* Pixels may stand in for the element action that was asked for.
Admitted ==
  /\ req.strategy # "SemanticOnly"
  /\ req.strategy = "PreferSemantic" => req.policy = "Allow" /\ action_allows_pixel_fallback(req.kind)

\* They are aimed at the element of the current observation the caller named.
Aimed == req.id.nonce = nonce /\ req.id.gen = job.aimed

BeforeAttempt == pc \in {"idle", "policy"} => job = NoJob

Preparing ==
  pc = "prepare" => req.intent = "semantic" /\ Admitted /\ ~job.called /\ job.dispatched = 0
                    /\ ~job.verified /\ ~job.fallback

\* From the preparation on nothing was called, and what was dispatched is the
\* pixel action alone.
InPixels ==
  pc \in {"pixel", "verify"} =>
    /\ ~job.called /\ (req.intent = "semantic" => Admitted /\ Aimed)
    /\ job.dispatched = (IF pc = "pixel" THEN 0 ELSE 1)
    /\ pc = "verify" => ~job.verified

\* What an answered fallback was.
AnsweredFallback ==
  req.intent = "semantic" /\ job.fallback => Admitted /\ Aimed /\ ~job.called

JobInv ==
  /\ DOMAIN job = JobFields
  /\ pc \in {"idle", "policy", "prepare", "pixel", "verify", "answered"}
  /\ BeforeAttempt /\ Preparing /\ InPixels /\ AnsweredFallback
  /\ OneEffect /\ job.dispatched \in Nat /\ RefusalsTouchNothing /\ GenerationHolds

\* What the job becomes with the result of the semantic attempt.
Tried(r) ==
  [job EXCEPT !.attempts = 1, !.called = r.called,
              !.dispatched = (IF r.called THEN 1 ELSE 0), !.after = r.after,
              !.outcome = execution_outcome_from_semantic(r.status),
              !.verified = (r.status = "Performed")]

\* The ways a request goes on after its semantic attempt.
LEMMA AfterCases ==
  ASSUME NEW r, AfterSemantic(r)
  PROVE  \/ Finish(Tried(r))
         \/ /\ semantic_failure_can_fallback(r.status)
            /\ Finish([Tried(r) EXCEPT !.outcome = "FallbackDenied"])
         \/ /\ r.status = "Err" \/ semantic_failure_can_fallback(r.status)
            /\ req.strategy # "SemanticOnly" /\ req.policy = "Allow"
            /\ action_allows_pixel_fallback(req.kind)
            /\ pc' = "prepare" /\ job' = Tried(r)
BY DEF AfterSemantic, Tried
\* The semantic attempt: its refusals leave the way to the pixels open, and
\* whatever it called closes it.
LEMMA AfterKeeps ==
  ASSUME JobInv, pc = "policy", req.intent = "semantic", UNCHANGED req,
         NEW r, Fits(r), AfterSemantic(r)
  PROVE  JobInv'
<1>1. job = NoJob
  BY DEF JobInv, BeforeAttempt
<1> DEFINE T == Tried(r)
<1>2. /\ DOMAIN T = JobFields /\ T.called = r.called /\ T.dispatched = (IF r.called THEN 1 ELSE 0)
      /\ T.after = r.after /\ T.outcome = execution_outcome_from_semantic(r.status)
      /\ T.verified = (r.status = "Performed") /\ T.fallback = FALSE
      /\ T.after \subseteq {gen'}
  BY <1>1 DEF Tried, NoJob, JobFields, Fits
<1> HIDE DEF T
<1>3. CASE Finish(T)
  <2>1. pc' = "answered" /\ job' = T
    BY <1>3 DEF Finish
  <2>2. T.outcome \in Refusals => ~r.called
    BY <1>2 DEF Fits, execution_outcome_from_semantic, Refusals
  <2>3. T.outcome \in Refusals => T.dispatched = 0
    BY <1>2, <2>2
  <2>4. RefusalsTouchNothing' /\ OneEffect'
    BY <1>2, <2>1, <2>3 DEF RefusalsTouchNothing, OneEffect
  <2>5. GenerationHolds'
    BY <1>2, <2>1 DEF GenerationHolds
  <2>6. BeforeAttempt' /\ Preparing' /\ InPixels' /\ AnsweredFallback'
    BY <1>2, <2>1 DEF BeforeAttempt, Preparing, InPixels, AnsweredFallback
  <2> QED BY <1>2, <2>1, <2>4, <2>5, <2>6 DEF JobInv
<1>4. CASE semantic_failure_can_fallback(r.status) /\ Finish([T EXCEPT !.outcome = "FallbackDenied"])
  <2>1. pc' = "answered" /\ job' = [T EXCEPT !.outcome = "FallbackDenied"]
    BY <1>4 DEF Finish
  <2>2. ~r.called /\ r.status # "Performed"
    BY <1>4 DEF Fits, semantic_failure_can_fallback
  <2>3. /\ DOMAIN job' = JobFields /\ job'.dispatched = 0 /\ ~job'.called /\ ~job'.verified
        /\ ~job'.fallback /\ job'.after \subseteq {gen'}
    <3>1. T.dispatched = 0 /\ ~T.called /\ ~T.verified
      BY <1>2, <2>2
    <3> QED BY <1>2, <2>1, <3>1 DEF JobFields
  <2>4. BeforeAttempt' /\ Preparing' /\ InPixels' /\ AnsweredFallback'
    BY <2>1, <2>3 DEF BeforeAttempt, Preparing, InPixels, AnsweredFallback
  <2> QED BY <2>1, <2>3, <2>4 DEF JobInv, RefusalsTouchNothing, OneEffect, GenerationHolds
<1>5. CASE /\ r.status = "Err" \/ semantic_failure_can_fallback(r.status)
           /\ req.strategy # "SemanticOnly" /\ req.policy = "Allow"
           /\ action_allows_pixel_fallback(req.kind)
           /\ pc' = "prepare" /\ job' = T
  <2>1. ~r.called /\ r.status # "Performed"
    BY <1>5 DEF Fits, semantic_failure_can_fallback
  <2>2. /\ DOMAIN job' = JobFields /\ job'.dispatched = 0 /\ ~job'.called /\ ~job'.verified
        /\ ~job'.fallback /\ job'.after \subseteq {gen'}
    BY <1>2, <1>5, <2>1
  <2>3. req.strategy' # "SemanticOnly" /\ req.policy' = "Allow" /\ action_allows_pixel_fallback(req.kind)'
    BY <1>5
  <2>4. Preparing'
    BY <2>2, <2>3 DEF Preparing, Admitted
  <2>5. BeforeAttempt' /\ InPixels' /\ AnsweredFallback'
    BY <1>5, <2>2 DEF BeforeAttempt, InPixels, AnsweredFallback
  <2> QED BY <1>5, <2>2, <2>4, <2>5 DEF JobInv, RefusalsTouchNothing, OneEffect, GenerationHolds
<1> QED BY <1>3, <1>4, <1>5, AfterCases DEF T

\* An answer that is given at once, or a return to idle.
LEMMA RestKeeps ==
  ASSUME pc' \in {"idle", "policy", "answered"},
         job' = NoJob \/ (pc' = "answered" /\ \E o \in Outcomes : job' = [NoJob EXCEPT !.outcome = o])
  PROVE  JobInv'
<1>1. /\ DOMAIN job' = JobFields /\ job'.dispatched = 0 /\ ~job'.called /\ ~job'.fallback
      /\ ~job'.verified /\ job'.after = {}
  BY DEF NoJob, JobFields
<1>2. BeforeAttempt' /\ Preparing' /\ InPixels' /\ AnsweredFallback'
  BY <1>1 DEF BeforeAttempt, Preparing, InPixels, AnsweredFallback
<1> QED BY <1>1, <1>2 DEF JobInv, RefusalsTouchNothing, OneEffect, GenerationHolds
\* An answer to a request no pattern was called for.
LEMMA AnswerKeeps ==
  ASSUME pc' = "answered", DOMAIN job' = JobFields, ~job'.called, job'.dispatched \in {0, 1},
         job'.outcome \in Refusals => job'.dispatched = 0 \/ (req'.intent = "pixel" /\ req'.kind = "modified"),
         GenerationHolds',
         req'.intent = "semantic" /\ job'.fallback => Admitted' /\ Aimed'
  PROVE  JobInv'
<1>1. BeforeAttempt' /\ Preparing' /\ InPixels' /\ AnsweredFallback'
  BY DEF BeforeAttempt, Preparing, InPixels, AnsweredFallback
<1> QED BY <1>1 DEF JobInv, RefusalsTouchNothing, OneEffect, GenerationHolds

\* What is known of a request in its preparation.
LEMMA PreparedFacts ==
  ASSUME JobInv, PreparePixel
  PROVE  /\ UNCHANGED <<nonce, gen, window, current, req>> /\ GenerationHolds
         /\ req.intent = "semantic" /\ Admitted /\ Admitted' /\ ~job.called /\ job.dispatched = 0
         /\ ~job.fallback /\ ~job.verified /\ DOMAIN job = JobFields
<1>1. UNCHANGED <<nonce, gen, window, current, req>>
  BY DEF PreparePixel, storeVars
<1>2. Preparing /\ pc = "prepare" /\ DOMAIN job = JobFields /\ GenerationHolds
  BY DEF JobInv, PreparePixel
<1>3. Admitted => Admitted'
  BY <1>1 DEF Admitted
<1> QED BY <1>1, <1>2, <1>3 DEF Preparing

\* The target is found in the current observation, or the request is answered.
LEMMA PrepareKeeps ==
  ASSUME JobInv, PreparePixel
  PROVE  JobInv'
<1>1. CASE /\ Aimable(req.id) /\ pc' = "pixel"
           /\ job' = [job EXCEPT !.aimed = gen, !.window = window, !.from = window,
                                 !.fallback = (job.attempts = 1)]
  <2>1. /\ DOMAIN job' = JobFields /\ ~job'.called /\ job'.dispatched = 0 /\ job'.aimed = gen
        /\ job'.after = job.after /\ job'.missed = job.missed /\ job'.verified = job.verified
    BY <1>1, PreparedFacts DEF JobFields
  <2>2. req.id.nonce = nonce /\ req.id.gen = gen
    BY <1>1 DEF Aimable, Resolves
  <2>3. Aimed'
    BY <2>1, <2>2, PreparedFacts DEF Aimed
  <2>4. BeforeAttempt' /\ Preparing' /\ InPixels' /\ AnsweredFallback'
    BY <1>1, <2>1, <2>3, PreparedFacts DEF BeforeAttempt, Preparing, InPixels, AnsweredFallback
  <2>5. GenerationHolds'
    BY <2>1, PreparedFacts DEF GenerationHolds
  <2> QED BY <1>1, <2>1, <2>4, <2>5 DEF JobInv, RefusalsTouchNothing, OneEffect
<1>2. ASSUME NEW o, Finish([job EXCEPT !.outcome = o]) PROVE JobInv'
  <2>1. /\ pc' = "answered" /\ DOMAIN job' = JobFields /\ ~job'.called /\ job'.dispatched = 0
        /\ ~job'.fallback /\ ~job'.verified /\ job'.after = job.after /\ job'.missed = job.missed
    BY <1>2, PreparedFacts DEF Finish, JobFields
  <2>2. GenerationHolds'
    BY <2>1, PreparedFacts DEF GenerationHolds
  <2> QED BY <2>1, <2>2, AnswerKeeps
<1> QED BY <1>1, <1>2 DEF PreparePixel

\* What is known before the pixel action, and while its effect is looked for.
LEMMA PixelFacts ==
  ASSUME JobInv, pc \in {"pixel", "verify"}, UNCHANGED <<nonce, req>>
  PROVE  /\ DOMAIN job = JobFields /\ ~job.called
         /\ job.dispatched = (IF pc = "pixel" THEN 0 ELSE 1) /\ (pc = "verify" => ~job.verified)
         /\ req.intent = "semantic" => Admitted' /\ (job'.aimed = job.aimed => Aimed')
<1>1. InPixels /\ DOMAIN job = JobFields
  BY DEF JobInv
<1>2. Admitted => Admitted'
  BY DEF Admitted
<1>3. Aimed /\ job'.aimed = job.aimed => Aimed'
  BY DEF Aimed
<1> QED BY <1>1, <1>2, <1>3 DEF InPixels

\* The pixel action is refused, before any input.
LEMMA RefusedKeeps ==
  ASSUME JobInv, PixelRefused
  PROVE  JobInv'
<1>1. UNCHANGED <<nonce, gen, req>> /\ pc = "pixel"
  BY DEF PixelRefused, storeVars
<1>2. PICK o : Finish([job EXCEPT !.outcome = o, !.attempts = @ + 1, !.verified = FALSE, !.after = {}])
  BY DEF PixelRefused
<1>3. /\ pc' = "answered" /\ DOMAIN job' = JobFields /\ job'.called = job.called
      /\ job'.dispatched = job.dispatched /\ job'.after = {} /\ job'.aimed = job.aimed
  BY <1>1, <1>2, PixelFacts DEF Finish, JobFields
<1>4. GenerationHolds'
  BY <1>3 DEF GenerationHolds
<1> QED BY <1>1, <1>3, <1>4, PixelFacts, AnswerKeeps

\* Part of the input went out.
LEMMA PartialKeeps ==
  ASSUME JobInv, PixelPartial
  PROVE  JobInv'
<1>1. UNCHANGED <<nonce, gen, req>> /\ pc = "pixel"
  BY DEF PixelPartial, storeVars
<1>2. PICK o \in PartOutcomes(PixelKind) :
        Finish([job EXCEPT !.outcome = o, !.attempts = @ + 1, !.after = {},
                           !.verified = FALSE, !.dispatched = @ + 1])
  BY DEF PixelPartial
<1>3. /\ pc' = "answered" /\ DOMAIN job' = JobFields /\ job'.called = job.called /\ job'.outcome = o
      /\ job'.dispatched = job.dispatched + 1 /\ job'.after = {} /\ job'.aimed = job.aimed
  BY <1>1, <1>2, PixelFacts DEF Finish, JobFields
<1>4. o \in Refusals => req.intent = "pixel" /\ req.kind = "modified"
  BY <1>2 DEF PartOutcomes, PixelKind, TextFor, Refusals
<1>5. GenerationHolds'
  BY <1>3 DEF GenerationHolds
<1> QED BY <1>1, <1>3, <1>4, <1>5, PixelFacts, AnswerKeeps

\* All of it did.
LEMMA SentKeeps ==
  ASSUME JobInv, PixelSent
  PROVE  JobInv'
<1> DEFINE sent == [job EXCEPT !.dispatched = @ + 1, !.attempts = @ + 1, !.after = {},
                               !.verified = FALSE]
<1>1. UNCHANGED <<nonce, gen, req>> /\ pc = "pixel"
  BY DEF PixelSent, storeVars
<1>2. /\ DOMAIN sent = JobFields /\ sent.called = job.called /\ sent.dispatched = 1
      /\ sent.verified = FALSE /\ sent.aimed = job.aimed /\ sent.after = {}
  BY <1>1, PixelFacts DEF JobFields
<1> HIDE DEF sent
<1>3. ASSUME NEW o \in {"Performed", "VerificationFailed", "OutcomeUnknown"}, pc' = "answered",
             DOMAIN job' = JobFields, job'.called = job.called, job'.outcome = o,
             job'.dispatched = 1, job'.after = {}, job'.aimed = job.aimed
      PROVE  JobInv'
  <2>1. o \notin Refusals
    BY <1>3 DEF Refusals
  <2>2. GenerationHolds'
    BY <1>3 DEF GenerationHolds
  <2> QED BY <1>1, <1>3, <2>1, <2>2, PixelFacts, AnswerKeeps
<1>4. ASSUME NEW o \in {"Performed", "VerificationFailed", "OutcomeUnknown"}, Finish([sent EXCEPT !.outcome = o])
      PROVE  JobInv'
  <2>1. /\ pc' = "answered" /\ DOMAIN job' = JobFields /\ job'.called = job.called /\ job'.outcome = o
        /\ job'.dispatched = 1 /\ job'.after = {} /\ job'.aimed = job.aimed
    BY <1>2, <1>4 DEF Finish, JobFields
  <2> QED BY <1>3, <2>1
<1>5. ASSUME NEW o \in {"Performed", "VerificationFailed", "OutcomeUnknown"},
             Finish([sent EXCEPT !.outcome = o, !.verified = (o = "Performed")])
      PROVE  JobInv'
  <2>1. /\ pc' = "answered" /\ DOMAIN job' = JobFields /\ job'.called = job.called /\ job'.outcome = o
        /\ job'.dispatched = 1 /\ job'.after = {} /\ job'.aimed = job.aimed
    BY <1>2, <1>5 DEF Finish, JobFields
  <2> QED BY <1>3, <2>1
<1>6. ASSUME pc' = "verify", job' = sent PROVE JobInv'
  <2>1. InPixels'
    BY <1>1, <1>2, <1>6, PixelFacts DEF InPixels
  <2>2. AnsweredFallback'
    BY <1>1, <1>2, <1>6, PixelFacts DEF AnsweredFallback
  <2>3. BeforeAttempt' /\ Preparing'
    BY <1>6 DEF BeforeAttempt, Preparing
  <2> QED BY <1>2, <1>6, <2>1, <2>2, <2>3 DEF JobInv, RefusalsTouchNothing, OneEffect, GenerationHolds
<1>7. \/ \E o \in {"Performed", "VerificationFailed", "OutcomeUnknown"} :
           \/ Finish([sent EXCEPT !.outcome = o])
           \/ Finish([sent EXCEPT !.outcome = o, !.verified = (o = "Performed")])
      \/ pc' = "verify" /\ job' = sent
  BY DEF PixelSent, sent
<1> QED BY <1>4, <1>5, <1>6, <1>7

\* The window is observed again: the generation told is that of the observation,
\* or the store is left without elements.
LEMMA LookKeeps ==
  ASSUME JobInv, Look
  PROVE  JobInv'
<1>1. UNCHANGED <<nonce, req>> /\ pc = "verify"
  BY DEF Look
<1>2. ASSUME pc' = "verify", DOMAIN job' = JobFields, job'.called = job.called,
             job'.dispatched = job.dispatched, job'.verified = job.verified,
             job'.aimed = job.aimed, GenerationHolds'
      PROVE  JobInv'
  <2>1. InPixels' /\ AnsweredFallback'
    BY <1>1, <1>2, PixelFacts DEF InPixels, AnsweredFallback
  <2>2. BeforeAttempt' /\ Preparing'
    BY <1>2 DEF BeforeAttempt, Preparing
  <2>3. job'.dispatched = 1
    BY <1>1, <1>2, PixelFacts
  <2> QED BY <1>2, <2>1, <2>2, <2>3 DEF JobInv, RefusalsTouchNothing, OneEffect
<1>3. CASE Finish([job EXCEPT !.looks = @ + 1, !.after = {gen'}, !.verified = TRUE,
                              !.outcome = "Performed"])
  <2>1. /\ pc' = "answered" /\ DOMAIN job' = JobFields /\ job'.called = job.called
        /\ job'.outcome = "Performed" /\ job'.dispatched = job.dispatched
        /\ job'.after = {gen'} /\ job'.aimed = job.aimed
    BY <1>1, <1>3, PixelFacts DEF Finish, JobFields
  <2>2. "Performed" \notin Refusals
    BY DEF Refusals
  <2>3. GenerationHolds'
    BY <2>1 DEF GenerationHolds
  <2> QED BY <1>1, <2>1, <2>2, <2>3, PixelFacts, AnswerKeeps
<1>4. ASSUME NEW x, pc' = pc,
             job' = [job EXCEPT !.looks = @ + 1, !.after = {gen'}, !.seen = x, !.missed = FALSE]
      PROVE  JobInv'
  <2>1. /\ DOMAIN job' = JobFields /\ job'.called = job.called /\ job'.dispatched = job.dispatched
        /\ job'.verified = job.verified /\ job'.aimed = job.aimed /\ job'.after = {gen'}
    BY <1>1, <1>4, PixelFacts DEF JobFields
  <2>2. GenerationHolds'
    BY <2>1 DEF GenerationHolds
  <2> QED BY <1>1, <1>2, <1>4, <2>1, <2>2
<1>5. CASE ObserveErr /\ pc' = pc /\ job' = [job EXCEPT !.looks = @ + 1, !.missed = TRUE]
  <2>1. /\ DOMAIN job' = JobFields /\ job'.called = job.called /\ job'.dispatched = job.dispatched
        /\ job'.verified = job.verified /\ job'.aimed = job.aimed /\ job'.missed
    BY <1>1, <1>5, PixelFacts DEF JobFields
  <2>2. ~job'.verified /\ current' = <<>>
    BY <1>1, <1>5, <2>1, PixelFacts DEF ObserveErr, invalidate
  <2>3. GenerationHolds'
    BY <2>1, <2>2 DEF GenerationHolds
  <2> QED BY <1>1, <1>2, <1>5, <2>1, <2>3
<1> QED BY <1>3, <1>4, <1>5 DEF Look

\* No observation proved anything: what was seen decides.
LEMMA LooksDoneKeeps ==
  ASSUME JobInv, LooksDone
  PROVE  JobInv'
<1>1. UNCHANGED <<nonce, gen, current, req>> /\ pc = "verify"
  BY DEF LooksDone, storeVars
<1>2. PICK o \in {"Performed", "VerificationFailed", "OutcomeUnknown"} : Finish([job EXCEPT !.outcome = o])
  BY DEF LooksDone
<1>3. /\ pc' = "answered" /\ DOMAIN job' = JobFields /\ job'.called = job.called /\ job'.outcome = o
      /\ job'.dispatched = job.dispatched /\ job'.verified = job.verified /\ job'.aimed = job.aimed
      /\ job'.after = job.after /\ job'.missed = job.missed
  BY <1>1, <1>2, PixelFacts DEF Finish, JobFields
<1>4. o \notin Refusals
  BY DEF Refusals
<1>5. GenerationHolds'
  BY <1>1, <1>3 DEF JobInv, GenerationHolds
<1> QED BY <1>1, <1>3, <1>4, <1>5, PixelFacts, AnswerKeeps

\* The policy decides: refused, straight to the pixels, or an attempt through
\* UI Automation first.
LEMMA PolicyKeeps ==
  ASSUME ElementInv, JobInv, PixelPolicy \/ SemanticPolicy \/ ExplicitPixel
  PROVE  JobInv'
<1>1. pc = "policy" /\ UNCHANGED req
  BY DEF PixelPolicy, SemanticPolicy, ExplicitPixel
<1>2. job = NoJob
  BY <1>1 DEF JobInv, BeforeAttempt
<1>3. CASE PixelPolicy
  <2>1. CASE Finish([job EXCEPT !.outcome = "InvalidRequest"])
    <3>1. "InvalidRequest" \in Outcomes
      BY DEF Outcomes, Refusals
    <3> QED BY <1>2, <2>1, <3>1, RestKeeps DEF Finish
  <2>2. CASE /\ pc' = "pixel"
             /\ job' = [job EXCEPT !.aimed = gen, !.window = req.target, !.from = window]
    <3>1. /\ DOMAIN job' = JobFields /\ ~job'.called /\ job'.dispatched = 0 /\ job'.after = {}
      BY <1>2, <2>2 DEF NoJob, JobFields
    <3>2. req'.intent = "pixel"
      BY <1>1, <1>3 DEF PixelPolicy
    <3>3. BeforeAttempt' /\ Preparing' /\ InPixels' /\ AnsweredFallback'
      BY <2>2, <3>1, <3>2 DEF BeforeAttempt, Preparing, InPixels, AnsweredFallback
    <3> QED BY <2>2, <3>1, <3>3 DEF JobInv, RefusalsTouchNothing, OneEffect, GenerationHolds
  <2> QED BY <1>3, <2>1, <2>2 DEF PixelPolicy
<1>4. CASE SemanticPolicy
  <2>1. Fits(result')
    <3>1. Answered("Unsupported", FALSE, {}) => Fits(result')
      BY DEF Answered, Fits
    <3>2. action(req.kind, req.id) => Fits(result')
      BY ActionFits DEF Effect
    <3> QED BY <1>4, <3>1, <3>2 DEF SemanticPolicy
  <2>2. req.intent = "semantic" /\ AfterSemantic(result')
    BY <1>4 DEF SemanticPolicy
  <2> QED BY <1>1, <2>1, <2>2, AfterKeeps
<1>5. CASE ExplicitPixel
  <2>1. pc' = "prepare" /\ job' = NoJob /\ req'.intent = "semantic" /\ req'.strategy = "Pixel"
    BY <1>1, <1>2, <1>5 DEF ExplicitPixel
  <2>2. /\ DOMAIN job' = JobFields /\ ~job'.called /\ job'.dispatched = 0 /\ ~job'.verified
        /\ ~job'.fallback /\ job'.after = {}
    BY <2>1 DEF NoJob, JobFields
  <2>3. Preparing'
    BY <2>1, <2>2 DEF Preparing, Admitted
  <2>4. BeforeAttempt' /\ InPixels' /\ AnsweredFallback'
    BY <2>1, <2>2 DEF BeforeAttempt, InPixels, AnsweredFallback
  <2> QED BY <2>1, <2>2, <2>3, <2>4 DEF JobInv, RefusalsTouchNothing, OneEffect, GenerationHolds
<1> QED BY <1>3, <1>4, <1>5

\* The steps between requests, a new request, and a step that changes nothing.
LEMMA IdleKeeps ==
  ASSUME JobInv,
         \/ Alone(observe) \/ Alone(capability_probe) \/ Alone(close_session)
         \/ semantic_action \/ Begin \/ Return
  PROVE  JobInv'
<1>1. CASE Alone(observe) \/ Alone(capability_probe) \/ Alone(close_session) \/ semantic_action
  <2>1. pc = "idle" /\ job' = job /\ pc' \in {"idle", "answered"}
    BY <1>1 DEF Alone, semantic_action
  <2>2. job = NoJob
    BY <2>1 DEF JobInv, BeforeAttempt
  <2> QED BY <2>1, <2>2, RestKeeps
<1>2. CASE Begin
  <2>1. "Security" \in Outcomes /\ "Err" \in Outcomes
    BY DEF Outcomes, Refusals
  <2>2. \/ pc' = "policy" /\ job' = NoJob
        \/ Finish([NoJob EXCEPT !.outcome = "Security"])
        \/ Finish([NoJob EXCEPT !.outcome = "Err"])
    BY <1>2 DEF Begin
  <2> QED BY <2>1, <2>2, RestKeeps DEF Finish
<1>3. CASE Return
  BY <1>3, RestKeeps DEF Return
<1> QED BY <1>1, <1>2, <1>3

\* Nothing changes.
LEMMA JobSame ==
  ASSUME JobInv, UNCHANGED vars
  PROVE  JobInv'
<1>1. UNCHANGED <<pc, req, job, gen, nonce, current>>
  BY DEF vars, storeVars
<1>2. BeforeAttempt' /\ Preparing' /\ InPixels' /\ AnsweredFallback'
  BY <1>1 DEF JobInv, BeforeAttempt, Preparing, InPixels, AnsweredFallback, Admitted, Aimed
<1> QED BY <1>1, <1>2 DEF JobInv, RefusalsTouchNothing, OneEffect, GenerationHolds

\* Every step keeps the store in order.
LEMMA StoreStep ==
  ASSUME ElementInv, [Next]_vars
  PROVE  ElementInv'
<1>1. CASE Alone(observe) \/ Alone(capability_probe) \/ Alone(close_session)
  BY <1>1, ObserveKeeps, ProbeKeeps, NextSessionKeeps DEF Alone
<1>2. CASE semantic_action
  BY <1>2, ActionFits, EffectKeeps DEF semantic_action
<1>3. CASE SemanticPolicy
  BY <1>3, ActionFits, EffectKeeps, StoreSame DEF SemanticPolicy
<1>4. CASE Look
  <2>1. Renewed
    <3>1. gen' = gen + 1 /\ UNCHANGED <<nonce, cache>>
      BY <1>4 DEF Look, ObserveOk, replace_snapshot, ObserveErr, invalidate
    <3> QED BY <3>1 DEF Renewed, ElementInv
  <2> QED BY <1>4, <2>1, RenewKeeps DEF Look
<1>5. CASE \/ Begin \/ PixelPolicy \/ ExplicitPixel \/ PreparePixel \/ PixelRefused
           \/ PixelPartial \/ PixelSent \/ LooksDone \/ Return \/ UNCHANGED vars
  <2>1. UNCHANGED storeVars
    BY <1>5 DEF Begin, PixelPolicy, ExplicitPixel, PreparePixel, PixelRefused, PixelPartial,
                PixelSent, LooksDone, Return, vars
  <2> QED BY <2>1, StoreSame
<1> QED BY <1>1, <1>2, <1>3, <1>4, <1>5 DEF Next

\* And every step of a request goes by the rules of one effect.
LEMMA JobStep ==
  ASSUME ElementInv, JobInv, [Next]_vars
  PROVE  JobInv'
BY IdleKeeps, PolicyKeeps, PrepareKeeps, RefusedKeeps, PartialKeeps, SentKeeps, LookKeeps,
   LooksDoneKeeps, JobSame DEF Next

\* The inductive invariant of the store and of the request holds in every
\* state execute_policy, the observations and the probes can reach.
THEOREM ExecutionInvariance == Spec => [](ElementInv /\ JobInv)
<1>1. Init => ElementInv /\ JobInv
  <2> SUFFICES ASSUME Init PROVE ElementInv /\ JobInv
    OBVIOUS
  <2>1. ElementInv
    BY DEF Init, StoreInit, ElementInv, HeldBehind, CacheBehind, ReferenceHolds, SpentIsDead,
           CachedIsCurrent, Fresh
  <2>2. DOMAIN job = JobFields /\ job.dispatched = 0 /\ ~job.called /\ ~job.fallback /\ pc = "idle"
        /\ job.after = {}
    BY DEF Init, NoJob, JobFields
  <2>3. BeforeAttempt
    BY DEF Init, BeforeAttempt
  <2>4. Preparing /\ InPixels /\ AnsweredFallback
    BY <2>2 DEF Preparing, InPixels, AnsweredFallback
  <2>5. RefusalsTouchNothing /\ OneEffect /\ GenerationHolds
    BY <2>2 DEF RefusalsTouchNothing, OneEffect, GenerationHolds
  <2> QED BY <2>1, <2>2, <2>3, <2>4, <2>5 DEF JobInv
<1>2. (ElementInv /\ JobInv) /\ [Next]_vars => (ElementInv /\ JobInv)'
  BY StoreStep, JobStep
<1> QED BY <1>1, <1>2, PTL DEF Spec

\* A reference never resolves to another control or window than it was given
\* for, through observations, actions, failed refreshes and new sessions.
THEOREM ReferencesHold == Spec => []ReferenceHolds
<1>1. ElementInv /\ JobInv => ReferenceHolds
  BY DEF ElementInv
<1> QED BY <1>1, ExecutionInvariance, PTL

\* No reference given before an action was sent resolves after it.
THEOREM SpentStayDead == Spec => []SpentIsDead
<1>1. ElementInv /\ JobInv => SpentIsDead
  BY DEF ElementInv
<1> QED BY <1>1, ExecutionInvariance, PTL

\* A probe's profile that is still used says what the current elements say.
THEOREM CacheIsCurrent == Spec => []CachedIsCurrent
<1>1. ElementInv /\ JobInv => CachedIsCurrent
  BY DEF ElementInv
<1> QED BY <1>1, ExecutionInvariance, PTL

\* One request has one effect at most: never a pattern call and pixels.
THEOREM OneEffectOnly == Spec => []OneEffect
<1>1. ElementInv /\ JobInv => OneEffect
  BY DEF JobInv
<1> QED BY <1>1, ExecutionInvariance, PTL

\* A refusal touched nothing, with the exception of modified pointer input.
THEOREM RefusalsHarmless == Spec => []RefusalsTouchNothing
<1>1. ElementInv /\ JobInv => RefusalsTouchNothing
  BY DEF JobInv
<1> QED BY <1>1, ExecutionInvariance, PTL

\* Pixels replace an element action only where the caller's policy admits it,
\* at the element of the current generation it named.
THEOREM FallbackAdmitted == Spec => []FallbackIsAdmitted
<1>1. ElementInv /\ JobInv => FallbackIsAdmitted
  BY DEF JobInv, InPixels, AnsweredFallback, FallbackIsAdmitted, Admitted, Aimed
<1> QED BY <1>1, ExecutionInvariance, PTL

\* The generation an answer names is the one the store is in, unless the last
\* look of a verification failed; then the answer does not claim a proof, and no
\* element resolves.
THEOREM GenerationReported == Spec => []ReportedGenerationIsCurrent
<1>1. ElementInv /\ JobInv => ReportedGenerationIsCurrent
  BY DEF JobInv, ReportedGenerationIsCurrent
<1> QED BY <1>1, ExecutionInvariance, PTL

-----------------------------------------------------------------------------
(* execute_policy of the macOS backend.                                    *)

MacJobFields == {"outcome", "status", "sent", "binding", "pixels", "live"}

\* What Accessibility answers when pixels may not stand in for the action.
Final == {"Performed", "VerificationFailed", "Disabled", "ReadOnly", "InvalidValue",
          "StaleElement", "UnknownElement"}

\* The caller admits pixels for its element action.
PixelsAdmitted ==
  mreq.strategy # "SemanticOnly" /\ (mreq.strategy = "PreferSemantic" => mreq.policy = "Allow")

\* Before its attempts a semantic request has sent nothing, and it is known
\* whether its element resolves.
MacBefore ==
  mpc = "policy" /\ mreq.intent = "semantic" =>
    mjob.sent = 0 /\ ~mjob.pixels /\ (mjob.live = Resolves(mreq.id))

\* The routes of pixels are reached only with a live element.
MacRoutes ==
  mpc \in {"background", "takeover"} /\ mreq.intent = "semantic" =>
    mjob.live /\ PixelsAdmitted /\ mjob.status \notin Final

MacInv ==
  /\ DOMAIN mjob = MacJobFields
  /\ IF mpc = "idle" THEN mreq.intent = "none" ELSE mreq.mode \in Modes
  /\ MacBefore /\ MacRoutes /\ SendsAreAdmitted

\* Nothing of the request changes.
LEMMA MacQuiet ==
  ASSUME MacInv, UNCHANGED <<mpc, mreq, mjob>>, mpc = "idle" \/ UNCHANGED storeVars
  PROVE  MacInv'
<1>1. MacBefore'
  BY DEF MacInv, MacBefore, Resolves, storeVars
<1> QED BY <1>1 DEF MacInv, MacRoutes, PixelsAdmitted, SendsAreAdmitted

\* A request that is answered.
LEMMA MacAnswered ==
  ASSUME mpc' = "answered", mreq'.mode \in Modes, DOMAIN mjob' = MacJobFields, SendsAreAdmitted'
  PROVE  MacInv'
BY DEF MacInv, MacBefore, MacRoutes

\* A request that goes on to its pixels.
LEMMA MacRouted ==
  ASSUME mpc' \in {"background", "takeover"}, mreq'.mode \in Modes, DOMAIN mjob' = MacJobFields, MacRoutes'
  PROVE  MacInv'
BY DEF MacInv, MacBefore, MacRoutes, PixelsAdmitted, SendsAreAdmitted, Final

\* Accessibility sends nothing for an element that does not resolve.
LEMMA NothingForTheDead ==
  ASSUME NEW k, NEW id, NEW status, NEW sent, semantic_action_ax(k, id, status, sent), ~Resolves(id)
  PROVE  sent = 0
BY DEF semantic_action_ax, Dispatches

\* The attempt through Accessibility.
LEMMA MacSemanticKeeps ==
  ASSUME MacInv, MacSemantic
  PROVE  MacInv'
<1>1. /\ mpc = "policy" /\ mreq.intent = "semantic" /\ mreq.strategy # "Pixel" /\ UNCHANGED mreq
      /\ mreq.mode \in Modes
  BY DEF MacSemantic, MacInv
<1>2. DOMAIN mjob = MacJobFields /\ mjob.sent = 0 /\ ~mjob.pixels /\ mjob.live = Resolves(mreq.id)
  BY <1>1 DEF MacInv, MacBefore
<1>3. PICK status \in Statuses, sent \in 0..1, bounds \in BOOLEAN :
        LET after == [mjob EXCEPT !.status = status, !.outcome = status, !.sent = sent,
                        !.binding = FallbackAllowed(bounds)]
        IN /\ semantic_action_ax(mreq.kind, mreq.id, status, sent)
           /\ IF FallbackAllowed(bounds) /\ (status = "Err" \/ semantic_status_allows_takeover(status))
              THEN mpc' = mreq.mode /\ mjob' = after
              ELSE MacFinish(after)
  BY DEF MacSemantic
<1>4. /\ DOMAIN mjob' = MacJobFields /\ mjob'.sent = sent /\ mjob'.status = status
      /\ mjob'.live = mjob.live /\ ~mjob'.pixels
  BY <1>2, <1>3 DEF MacFinish, MacJobFields
<1>5. CASE mpc' = "answered"
  <2>1. ~mjob'.live => mjob'.sent = 0
    BY <1>2, <1>3, <1>4, NothingForTheDead
  <2> QED BY <1>1, <1>4, <1>5, <2>1, MacAnswered DEF SendsAreAdmitted
<1>6. CASE /\ FallbackAllowed(bounds) /\ mpc' = mreq.mode
           /\ status = "Err" \/ semantic_status_allows_takeover(status)
  <2>1. Resolves(mreq.id) /\ PixelsAdmitted
    BY <1>1, <1>6 DEF FallbackAllowed, semantic_pixel_fallback, PixelsAdmitted
  <2>2. PixelsAdmitted'
    BY <1>1, <2>1 DEF PixelsAdmitted
  <2>3. status \notin Final
    BY <1>6 DEF semantic_status_allows_takeover, Final
  <2>4. MacRoutes'
    BY <1>1, <1>2, <1>4, <2>1, <2>2, <2>3 DEF MacRoutes
  <2> QED BY <1>1, <1>4, <1>6, <2>4, MacRouted DEF Modes
<1> QED BY <1>3, <1>5, <1>6 DEF MacFinish

\* A pixel strategy, which skips Accessibility.
LEMMA MacExplicitKeeps ==
  ASSUME MacInv, MacExplicitPixel
  PROVE  MacInv'
<1>1. /\ mpc = "policy" /\ mreq.intent = "semantic" /\ mreq.strategy = "Pixel" /\ UNCHANGED mreq
      /\ mreq.mode \in Modes
  BY DEF MacExplicitPixel, MacInv
<1>2. DOMAIN mjob = MacJobFields /\ mjob.sent = 0 /\ ~mjob.pixels /\ mjob.live = Resolves(mreq.id)
  BY <1>1 DEF MacInv, MacBefore
<1>3. PICK bounds \in BOOLEAN :
        LET after == [mjob EXCEPT !.status = "Unsupported", !.outcome = "Unsupported",
                                  !.binding = FallbackAllowed(bounds)]
        IN IF FallbackAllowed(bounds) THEN mpc' = mreq.mode /\ mjob' = after ELSE MacFinish(after)
  BY DEF MacExplicitPixel
<1>4. /\ DOMAIN mjob' = MacJobFields /\ mjob'.sent = 0 /\ mjob'.status = "Unsupported"
      /\ mjob'.live = mjob.live /\ ~mjob'.pixels
  BY <1>2, <1>3 DEF MacFinish, MacJobFields
<1>5. CASE mpc' = "answered"
  BY <1>1, <1>4, <1>5, MacAnswered DEF SendsAreAdmitted
<1>6. CASE FallbackAllowed(bounds) /\ mpc' = mreq.mode
  <2>1. Resolves(mreq.id)
    BY <1>6 DEF FallbackAllowed, semantic_pixel_fallback
  <2>2. MacRoutes'
    BY <1>1, <1>2, <1>4, <2>1 DEF MacRoutes, PixelsAdmitted, Final
  <2> QED BY <1>1, <1>4, <1>6, <2>2, MacRouted DEF Modes
<1> QED BY <1>3, <1>5, <1>6 DEF MacFinish

\* A pixel intent makes no promise about an element.
LEMMA MacPixelKeeps ==
  ASSUME MacInv, MacPixelPolicy
  PROVE  MacInv'
<1>1. mreq.intent = "pixel" /\ mreq.mode \in Modes /\ UNCHANGED mreq /\ DOMAIN mjob = MacJobFields
  BY DEF MacPixelPolicy, MacInv
<1>2. mpc' \in {"answered", "background", "takeover"}
  BY <1>1 DEF MacPixelPolicy, RejectPixel, TargetMissing, RoutePixel, MacFinish, Modes
<1>3. DOMAIN mjob' = MacJobFields
  BY <1>1 DEF MacPixelPolicy, RejectPixel, TargetMissing, RoutePixel, MacFinish
<1> QED BY <1>1, <1>2, <1>3 DEF MacInv, MacBefore, MacRoutes, SendsAreAdmitted

\* The routes of pixels keep what let the request in.
LEMMA MacRoutesKeep ==
  ASSUME MacInv, Background \/ Takeover
  PROVE  MacInv'
<1>1. /\ mpc \in {"background", "takeover"} /\ mreq.mode \in Modes /\ UNCHANGED mreq
      /\ DOMAIN mjob = MacJobFields
  BY DEF Background, Takeover, MacInv
<1>2. PICK a : mjob' = Afterwards(a) /\ mpc' \in {"answered", "takeover"}
  BY DEF Background, Takeover, MacFinish
<1>3. DOMAIN mjob' = MacJobFields /\ mjob'.live = mjob.live /\ mjob'.status = mjob.status
  BY <1>1, <1>2 DEF Afterwards, MacJobFields
<1>4. MacRoutes'
  BY <1>1, <1>3 DEF MacInv, MacRoutes, PixelsAdmitted
<1>5. SendsAreAdmitted'
  BY <1>1, <1>3 DEF MacInv, MacRoutes, PixelsAdmitted, SendsAreAdmitted, Final
<1> QED BY <1>1, <1>2, <1>3, <1>4, <1>5, MacAnswered, MacRouted

\* A request comes in, or its answer goes out.
LEMMA MacEndsKeep ==
  ASSUME MacInv, MacBegin \/ MacReturn
  PROVE  MacInv'
<1>1. CASE MacReturn
  <2>1. mpc' = "idle" /\ mreq'.intent = "none" /\ DOMAIN mjob' = MacJobFields
    BY <1>1 DEF MacReturn, NoMacRequest, NoMacJob, MacJobFields
  <2> QED BY <2>1 DEF MacInv, MacBefore, MacRoutes, SendsAreAdmitted
<1>2. CASE MacBegin
  <2>1. mpc' = "policy" /\ UNCHANGED storeVars
    BY <1>2 DEF MacBegin
  <2>2. ASSUME NEW k, NEW s, NEW p, NEW m \in Modes, NEW n,
               mreq' = [intent |-> "semantic", kind |-> k, strategy |-> s, policy |-> p, mode |-> m, id |-> n],
               mjob' = [NoMacJob EXCEPT !.live = Resolves(n)]
        PROVE  MacInv'
    <3>1. /\ DOMAIN mjob' = MacJobFields /\ mjob'.sent = 0 /\ ~mjob'.pixels
          /\ mjob'.live = Resolves(n) /\ mreq'.id = n /\ mreq'.mode \in Modes
      BY <2>2 DEF NoMacJob, MacJobFields
    <3>2. Resolves(n)' = Resolves(n)
      BY <2>1 DEF Resolves, storeVars
    <3>3. MacBefore'
      BY <3>1, <3>2 DEF MacBefore, Resolves
    <3> QED BY <2>1, <3>1, <3>3 DEF MacInv, MacRoutes, SendsAreAdmitted
  <2>3. ASSUME NEW k, NEW s, NEW m \in Modes, NEW c, mjob' = NoMacJob,
               mreq' = [intent |-> "pixel", kind |-> k, strategy |-> s, mode |-> m, scope |-> c]
        PROVE  MacInv'
    <3>1. DOMAIN mjob' = MacJobFields /\ mreq'.intent = "pixel" /\ mreq'.mode \in Modes
      BY <2>3 DEF NoMacJob, MacJobFields
    <3> QED BY <2>1, <3>1 DEF MacInv, MacBefore, MacRoutes, SendsAreAdmitted
  <2> QED BY <1>2, <2>2, <2>3 DEF MacBegin
<1> QED BY <1>1, <1>2

\* The invariant of the requests holds in every state.
THEOREM MacInvariance == MacSpec => []MacInv
<1>1. MacInit => MacInv
  BY DEF MacInit, NoMacRequest, NoMacJob, MacJobFields, MacInv, MacBefore, MacRoutes, SendsAreAdmitted
<1>2. MacInv /\ [MacNext]_macVars => MacInv'
  <2> SUFFICES ASSUME MacInv, [MacNext]_macVars PROVE MacInv'
    OBVIOUS
  <2>1. CASE MacObserve \/ capability_probe_ax \/ MacCloseSession \/ MacSemanticAction \/ UNCHANGED macVars
    <3>1. UNCHANGED <<mpc, mreq, mjob>> /\ (mpc = "idle" \/ UNCHANGED storeVars)
      BY <2>1 DEF MacObserve, capability_probe_ax, MacCloseSession, MacSemanticAction, macVars
    <3> QED BY <3>1, MacQuiet
  <2> QED BY <2>1, MacEndsKeep, MacSemanticKeeps, MacExplicitKeeps, MacPixelKeeps, MacRoutesKeep DEF MacNext
<1> QED BY <1>1, <1>2, PTL DEF MacSpec

\* A request about an element that does not resolve sends nothing, and pixels
\* stand in for an element action only when the caller admits them and the
\* element did not answer for itself.
THEOREM MacSendsAdmitted == MacSpec => []SendsAreAdmitted
<1>1. MacInv => SendsAreAdmitted
  BY DEF MacInv
<1> QED BY <1>1, MacInvariance, PTL

-----------------------------------------------------------------------------
(* The elements of the macOS backend.                                      *)

\* macOS keeps the elements as Windows does, and no profiles of windows.
MacElementInv == ElementInv /\ cache = [w \in Windows |-> {}]

\* An observation whose elements nobody is given.
LEMMA AxObserveKeeps ==
  ASSUME ElementInv, NEW w \in Windows, NEW t \in Trees, semantic_observe_ax(w, t),
         UNCHANGED <<nonce, cache, held>>
  PROVE  ElementInv'
<1>1. CASE UNCHANGED <<gen, current, window>>
  BY <1>1, StoreSame DEF storeVars
<1>2. CASE replace_snapshot(w, t) \/ invalidate(1)
  <2>1. Renewed
    BY <1>2 DEF replace_snapshot, invalidate, Renewed, ElementInv
  <2> QED BY <2>1, RenewKeeps
<1> QED BY <1>1, <1>2 DEF semantic_observe_ax

\* An observation, with its elements given to the caller or not.
LEMMA MacObserveKeeps ==
  ASSUME ElementInv, MacObserve
  PROVE  ElementInv'
<1>1. PICK w \in Windows, t \in Trees :
        /\ semantic_observe_ax(w, t)
        /\ IF gen' # gen /\ current' # <<>> THEN Give(w, t) ELSE held' = held
  BY DEF MacObserve
<1>2. UNCHANGED <<nonce, cache>>
  BY DEF MacObserve
<1>3. CASE held' = held
  BY <1>1, <1>2, <1>3, AxObserveKeeps
<1>4. CASE gen' # gen /\ current' # <<>> /\ Give(w, t)
  <2>1. ObserveOk(w, t)
    BY <1>1, <1>4 DEF semantic_observe_ax, invalidate, ObserveOk
  <2> QED BY <1>2, <1>4, <2>1, GiveKeeps
<1> QED BY <1>1, <1>3, <1>4

\* An action of Accessibility drops the elements or leaves them.
LEMMA AxActionKeeps ==
  ASSUME ElementInv, NEW k, NEW id, NEW status, NEW sent, semantic_action_ax(k, id, status, sent)
  PROVE  ElementInv' /\ UNCHANGED cache
<1>1. UNCHANGED storeVars \/ (invalidate(1) /\ Spend /\ UNCHANGED <<nonce, cache>>)
  BY DEF semantic_action_ax, PathGone, AxDispatched
<1>2. CASE UNCHANGED storeVars
  BY <1>2, StoreSame DEF storeVars
<1>3. CASE invalidate(1) /\ Spend /\ UNCHANGED <<nonce, cache>>
  <2>1. Renewed
    BY <1>3 DEF invalidate, Renewed, ElementInv
  <2> QED BY <1>3, <2>1, RenewKeeps
<1> QED BY <1>1, <1>2, <1>3

\* The next session starts its generations anew, under another nonce.
LEMMA MacCloseKeeps ==
  ASSUME MacElementInv, MacCloseSession
  PROVE  MacElementInv'
<1>1. /\ nonce' = nonce + 1 /\ nonce' \in Nat /\ gen' = 0 /\ held' = held
      /\ cache' = [w \in Windows |-> {}]
  BY DEF MacCloseSession, MacElementInv, ElementInv
<1>2. ASSUME NEW h \in held PROVE ~Resolves(h.id)' /\ NotAhead(h)'
  BY <1>1 DEF MacElementInv, ElementInv, HeldBehind, NotAhead, Resolves
<1>3. CacheBehind' /\ CachedIsCurrent'
  BY <1>1 DEF CacheBehind, CachedIsCurrent, Fresh
<1> QED BY <1>1, <1>2, <1>3 DEF MacElementInv, ElementInv, HeldBehind, ReferenceHolds, SpentIsDead

\* Every step keeps the elements in order.
LEMMA MacElementStep ==
  ASSUME MacElementInv, [MacNext]_macVars
  PROVE  MacElementInv'
<1>1. ElementInv
  BY DEF MacElementInv
<1>2. CASE MacObserve
  <2>1. UNCHANGED cache
    BY <1>2 DEF MacObserve
  <2> QED BY <1>1, <1>2, <2>1, MacObserveKeeps DEF MacElementInv
<1>3. CASE capability_probe_ax
  <2>1. UNCHANGED <<nonce, cache, held>> /\ \E w \in Windows, t \in Trees : semantic_observe_ax(w, t)
    BY <1>3 DEF capability_probe_ax
  <2> QED BY <1>1, <2>1, AxObserveKeeps DEF MacElementInv
<1>4. CASE MacCloseSession
  BY <1>4, MacCloseKeeps
<1>5. CASE MacSemanticAction \/ MacSemantic
  <2>1. \E k, id, status, sent : semantic_action_ax(k, id, status, sent)
    BY <1>5 DEF MacSemanticAction, MacSemantic
  <2> QED BY <1>1, <2>1, AxActionKeeps DEF MacElementInv
<1>6. CASE \/ MacBegin \/ MacExplicitPixel \/ MacPixelPolicy \/ Background \/ Takeover \/ MacReturn
           \/ UNCHANGED macVars
  <2>1. UNCHANGED storeVars
    BY <1>6 DEF MacBegin, MacExplicitPixel, MacPixelPolicy, Background, Takeover, MacReturn, macVars
  <2> QED BY <1>1, <2>1, StoreSame DEF MacElementInv, storeVars
<1> QED BY <1>2, <1>3, <1>4, <1>5, <1>6 DEF MacNext

\* The elements are in order in every state of the macOS backend.
THEOREM MacElements == MacSpec => []MacElementInv
<1>1. MacInit => MacElementInv
  BY DEF MacInit, StoreInit, MacElementInv, ElementInv, HeldBehind, CacheBehind, ReferenceHolds,
         SpentIsDead, CachedIsCurrent, Fresh
<1>2. MacElementInv /\ [MacNext]_macVars => MacElementInv'
  BY MacElementStep
<1> QED BY <1>1, <1>2, PTL DEF MacSpec

\* On macOS too a reference never resolves to another control or window than
\* it was given for, although its probes observe for themselves.
THEOREM MacReferencesHold == MacSpec => []ReferenceHolds
<1>1. MacElementInv => ReferenceHolds
  BY DEF MacElementInv, ElementInv
<1> QED BY <1>1, MacElements, PTL

\* Nor does one given before an action that dropped the elements.
THEOREM MacSpentStayDead == MacSpec => []SpentIsDead
<1>1. MacElementInv => SpentIsDead
  BY DEF MacElementInv, ElementInv
<1> QED BY <1>1, MacElements, PTL

-----------------------------------------------------------------------------
(* The types of the store.                                                 *)

\* The elements, the references and the profiles.
StoreTypes ==
  /\ nonce \in 1..MaxSessions /\ gen \in 0..MaxGen
  /\ current \in Trees \union {<<>>} /\ window \in Windows \union {NoWindow}
  /\ (window = NoWindow) <=> (current = <<>>)
  /\ cache \in [Windows -> SUBSET Entries]
  /\ held \subseteq Held /\ \A g, h \in held : g = h

\* The bounds of the store are numbers, and no window is not a window.
LEMMA StoreBounds ==
  /\ MaxTree \in Nat \ {0} /\ MaxGen \in Nat /\ MaxSessions \in Nat \ {0} /\ 0 \in 0..MaxGen
  /\ 1 \in 1..MaxSessions /\ 1 \in 1..MaxTree /\ NoWindow \notin Windows
BY LimitAssumption, NoWindowAssumption

\* An observation has an element, and each of them has a place.
LEMMA TreeFacts ==
  ASSUME NEW t \in Trees
  PROVE  /\ t # <<>> /\ Len(t) \in 1..MaxTree
         /\ \A i \in 1..Len(t) : t[i] \in Nodes /\ i \in 1..MaxTree
<1>1. PICK n \in 1..MaxTree : t \in [1..n -> Nodes]
  BY DEF Trees
<1>2. t \in Seq(Nodes) /\ Len(t) = n /\ n \in Nat
  BY <1>1, StoreBounds
<1>3. t # <<>>
  BY <1>2, <1>1
<1>4. \A i \in 1..n : i \in 1..MaxTree
  BY StoreBounds
<1> QED BY <1>1, <1>2, <1>3, <1>4

\* What the caller holds stays a reference of its kind when it is spent.
LEMMA SpendTypes ==
  ASSUME held \subseteq Held, \A g, h \in held : g = h, held' = held \/ Spend
  PROVE  held' \subseteq Held /\ \A g, h \in held' : g = h
<1>1. \A h \in held : [h EXCEPT !.spent = TRUE] \in Held
  BY DEF Held
<1> QED BY <1>1 DEF Spend

\* No elements, in a new generation.
LEMMA InvalidateTypes ==
  ASSUME StoreTypes, NEW by \in Nat, invalidate(by), UNCHANGED <<nonce, cache>>, held' = held \/ Spend
  PROVE  StoreTypes'
<1>1. gen' \in 0..MaxGen /\ current' = <<>> /\ window' = NoWindow
  BY StoreBounds DEF invalidate, StoreTypes
<1>2. held' \subseteq Held /\ \A g, h \in held' : g = h
  BY SpendTypes DEF StoreTypes
<1> QED BY <1>1, <1>2 DEF StoreTypes

\* New elements.
LEMMA ReplaceTypes ==
  ASSUME StoreTypes, NEW w \in Windows, NEW t \in Trees, replace_snapshot(w, t), UNCHANGED <<nonce, cache>>,
         held' \subseteq Held /\ \A g, h \in held' : g = h
  PROVE  StoreTypes'
<1>1. gen' \in 0..MaxGen /\ current' = t /\ window' = w
  BY StoreBounds DEF replace_snapshot, StoreTypes
<1>2. t # <<>> /\ w # NoWindow
  BY TreeFacts, StoreBounds
<1> QED BY <1>1, <1>2 DEF StoreTypes

\* An element is given to the caller.
LEMMA GiveTypes ==
  ASSUME StoreTypes, NEW w \in Windows, NEW t \in Trees, Give(w, t), gen' \in 0..MaxGen
  PROVE  held' \subseteq Held /\ \A g, h \in held' : g = h
<1>1. CASE held' = held
  BY <1>1 DEF StoreTypes
<1>2. ASSUME NEW i \in 1..Len(t),
             held' = {[id |-> Id(gen', i), control |-> t[i].control, window |-> w, spent |-> FALSE]}
      PROVE  held' \subseteq Held /\ \A g, h \in held' : g = h
  <2>1. t[i].control \in Controls /\ i \in 1..MaxTree
    BY TreeFacts DEF Nodes
  <2>2. gen' \in 0..MaxGen + 1
    BY StoreBounds
  <2>3. Id(gen', i) \in Ids
    BY <2>1, <2>2 DEF Id, Ids, StoreTypes
  <2> QED BY <1>2, <2>1, <2>3 DEF Held
<1> QED BY <1>1, <1>2 DEF Give

\* The store stays as it is.
LEMMA StoreTypesSame ==
  ASSUME StoreTypes, UNCHANGED storeVars
  PROVE  StoreTypes'
BY DEF StoreTypes, storeVars

\* Between requests.
LEMMA ObserveTypes ==
  ASSUME StoreTypes, observe
  PROVE  StoreTypes'
<1>1. UNCHANGED <<nonce, cache>>
  BY DEF observe
<1>2. ASSUME NEW w \in Windows, NEW t \in Trees, ObserveOk(w, t), Give(w, t) PROVE StoreTypes'
  <2>1. gen' \in 0..MaxGen
    BY <1>2, StoreBounds DEF ObserveOk, replace_snapshot, StoreTypes
  <2> QED BY <1>1, <1>2, <2>1, GiveTypes, ReplaceTypes DEF ObserveOk
<1>3. CASE ObserveErr /\ held' = held
  BY <1>1, <1>3, InvalidateTypes DEF ObserveErr
<1> QED BY <1>2, <1>3 DEF observe

\* A probe remembers a profile of one window.
LEMMA ProbeTypes ==
  ASSUME StoreTypes, capability_probe
  PROVE  StoreTypes'
<1>1. PICK w \in Windows : cache' = [cache EXCEPT ![w] = {}] \/ cache' = [cache EXCEPT ![w] = {Profile(w)}]
  BY DEF capability_probe
<1>2. Assess(w) \in Assessments
  BY DEF Assess, Assessments
<1>3. Profile(w) \in Entries
  BY <1>2 DEF Profile, Entries, StoreTypes
<1>4. cache' \in [Windows -> SUBSET Entries]
  BY <1>1, <1>3 DEF StoreTypes
<1> QED BY <1>4 DEF capability_probe, StoreTypes

\* Another session has the next nonce and no elements.
LEMMA NextSessionTypes ==
  ASSUME StoreTypes, nonce < MaxSessions, nonce' = nonce + 1, gen' = 0, current' = <<>>, window' = NoWindow,
         cache' \in {cache, [w \in Windows |-> {}]}, held' = held
  PROVE  StoreTypes'
<1>1. nonce' \in 1..MaxSessions /\ gen' \in 0..MaxGen
  BY StoreBounds DEF StoreTypes
<1>2. cache' \in [Windows -> SUBSET Entries]
  BY DEF StoreTypes
<1> QED BY <1>1, <1>2 DEF StoreTypes

\* Before the first observation.
LEMMA InitialStore ==
  ASSUME StoreInit
  PROVE  StoreTypes /\ result \in Results
<1>1. NoResult \in Results
  BY StoreBounds DEF NoResult, Results, Statuses
<1>2. cache \in [Windows -> SUBSET Entries]
  BY DEF StoreInit
<1> QED BY <1>1, <1>2, StoreBounds DEF StoreInit, StoreTypes

-----------------------------------------------------------------------------
(* The types of the requests of Windows.                                   *)

\* What an action on an element leaves and returns.
EffectTypes == StoreTypes' /\ result' \in Results

\* An answer is a result when its generations are.
LEMMA AnswerTypes ==
  ASSUME StoreTypes, NEW s \in Statuses, NEW c \in BOOLEAN, NEW a \in SUBSET (0..MaxGen), Answered(s, c, a)
  PROVE  result' \in Results
BY DEF Answered, Results, StoreTypes

\* A refusal.
LEMMA RefuseTypes ==
  ASSUME StoreTypes, NEW s \in Statuses, Refuse(s)
  PROVE  EffectTypes
<1>1. result' \in Results
  BY AnswerTypes DEF Refuse
<1> QED BY <1>1, StoreTypesSame DEF Refuse, EffectTypes

\* A call that leaves no elements, however many refreshes it made.
LEMMA DroppedTypes ==
  ASSUME StoreTypes, NEW by \in Nat, invalidate(by), Spend, UNCHANGED <<nonce, cache>>,
         NEW s \in Statuses, NEW c \in BOOLEAN, Answered(s, c, {gen'})
  PROVE  EffectTypes
<1>1. StoreTypes'
  BY InvalidateTypes
<1>2. {gen'} \in SUBSET (0..MaxGen)
  BY <1>1 DEF StoreTypes
<1> QED BY <1>1, <1>2, AnswerTypes DEF EffectTypes

\* An action that lost the elements answers with the next generation.
LEMMA InvalidatedTypes ==
  ASSUME StoreTypes, NEW s \in Statuses, Invalidated(s)
  PROVE  EffectTypes
BY DroppedTypes DEF Invalidated

\* A call with new elements, of the window of the old ones.
LEMMA RefreshedTypes ==
  ASSUME StoreTypes, NEW id, Resolves(id), NEW s \in Statuses, NEW n \in BOOLEAN, Refreshed(s, id, n)
  PROVE  EffectTypes
<1>1. window \in Windows
  BY DEF StoreTypes, Resolves
<1>2. held' \subseteq Held /\ \A g, h \in held' : g = h
  BY SpendTypes DEF StoreTypes, Refreshed
<1>3. StoreTypes'
  BY <1>1, <1>2, ReplaceTypes DEF Refreshed
<1>4. {gen'} \in SUBSET (0..MaxGen)
  BY <1>3 DEF StoreTypes
<1> QED BY <1>3, <1>4, AnswerTypes DEF Refreshed, EffectTypes

\* Every action of every kind.
LEMMA ActionTypes ==
  ASSUME StoreTypes, NEW k, NEW id, action(k, id)
  PROVE  EffectTypes
<1>1. /\ "Performed" \in Statuses /\ "VerificationFailed" \in Statuses /\ "OutcomeUnknown" \in Statuses
      /\ "FocusDenied" \in Statuses /\ "Unsupported" \in Statuses /\ "ElementUnavailable" \in Statuses
      /\ "Disabled" \in Statuses /\ "ReadOnly" \in Statuses /\ "InvalidValue" \in Statuses
      /\ "WindowNotForeground" \in Statuses /\ "Err" \in Statuses /\ "UnknownElement" \in Statuses
      /\ "StaleElement" \in Statuses
  BY DEF Statuses
<1>2. CASE ActionPrologue(id)
  <2>1. element_status_for_generation(id) \in Statuses
    BY <1>1 DEF element_status_for_generation
  <2> QED BY <1>1, <1>2, <2>1, RefuseTypes DEF ActionPrologue
<1>3. CASE ActionError(id)
  <2>1. Answered("Err", FALSE, {}) /\ UNCHANGED storeVars
    BY <1>3 DEF ActionError
  <2> QED BY <1>1, <2>1, AnswerTypes, StoreTypesSame DEF EffectTypes
<1>4. CASE Resolves(id) /\ Act(k, id)
  <2>1. \/ Focus(id) \/ Invoke(id) \/ SetValue(id) \/ Toggle(id) \/ Select(id)
        \/ SetRangeValue(id) \/ ScrollIntoView(id)
    BY <1>4 DEF Act, ExpandCollapse
  <2>2. CASE Focus(id)
    <3>1. ASSUME Answered("Performed", TRUE, {gen}), UNCHANGED storeVars PROVE EffectTypes
      <4>1. {gen} \in SUBSET (0..MaxGen)
        BY DEF StoreTypes
      <4> QED BY <1>1, <3>1, <4>1, AnswerTypes, StoreTypesSame DEF EffectTypes
    <3> QED BY <1>1, <2>2, <3>1, RefuseTypes, InvalidatedTypes DEF Focus
  <2>3. CASE Invoke(id)
    BY <1>1, <1>4, <2>3, RefuseTypes, InvalidatedTypes, RefreshedTypes DEF Invoke
  <2>4. CASE SetValue(id)
    <3>1. ASSUME ValueWritten(id) PROVE EffectTypes
      BY <1>1, <1>4, <3>1, InvalidatedTypes, RefreshedTypes, DroppedTypes DEF ValueWritten
    <3> QED BY <1>1, <2>4, <3>1, RefuseTypes DEF SetValue
  <2>5. CASE Toggle(id)
    <3>1. ASSUME Toggled(id) PROVE EffectTypes
      BY <1>1, <1>4, <3>1, InvalidatedTypes, RefreshedTypes DEF Toggled
    <3> QED BY <1>1, <2>5, <3>1, RefuseTypes DEF Toggle
  <2>6. CASE Select(id)
    BY <1>1, <1>4, <2>6, RefuseTypes, InvalidatedTypes, RefreshedTypes DEF Select
  <2>7. CASE SetRangeValue(id)
    <3>1. ASSUME RangeWritten(id) PROVE EffectTypes
      BY <1>1, <1>4, <3>1, InvalidatedTypes, RefreshedTypes, DroppedTypes DEF RangeWritten
    <3> QED BY <1>1, <2>7, <3>1, RefuseTypes DEF SetRangeValue
  <2>8. CASE ScrollIntoView(id)
    BY <1>1, <1>4, <2>8, RefuseTypes, InvalidatedTypes, RefreshedTypes DEF ScrollIntoView
  <2> QED BY <2>1, <2>2, <2>3, <2>4, <2>5, <2>6, <2>7, <2>8
<1> QED BY <1>2, <1>3, <1>4 DEF action

\* The references a caller may name.
LEMMA NamedTypes ==
  ASSUME StoreTypes
  PROVE  Named \subseteq Ids /\ MacNamed \subseteq Ids
<1>1. \A h \in held : h.id \in Ids
  BY DEF StoreTypes, Held
<1>2. \A i \in 1..Len(current) : Id(gen, i) \in Ids
  <2> TAKE i \in 1..Len(current)
  <2>1. current \in Trees
    <3>1. Len(<<>>) = 0 /\ 1..0 = {}
      OBVIOUS
    <3> QED BY <3>1 DEF StoreTypes
  <2>2. i \in 1..MaxTree
    BY <2>1, TreeFacts
  <2>3. gen \in 0..MaxGen + 1
    BY StoreBounds DEF StoreTypes
  <2> QED BY <2>2, <2>3 DEF Id, Ids, StoreTypes
<1>3. Id(gen + 1, 1) \in Ids
  <2>1. gen + 1 \in 0..MaxGen + 1
    BY StoreBounds DEF StoreTypes
  <2> QED BY <2>1, StoreBounds DEF Id, Ids, StoreTypes
<1> QED BY <1>1, <1>2, <1>3 DEF Named, MacNamed

\* A request, and what it did so far: before its last attempt it made one at
\* most, and its pixels are aimed at a window.
RequestTypes ==
  /\ pc \in {"idle", "policy", "prepare", "pixel", "verify", "answered"}
  /\ req \in Requests \union {NoRequest} /\ job \in Jobs
  /\ pc \in {"prepare", "pixel"} => job.attempts \in 0..1
  /\ pc \in {"pixel", "verify"} => job.window \in Windows

\* The elements, the last result and the request of Windows.
WinTypes == StoreTypes /\ result \in Results /\ RequestTypes

\* The job before its first attempt, and refused there.
LEMMA NoJobTypes ==
  /\ NoJob \in Jobs /\ NoJob.attempts = 0
  /\ \A o \in Outcomes : [NoJob EXCEPT !.outcome = o] \in Jobs
<1>1. 0 \in 0..MaxGen /\ 0 \in 0..Verifications /\ 0 \in 0..2 /\ "InvalidRequest" \in Outcomes
  BY StoreBounds, VerificationsAssumption DEF Outcomes, Refusals
<1>2. NoJob \in Jobs
  BY <1>1 DEF NoJob, Jobs
<1> QED BY <1>2 DEF NoJob, Jobs

\* A step that leaves the request, and one that answers it.
LEMMA RequestSame ==
  ASSUME RequestTypes, UNCHANGED <<pc, req, job>>
  PROVE  RequestTypes'
BY DEF RequestTypes

\* An answered job.
LEMMA FinishTypes ==
  ASSUME RequestTypes, UNCHANGED req, NEW j \in Jobs, Finish(j)
  PROVE  RequestTypes'
BY DEF RequestTypes, Finish

\* A request arrives.
LEMMA BeginTypes ==
  ASSUME WinTypes, Begin
  PROVE  WinTypes'
<1>1. UNCHANGED storeVars /\ result' = NoResult
  BY DEF Begin
<1>2. NoResult \in Results
  BY StoreBounds DEF NoResult, Results, Statuses
<1>3. req' \in Requests
  <2>1. ASSUME NEW k \in Kinds, NEW s \in Strategies, NEW p \in Policies, NEW n \in Named,
               req' = [intent |-> "semantic", kind |-> k, strategy |-> s, policy |-> p, id |-> n]
        PROVE  req' \in Requests
    <3>1. n \in Ids
      BY NamedTypes DEF WinTypes
    <3> QED BY <2>1, <3>1 DEF Requests
  <2>2. ASSUME NEW k \in PixelKinds, NEW s \in Strategies, NEW t \in Targets,
               req' = [intent |-> "pixel", kind |-> k, strategy |-> s, target |-> t]
        PROVE  req' \in Requests
    BY <2>2 DEF Requests
  <2> QED BY <2>1, <2>2 DEF Begin
<1>4. /\ pc' \in {"policy", "answered"}
      /\ job' = NoJob \/ \E o \in Outcomes : job' = [NoJob EXCEPT !.outcome = o]
  <2>1. "Security" \in Outcomes /\ "Err" \in Outcomes
    BY DEF Outcomes, Refusals
  <2> QED BY <2>1 DEF Begin, Finish
<1>5. RequestTypes'
  BY <1>3, <1>4, NoJobTypes DEF RequestTypes
<1> QED BY <1>1, <1>2, <1>5, StoreTypesSame DEF WinTypes

\* What the policy does with a request, and with its semantic attempt.
LEMMA AfterTypes ==
  ASSUME RequestTypes, pc = "policy", UNCHANGED req, NEW r \in Results, AfterSemantic(r)
  PROVE  RequestTypes'
<1>1. /\ r.called \in BOOLEAN /\ r.after \in SUBSET (0..MaxGen)
      /\ execution_outcome_from_semantic(r.status) \in Outcomes
  BY DEF Results, execution_outcome_from_semantic, Statuses, Outcomes, Refusals
<1>2. Tried(r) \in Jobs /\ Tried(r).attempts = 1
  <2>1. 0 \in 0..2 /\ 1 \in 0..2 /\ job \in Jobs
    BY DEF RequestTypes
  <2> QED BY <1>1, <2>1 DEF Tried, Jobs
<1>3. [Tried(r) EXCEPT !.outcome = "FallbackDenied"] \in Jobs
  BY <1>2 DEF Jobs, Outcomes, Refusals
<1>4. ASSUME pc' = "prepare", job' = Tried(r) PROVE RequestTypes'
  BY <1>2, <1>4 DEF RequestTypes
<1> QED BY <1>2, <1>3, <1>4, AfterCases, FinishTypes

\* The policy tries the element, turns to pixels, or answers at once.
LEMMA PolicyTypes ==
  ASSUME WinTypes, JobInv, PixelPolicy \/ SemanticPolicy \/ ExplicitPixel
  PROVE  WinTypes'
<1>1. pc = "policy" /\ job = NoJob /\ UNCHANGED req
  BY DEF JobInv, BeforeAttempt, PixelPolicy, SemanticPolicy, ExplicitPixel
<1>2. CASE PixelPolicy
  <2>1. UNCHANGED <<storeVars, result>>
    BY <1>2 DEF PixelPolicy
  <2>2. CASE Finish([job EXCEPT !.outcome = "InvalidRequest"])
    <3>1. [job EXCEPT !.outcome = "InvalidRequest"] \in Jobs
      BY <1>1, NoJobTypes DEF Outcomes, Refusals
    <3> QED BY <1>1, <2>1, <2>2, <3>1, FinishTypes, StoreTypesSame DEF WinTypes
  <2>3. CASE /\ req.target \in Windows /\ pc' = "pixel"
             /\ job' = [job EXCEPT !.aimed = gen, !.window = req.target, !.from = window]
    <3>1. job' \in Jobs /\ job'.attempts = 0 /\ job'.window \in Windows
      BY <1>1, <2>3, NoJobTypes DEF Jobs, WinTypes, StoreTypes
    <3>2. RequestTypes'
      BY <1>1, <2>3, <3>1 DEF WinTypes, RequestTypes
    <3> QED BY <2>1, <3>2, StoreTypesSame DEF WinTypes
  <2> QED BY <1>2, <2>2, <2>3 DEF PixelPolicy
<1>3. CASE SemanticPolicy
  <2>1. EffectTypes
    <3>1. CASE Answered("Unsupported", FALSE, {}) /\ UNCHANGED storeVars
      BY <3>1, AnswerTypes, StoreTypesSame DEF WinTypes, EffectTypes, Statuses
    <3>2. CASE action(req.kind, req.id)
      BY <3>2, ActionTypes DEF WinTypes
    <3> QED BY <1>3, <3>1, <3>2 DEF SemanticPolicy
  <2>2. AfterSemantic(result')
    BY <1>3 DEF SemanticPolicy
  <2>3. RequestTypes'
    BY <1>1, <2>1, <2>2, AfterTypes DEF EffectTypes, WinTypes
  <2> QED BY <2>1, <2>3 DEF EffectTypes, WinTypes
<1>4. CASE ExplicitPixel
  <2>1. pc' = "prepare" /\ job' = NoJob /\ UNCHANGED <<storeVars, result>>
    BY <1>1, <1>4 DEF ExplicitPixel
  <2>2. RequestTypes'
    BY <1>1, <2>1, NoJobTypes DEF WinTypes, RequestTypes
  <2> QED BY <2>1, <2>2, StoreTypesSame DEF WinTypes
<1> QED BY <1>2, <1>3, <1>4

\* The preparation of the pixels.
LEMMA PrepareTypes ==
  ASSUME WinTypes, PreparePixel
  PROVE  WinTypes'
<1>1. /\ pc = "prepare" /\ UNCHANGED <<storeVars, result, req>>
      /\ job \in Jobs /\ job.attempts \in 0..1
  BY DEF PreparePixel, WinTypes, RequestTypes
<1>2. CASE /\ Resolves(req.id) /\ pc' = "pixel"
           /\ job' = [job EXCEPT !.aimed = gen, !.window = window, !.from = window,
                                 !.fallback = (job.attempts = 1)]
  <2>1. window \in Windows /\ gen \in 0..MaxGen
    BY <1>2 DEF WinTypes, StoreTypes, Resolves
  <2>2. job' \in Jobs /\ job'.attempts = job.attempts /\ job'.window \in Windows
    BY <1>1, <1>2, <2>1 DEF Jobs
  <2>3. RequestTypes'
    BY <1>1, <1>2, <2>2 DEF WinTypes, RequestTypes
  <2> QED BY <1>1, <2>3, StoreTypesSame DEF WinTypes
<1>3. ASSUME NEW o \in Outcomes, Finish([job EXCEPT !.outcome = o]) PROVE WinTypes'
  <2>1. [job EXCEPT !.outcome = o] \in Jobs
    BY <1>1 DEF Jobs
  <2> QED BY <1>1, <1>3, <2>1, FinishTypes, StoreTypesSame DEF WinTypes
<1>4. /\ \A o \in {"Unsupported", "InvalidTarget", "FocusDenied", "BackendError"} : o \in Outcomes
      /\ element_status_for_generation(req.id) \in Outcomes
  BY DEF Outcomes, Refusals, element_status_for_generation
<1> QED BY <1>2, <1>3, <1>4 DEF PreparePixel, Aimable

\* The pixel attempt.
LEMMA PixelTypes ==
  ASSUME WinTypes, JobInv, PixelRefused \/ PixelPartial \/ PixelSent
  PROVE  WinTypes'
<1>1. /\ pc = "pixel" /\ UNCHANGED <<storeVars, result, req>>
      /\ job \in Jobs /\ job.attempts \in 0..1 /\ job.dispatched = 0 /\ job.window \in Windows
  BY DEF PixelRefused, PixelPartial, PixelSent, WinTypes, RequestTypes, JobInv, InPixels
<1>2. job.attempts + 1 \in 0..2 /\ job.dispatched + 1 \in 0..2
  BY <1>1
<1>3. \A o \in {"InvalidRequest", "InvalidTarget", "Security", "FocusDenied", "BackendError", "Unsupported",
               "Performed", "VerificationFailed", "OutcomeUnknown"} : o \in Outcomes
  BY DEF Outcomes, Refusals
<1>4. CASE PixelRefused
  <2>1. PICK o \in Outcomes :
          Finish([job EXCEPT !.outcome = o, !.attempts = @ + 1, !.verified = FALSE, !.after = {}])
    BY <1>3, <1>4 DEF PixelRefused
  <2>2. [job EXCEPT !.outcome = o, !.attempts = @ + 1, !.verified = FALSE, !.after = {}] \in Jobs
    BY <1>1, <1>2 DEF Jobs
  <2> QED BY <1>1, <2>1, <2>2, FinishTypes, StoreTypesSame DEF WinTypes
<1>5. CASE PixelPartial
  <2>1. PartOutcomes(PixelKind) \subseteq Outcomes
    BY <1>3 DEF PartOutcomes
  <2>2. PICK o \in Outcomes :
          Finish([job EXCEPT !.outcome = o, !.attempts = @ + 1, !.after = {}, !.verified = FALSE,
                             !.dispatched = @ + 1])
    BY <1>5, <2>1 DEF PixelPartial
  <2>3. [job EXCEPT !.outcome = o, !.attempts = @ + 1, !.after = {}, !.verified = FALSE,
                    !.dispatched = @ + 1] \in Jobs
    BY <1>1, <1>2 DEF Jobs
  <2> QED BY <1>1, <2>2, <2>3, FinishTypes, StoreTypesSame DEF WinTypes
<1>6. CASE PixelSent
  <2> DEFINE sent == [job EXCEPT !.dispatched = @ + 1, !.attempts = @ + 1, !.after = {}, !.verified = FALSE]
  <2>1. sent \in Jobs /\ sent.window \in Windows
    BY <1>1, <1>2 DEF Jobs
  <2>2. \/ \E o \in Outcomes, v \in BOOLEAN : Finish([sent EXCEPT !.outcome = o, !.verified = v])
        \/ \E o \in Outcomes : Finish([sent EXCEPT !.outcome = o])
        \/ pc' = "verify" /\ job' = sent
    BY <1>3, <1>6 DEF PixelSent
  <2> HIDE DEF sent
  <2>3. ASSUME NEW o \in Outcomes, NEW v \in BOOLEAN
        PROVE  [sent EXCEPT !.outcome = o, !.verified = v] \in Jobs /\ [sent EXCEPT !.outcome = o] \in Jobs
    BY <2>1 DEF Jobs
  <2>4. ASSUME NEW j \in Jobs, Finish(j) PROVE WinTypes'
    BY <1>1, <2>4, FinishTypes, StoreTypesSame DEF WinTypes
  <2>5. ASSUME pc' = "verify", job' = sent PROVE WinTypes'
    <3>1. RequestTypes'
      BY <1>1, <2>1, <2>5 DEF WinTypes, RequestTypes
    <3> QED BY <1>1, <3>1, StoreTypesSame DEF WinTypes
  <2> QED BY <2>2, <2>3, <2>4, <2>5
<1> QED BY <1>4, <1>5, <1>6

\* The verification of a click, look by look.
LEMMA LookTypes ==
  ASSUME WinTypes, Look
  PROVE  WinTypes'
<1>1. /\ pc = "verify" /\ job.looks < Verifications /\ UNCHANGED <<nonce, cache, result, req>> /\ Spend
      /\ job \in Jobs /\ job.window \in Windows
  BY DEF Look, LookAgain, WinTypes, RequestTypes
<1>2. job.looks + 1 \in 0..Verifications
  <2>1. job.looks \in 0..Verifications /\ Verifications \in Nat
    BY <1>1, VerificationsAssumption DEF Jobs
  <2> QED BY ONLY <1>1, <2>1
<1>3. held' \subseteq Held /\ \A g, h \in held' : g = h
  BY <1>1, SpendTypes DEF WinTypes, StoreTypes
<1>4. CASE \E t \in Trees :
             /\ ObserveOk(job.window, t)
             /\ \/ Finish([job EXCEPT !.looks = @ + 1, !.after = {gen'}, !.verified = TRUE,
                                      !.outcome = "Performed"])
                \/ \E s \in {"opaque", "unchanged"} :
                     /\ pc' = pc
                     /\ job' = [job EXCEPT !.looks = @ + 1, !.after = {gen'}, !.seen = s,
                                            !.missed = FALSE]
  <2>1. PICK t \in Trees :
             /\ ObserveOk(job.window, t)
             /\ \/ Finish([job EXCEPT !.looks = @ + 1, !.after = {gen'}, !.verified = TRUE,
                                      !.outcome = "Performed"])
                \/ \E s \in {"opaque", "unchanged"} :
                     /\ pc' = pc
                     /\ job' = [job EXCEPT !.looks = @ + 1, !.after = {gen'}, !.seen = s,
                                            !.missed = FALSE]
    BY <1>4
  <2>2. StoreTypes'
    BY <1>1, <1>3, <2>1, ReplaceTypes DEF WinTypes, ObserveOk
  <2>3. {gen'} \in SUBSET (0..MaxGen)
    BY <2>2 DEF StoreTypes
  <2>4. CASE Finish([job EXCEPT !.looks = @ + 1, !.after = {gen'}, !.verified = TRUE, !.outcome = "Performed"])
    <3>1. [job EXCEPT !.looks = @ + 1, !.after = {gen'}, !.verified = TRUE, !.outcome = "Performed"] \in Jobs
      BY <1>1, <1>2, <2>3 DEF Jobs, Outcomes
    <3> QED BY <1>1, <2>2, <2>4, <3>1, FinishTypes DEF WinTypes
  <2>5. ASSUME NEW s \in {"opaque", "unchanged"}, pc' = pc,
               job' = [job EXCEPT !.looks = @ + 1, !.after = {gen'}, !.seen = s, !.missed = FALSE]
        PROVE  WinTypes'
    <3>1. job' \in Jobs /\ job'.window = job.window
      BY <1>1, <1>2, <2>3, <2>5 DEF Jobs
    <3>2. RequestTypes'
      BY <1>1, <2>5, <3>1 DEF WinTypes, RequestTypes
    <3> QED BY <1>1, <2>2, <3>2 DEF WinTypes
  <2> QED BY <2>1, <2>4, <2>5
<1>5. CASE ObserveErr /\ pc' = pc /\ job' = [job EXCEPT !.looks = @ + 1, !.missed = TRUE]
  <2>1. StoreTypes'
    BY <1>1, <1>5, InvalidateTypes DEF WinTypes, ObserveErr
  <2>2. job' \in Jobs /\ job'.window = job.window
    BY <1>1, <1>2, <1>5 DEF Jobs
  <2>3. RequestTypes'
    BY <1>1, <1>5, <2>2 DEF WinTypes, RequestTypes
  <2> QED BY <1>1, <2>1, <2>3 DEF WinTypes
<1> QED BY <1>4, <1>5 DEF Look

\* The end of a request.
LEMMA EndTypes ==
  ASSUME WinTypes, LooksDone \/ Return
  PROVE  WinTypes'
<1>1. CASE LooksDone
  <2>1. UNCHANGED <<storeVars, result, req>> /\ job \in Jobs
    BY <1>1 DEF LooksDone, WinTypes, RequestTypes
  <2>2. PICK o \in {"Performed", "VerificationFailed", "OutcomeUnknown"} : Finish([job EXCEPT !.outcome = o])
    BY <1>1 DEF LooksDone
  <2>3. [job EXCEPT !.outcome = o] \in Jobs
    BY <2>1 DEF Jobs, Outcomes
  <2> QED BY <2>1, <2>2, <2>3, FinishTypes, StoreTypesSame DEF WinTypes
<1>2. CASE Return
  <2>1. NoResult \in Results
    BY StoreBounds DEF NoResult, Results, Statuses
  <2>2. RequestTypes'
    BY <1>2, NoJobTypes DEF Return, RequestTypes
  <2> QED BY <1>2, <2>1, <2>2, StoreTypesSame DEF Return, WinTypes
<1> QED BY <1>1, <1>2

\* Steps between requests.
LEMMA IdleTypes ==
  ASSUME WinTypes, Alone(observe) \/ Alone(capability_probe) \/ Alone(close_session) \/ semantic_action
  PROVE  WinTypes'
<1>1. NoResult \in Results
  BY StoreBounds DEF NoResult, Results, Statuses
<1>2. CASE Alone(observe) \/ Alone(capability_probe) \/ Alone(close_session)
  <2>1. UNCHANGED <<pc, req, job>> /\ (observe \/ capability_probe \/ close_session)
    BY <1>2 DEF Alone
  <2>2. result' = NoResult
    BY <2>1 DEF observe, capability_probe, close_session
  <2>3. ASSUME close_session PROVE StoreTypes'
    BY <2>3, NextSessionTypes DEF WinTypes, close_session
  <2>4. StoreTypes'
    BY <2>1, <2>3, ObserveTypes, ProbeTypes DEF WinTypes
  <2> QED BY <1>1, <2>1, <2>2, <2>4, RequestSame DEF WinTypes
<1>3. CASE semantic_action
  <2>1. EffectTypes /\ pc' = "answered" /\ UNCHANGED <<req, job>>
    BY <1>3, ActionTypes DEF semantic_action, WinTypes
  <2>2. RequestTypes'
    BY <2>1 DEF WinTypes, RequestTypes
  <2> QED BY <2>1, <2>2 DEF EffectTypes, WinTypes
<1> QED BY <1>2, <1>3

\* Every step of Windows keeps the types, which hold at first
LEMMA WinTypesStep ==
  ASSUME WinTypes, JobInv, [Next]_vars
  PROVE  WinTypes'
<1>1. CASE UNCHANGED vars
  BY <1>1, StoreTypesSame, RequestSame DEF WinTypes, vars
<1> QED BY <1>1, IdleTypes, BeginTypes, PolicyTypes, PrepareTypes, PixelTypes, LookTypes, EndTypes DEF Next

\* with no request and no elements
LEMMA WinTypesInit ==
  ASSUME Init
  PROVE  WinTypes
<1>1. RequestTypes
  BY NoJobTypes DEF Init, RequestTypes
<1> QED BY <1>1, InitialStore DEF Init, WinTypes

\* and are those of the specification.
LEMMA WinTypesOK ==
  ASSUME WinTypes
  PROVE  TypeOK
BY DEF WinTypes, StoreTypes, RequestTypes, TypeOK

\* The elements, the profiles, the references and the jobs of Windows have
\* their types: no generation passes its bound, no request makes a third
\* attempt or looks once too often, and elements never lose their window.
THEOREM WindowsTypes == Spec => []TypeOK
<1>1. Init => WinTypes
  BY WinTypesInit
<1>2. JobInv /\ WinTypes /\ [Next]_vars => WinTypes'
  BY WinTypesStep
<1>3. WinTypes => TypeOK
  BY WinTypesOK
<1> QED BY <1>1, <1>2, <1>3, ExecutionInvariance, PTL DEF Spec

-----------------------------------------------------------------------------
(* The types of the requests of macOS.                                     *)

\* Each attempt sends one input or call at most, and there are three.
MacRequestTypes ==
  /\ mpc \in {"idle", "policy", "background", "takeover", "answered"}
  /\ mreq \in MacRequests \union {NoMacRequest} /\ mjob \in MacJobs
  /\ mpc = "policy" => mjob.sent = 0
  /\ mpc = "background" => mjob.sent \in 0..1
  /\ mpc = "takeover" => mjob.sent \in 0..2

\* The elements and the request of macOS.
MacTypes == StoreTypes /\ MacRequestTypes

\* The job before its first attempt.
LEMMA NoMacJobTypes ==
  NoMacJob \in MacJobs /\ NoMacJob.sent = 0 /\ \A b \in BOOLEAN : [NoMacJob EXCEPT !.live = b] \in MacJobs
<1>1. NoMacJob \in MacJobs /\ NoMacJob.sent = 0
  BY DEF NoMacJob, MacJobs, Statuses
<1>2. ASSUME NEW b \in BOOLEAN PROVE [NoMacJob EXCEPT !.live = b] \in MacJobs
  BY <1>1 DEF MacJobs
<1> QED BY <1>1, <1>2

\* Nothing of the request changes.
LEMMA MacRequestSame ==
  ASSUME MacRequestTypes, UNCHANGED <<mpc, mreq, mjob>>
  PROVE  MacRequestTypes'
BY DEF MacRequestTypes

\* An answered job.
LEMMA MacFinishTypes ==
  ASSUME MacRequestTypes, UNCHANGED mreq, NEW j \in MacJobs, MacFinish(j)
  PROVE  MacRequestTypes'
BY DEF MacRequestTypes, MacFinish

\* The elements.
LEMMA AxObserveTypes ==
  ASSUME StoreTypes, NEW w \in Windows, NEW t \in Trees, semantic_observe_ax(w, t),
         UNCHANGED <<nonce, cache>>,
         held' = held \/ (gen' # gen /\ current' # <<>> /\ Give(w, t))
  PROVE  StoreTypes'
<1>1. CASE UNCHANGED <<gen, current, window>>
  <2>1. held' = held
    BY <1>1
  <2> QED BY <1>1, <2>1, StoreTypesSame DEF storeVars
<1>2. CASE replace_snapshot(w, t)
  <2>1. gen' \in 0..MaxGen
    BY <1>2, StoreBounds DEF replace_snapshot, StoreTypes
  <2>2. held' \subseteq Held /\ \A g, h \in held' : g = h
    BY <2>1, GiveTypes DEF StoreTypes
  <2> QED BY <1>2, <2>2, ReplaceTypes
<1>3. CASE invalidate(1)
  <2>1. held' = held
    BY <1>3 DEF invalidate
  <2> QED BY <1>3, <2>1, InvalidateTypes
<1> QED BY <1>1, <1>2, <1>3 DEF semantic_observe_ax

\* An action by Accessibility keeps the elements or drops them.
LEMMA AxActionTypes ==
  ASSUME StoreTypes, NEW k, NEW id, NEW status, NEW sent, semantic_action_ax(k, id, status, sent)
  PROVE  StoreTypes'
<1>1. UNCHANGED storeVars \/ (invalidate(1) /\ Spend /\ UNCHANGED <<nonce, cache>>)
  BY DEF semantic_action_ax, PathGone, AxDispatched
<1> QED BY <1>1, StoreTypesSame, InvalidateTypes

\* Steps between requests.
LEMMA MacIdleTypes ==
  ASSUME MacTypes, MacObserve \/ capability_probe_ax \/ MacCloseSession \/ MacSemanticAction
  PROVE  MacTypes'
<1>1. UNCHANGED <<mpc, mreq, mjob>>
  BY DEF MacObserve, capability_probe_ax, MacCloseSession, MacSemanticAction
<1>2. ASSUME MacObserve PROVE StoreTypes'
  <2>1. PICK w \in Windows, t \in Trees :
          /\ semantic_observe_ax(w, t)
          /\ IF gen' # gen /\ current' # <<>> THEN Give(w, t) ELSE held' = held
    BY <1>2 DEF MacObserve
  <2>2. held' = held \/ (gen' # gen /\ current' # <<>> /\ Give(w, t))
    BY <2>1
  <2> QED BY <1>2, <2>1, <2>2, AxObserveTypes DEF MacObserve, MacTypes
<1>3. ASSUME capability_probe_ax PROVE StoreTypes'
  BY <1>3, AxObserveTypes DEF capability_probe_ax, MacTypes
<1>4. ASSUME MacCloseSession PROVE StoreTypes'
  BY <1>4, NextSessionTypes DEF MacCloseSession, MacTypes
<1>5. ASSUME MacSemanticAction PROVE StoreTypes'
  BY <1>5, AxActionTypes DEF MacSemanticAction, MacTypes
<1> QED BY <1>1, <1>2, <1>3, <1>4, <1>5, MacRequestSame DEF MacTypes

\* A request arrives, or its answer goes out.
LEMMA MacEndTypes ==
  ASSUME MacTypes, MacBegin \/ MacReturn
  PROVE  MacTypes'
<1>1. UNCHANGED storeVars
  BY DEF MacBegin, MacReturn
<1>2. CASE MacReturn
  <2>1. MacRequestTypes'
    BY <1>2, NoMacJobTypes DEF MacReturn, MacRequestTypes
  <2> QED BY <1>1, <2>1, StoreTypesSame DEF MacTypes
<1>3. CASE MacBegin
  <2>1. mpc' = "policy"
    BY <1>3 DEF MacBegin
  <2>2. ASSUME NEW k \in MacKinds, NEW s \in MacStrategies, NEW p \in {"Allow", "Deny"}, NEW m \in Modes,
               NEW n \in MacNamed,
               mreq' = [intent |-> "semantic", kind |-> k, strategy |-> s, policy |-> p, mode |-> m, id |-> n],
               mjob' = [NoMacJob EXCEPT !.live = Resolves(n)]
        PROVE  MacRequestTypes'
    <3>1. n \in Ids
      BY NamedTypes DEF MacTypes
    <3>2. mreq' \in MacRequests
      BY <2>2, <3>1 DEF MacRequests
    <3>3. Resolves(n) \in BOOLEAN
      BY DEF Resolves
    <3>4. mjob' \in MacJobs /\ mjob'.sent = 0
      BY <2>2, <3>3, NoMacJobTypes DEF NoMacJob
    <3> QED BY <2>1, <3>2, <3>4 DEF MacRequestTypes
  <2>3. ASSUME NEW k \in MacPixelKinds, NEW s \in MacStrategies, NEW m \in Modes, NEW c \in Scopes,
               mreq' = [intent |-> "pixel", kind |-> k, strategy |-> s, mode |-> m, scope |-> c],
               mjob' = NoMacJob
        PROVE  MacRequestTypes'
    <3>1. mreq' \in MacRequests
      BY <2>3 DEF MacRequests
    <3> QED BY <2>1, <2>3, <3>1, NoMacJobTypes DEF MacRequestTypes
  <2>4. MacRequestTypes'
    BY <1>3, <2>2, <2>3 DEF MacBegin
  <2> QED BY <1>1, <2>4, StoreTypesSame DEF MacTypes
<1> QED BY <1>2, <1>3

\* What the semantic route adds to a job.
LEMMA EditTypes ==
  ASSUME NEW j \in MacJobs, NEW s \in Statuses, NEW n \in 0..1, NEW b \in BOOLEAN,
         NEW k, k = [j EXCEPT !.status = s, !.outcome = s, !.sent = n, !.binding = b]
  PROVE  k \in MacJobs /\ k.sent \in 0..1
<1>1. n \in 0..3
  OBVIOUS
<1>2. k.sent = n
  BY DEF MacJobs
<1>3. k \in MacJobs
  BY <1>1 DEF MacJobs
<1> QED BY <1>2, <1>3

\* What the explicit pixels record: the semantic route was not tried.
LEMMA UnsupportedTypes ==
  ASSUME NEW j \in MacJobs, NEW s \in Statuses, NEW b \in BOOLEAN, j.sent = 0,
         NEW k, k = [j EXCEPT !.status = s, !.outcome = s, !.binding = b]
  PROVE  k \in MacJobs /\ k.sent \in 0..1
<1>1. k.sent = 0
  BY DEF MacJobs
<1>2. 0 \in 0..1
  OBVIOUS
<1>3. k \in MacJobs
  BY DEF MacJobs
<1> QED BY <1>1, <1>2, <1>3

\* The policy sends one call at most, and goes on to the mode of the request.
LEMMA MacPolicyTypes ==
  ASSUME MacTypes, MacInv, MacSemantic \/ MacExplicitPixel \/ MacPixelPolicy
  PROVE  MacTypes'
<1>1. /\ mpc = "policy" /\ UNCHANGED mreq /\ mreq.mode \in Modes /\ mjob \in MacJobs /\ mjob.sent = 0
      /\ MacRequestTypes
  BY DEF MacSemantic, MacExplicitPixel, MacPixelPolicy, MacInv, MacTypes, MacRequestTypes
<1>2. ASSUME mjob' \in MacJobs, mjob'.sent \in 0..1, mpc' = mreq.mode \/ mpc' \in {"answered", "takeover"}
      PROVE  MacRequestTypes'
  BY <1>1, <1>2 DEF MacRequestTypes, Modes
<1>3. CASE MacSemantic
  <2>1. PICK status \in Statuses, sent \in 0..1, bounds \in BOOLEAN :
          /\ semantic_action_ax(mreq.kind, mreq.id, status, sent)
          /\ mjob' = [mjob EXCEPT !.status = status, !.outcome = status, !.sent = sent,
                        !.binding = FallbackAllowed(bounds)]
          /\ mpc' = mreq.mode \/ mpc' = "answered"
    BY <1>3 DEF MacSemantic, MacFinish
  <2>2. PICK b \in BOOLEAN :
          mjob' = [mjob EXCEPT !.status = status, !.outcome = status, !.sent = sent, !.binding = b]
    BY <2>1 DEF FallbackAllowed
  <2>3. mjob' \in MacJobs /\ mjob'.sent \in 0..1
    BY <1>1, <2>2, EditTypes
  <2>4. StoreTypes'
    BY <2>1, AxActionTypes DEF MacTypes
  <2> QED BY <1>2, <2>1, <2>3, <2>4 DEF MacTypes
<1>4. CASE MacExplicitPixel
  <2>1. PICK bounds \in BOOLEAN :
          /\ mjob' = [mjob EXCEPT !.status = "Unsupported", !.outcome = "Unsupported",
                                  !.binding = FallbackAllowed(bounds)]
          /\ mpc' = mreq.mode \/ mpc' = "answered"
    BY <1>4 DEF MacExplicitPixel, MacFinish
  <2>2. PICK b \in BOOLEAN :
          mjob' = [mjob EXCEPT !.status = "Unsupported", !.outcome = "Unsupported", !.binding = b]
    BY <2>1 DEF FallbackAllowed
  <2>3. "Unsupported" \in Statuses
    BY DEF Statuses
  <2>4. mjob' \in MacJobs /\ mjob'.sent \in 0..1
    BY <1>1, <2>2, <2>3, UnsupportedTypes
  <2>5. StoreTypes'
    BY <1>4, StoreTypesSame DEF MacExplicitPixel, MacTypes
  <2> QED BY <1>2, <2>1, <2>4, <2>5 DEF MacTypes
<1>5. CASE MacPixelPolicy
  <2>1. /\ mjob' \in {mjob, [mjob EXCEPT !.outcome = "Err"]}
        /\ mpc' = mreq.mode \/ mpc' \in {"answered", "takeover"}
    BY <1>5 DEF MacPixelPolicy, RejectPixel, TargetMissing, RoutePixel, MacFinish
  <2>2. mjob' \in MacJobs /\ mjob'.sent \in 0..1
    BY <1>1, <2>1 DEF MacJobs, Statuses
  <2>3. StoreTypes'
    BY <1>5, StoreTypesSame DEF MacPixelPolicy, MacTypes
  <2> QED BY <1>2, <2>1, <2>2, <2>3 DEF MacTypes
<1> QED BY <1>3, <1>4, <1>5

\* Each route of the pixels sends one input at most.
LEMMA MacRouteTypes ==
  ASSUME MacTypes, Background \/ Takeover
  PROVE  MacTypes'
<1>1. StoreTypes' /\ UNCHANGED mreq /\ mjob \in MacJobs
  BY StoreTypesSame DEF Background, Takeover, MacTypes, MacRequestTypes
<1>2. \A a \in {Done, FailsLate, FailsEarly} : a.sent \in 0..1
  BY DEF Done, FailsLate, FailsEarly
<1>3. PICK a \in {Done, FailsLate, FailsEarly} :
        mjob' = Afterwards(a) /\ (mpc' = "answered" \/ (mpc = "background" /\ mpc' = "takeover"))
  BY DEF Background, Takeover, MacFinish, execute_application, execute_background,
         background_pointer_action, execute_takeover_fallback
<1>4. mjob.sent + a.sent \in 0..3 /\ (mpc = "background" => mjob.sent + a.sent \in 0..2)
  <2>1. mpc \in {"background", "takeover"} /\ mjob.sent \in 0..2 /\ (mpc = "background" => mjob.sent \in 0..1)
    BY DEF Background, Takeover, MacTypes, MacRequestTypes
  <2> QED BY <1>2, <2>1
<1>5. mjob' \in MacJobs /\ mjob'.sent = mjob.sent + a.sent
  BY <1>1, <1>3, <1>4 DEF Afterwards, MacJobs, Statuses
<1>6. MacRequestTypes'
  BY <1>1, <1>3, <1>4, <1>5 DEF MacTypes, MacRequestTypes
<1> QED BY <1>1, <1>6 DEF MacTypes

\* Every step of macOS keeps the types.
LEMMA MacTypesStep ==
  ASSUME MacTypes, MacInv, [MacNext]_macVars
  PROVE  MacTypes'
<1>1. CASE UNCHANGED macVars
  BY <1>1, StoreTypesSame, MacRequestSame DEF MacTypes, macVars
<1> QED BY <1>1, MacIdleTypes, MacEndTypes, MacPolicyTypes, MacRouteTypes DEF MacNext

\* A request of macOS sends three inputs or calls at most, one for each of its
\* attempts, and its elements, references and answers have their types.
THEOREM MacTypesHold == MacSpec => [](MacTypeOK /\ StoreTypes)
<1>1. MacInit => MacTypes
  <2> SUFFICES ASSUME MacInit PROVE MacTypes
    OBVIOUS
  <2>1. MacRequestTypes
    BY NoMacJobTypes DEF MacInit, MacRequestTypes
  <2> QED BY <2>1, InitialStore DEF MacInit, MacTypes
<1>2. MacInv /\ MacTypes /\ [MacNext]_macVars => MacTypes'
  BY MacTypesStep
<1>3. MacTypes => MacTypeOK /\ StoreTypes
  BY DEF MacTypes, MacRequestTypes, MacTypeOK
<1> QED BY <1>1, <1>2, <1>3, MacInvariance, PTL DEF MacSpec

-----------------------------------------------------------------------------
(* The process: its parts together.                                        *)

\* Everything the process keeps.
AllVars == <<part, vars, macVars, sideVars, frameVars, inputVars>>

\* No request of a backend is under way.
WindowsIdle == pc = "idle" /\ req = NoRequest /\ job = NoJob /\ result = NoResult
MacIdle     == mpc = "idle" /\ mreq = NoMacRequest /\ mjob = NoMacJob

\* A step of macOS leaves what an action of Windows returned.
LEMMA MacLeavesResult ==
  ASSUME [MacNext]_macVars
  PROVE  UNCHANGED result
BY DEF macVars, MacNext, MacObserve, capability_probe_ax, MacCloseSession, MacSemanticAction,
       semantic_action_ax, MacBegin, MacSemantic, MacExplicitPixel, MacPixelPolicy, RejectPixel,
       TargetMissing, RoutePixel, Background, Takeover, Afterwards, MacReturn, storeVars

\* The sessions of the server, the frames and the input events of the process
\* are those of their specifications, whatever part runs.
THEOREM PartsRun == RuntimeSpec => SideSpec /\ FrameSpec /\ InputSpec
<1>1. RuntimeInit => SideInit /\ FrameInit /\ InputInit
  BY DEF RuntimeInit
<1>2. [RuntimeNext]_AllVars => [SideNext]_sideVars /\ [FrameNext]_frameVars /\ [InputNext]_inputVars
  BY DEF RuntimeNext, AllVars
<1> QED BY <1>1, <1>2, PTL DEF RuntimeSpec, AllVars, SideSpec, FrameSpec, InputSpec

\* A process with the Windows backend behaves as its specification says, and
\* has no request of macOS.
THEOREM WindowsPart == RuntimeSpec /\ part = "windows" => Spec /\ []MacIdle
<1>1. RuntimeInit => Init /\ MacIdle
  BY DEF RuntimeInit, MacInit, MacIdle
<1>2. part = "windows" /\ [RuntimeNext]_AllVars => [Next]_vars /\ (part = "windows")'
  BY DEF RuntimeNext, AllVars
<1>3. part = "windows" /\ MacIdle /\ [RuntimeNext]_AllVars => MacIdle'
  BY DEF RuntimeNext, AllVars, MacOwnVars, macVars, MacIdle
<1> QED BY <1>1, <1>2, <1>3, PTL DEF RuntimeSpec, AllVars, Spec

\* A process with the macOS backend behaves as its specification says, and
\* has no request of Windows.
THEOREM MacPart == RuntimeSpec /\ part = "macos" => MacSpec /\ []WindowsIdle
<1>1. RuntimeInit => MacInit /\ WindowsIdle
  BY DEF RuntimeInit, Init, StoreInit, WindowsIdle
<1>2. part = "macos" /\ [RuntimeNext]_AllVars => [MacNext]_macVars /\ (part = "macos")'
  BY DEF RuntimeNext, AllVars
<1>3. part = "macos" /\ WindowsIdle /\ [RuntimeNext]_AllVars => WindowsIdle'
  <2> SUFFICES ASSUME part = "macos", WindowsIdle, [RuntimeNext]_AllVars PROVE WindowsIdle'
    OBVIOUS
  <2>1. UNCHANGED result
    BY <1>2, MacLeavesResult
  <2>2. UNCHANGED <<pc, req, job>>
    BY DEF RuntimeNext, AllVars, WindowsVars, vars
  <2> QED BY <2>1, <2>2 DEF WindowsIdle
<1> QED BY <1>1, <1>2, <1>3, PTL DEF RuntimeSpec, AllVars, MacSpec

\* Any other part leaves the backends as they were.
LEMMA BackendsRest ==
  RuntimeSpec /\ part \notin {"windows", "macos"} => [](StoreInit /\ WindowsIdle /\ MacIdle)
<1> DEFINE Elsewhere == part \notin {"windows", "macos"}
           Rest == StoreInit /\ WindowsIdle /\ MacIdle
<1>1. RuntimeInit => Rest
  BY DEF RuntimeInit, Init, MacInit, StoreInit, WindowsIdle, MacIdle
<1>2. Elsewhere /\ Rest /\ [RuntimeNext]_AllVars => Elsewhere' /\ Rest'
  <2> SUFFICES ASSUME Elsewhere, Rest, [RuntimeNext]_AllVars PROVE Elsewhere' /\ Rest'
    OBVIOUS
  <2>1. UNCHANGED part
    BY DEF RuntimeNext, AllVars
  <2>2. UNCHANGED <<vars, MacOwnVars>>
    BY DEF RuntimeNext, AllVars, macVars, MacOwnVars
  <2> QED BY <2>1, <2>2 DEF vars, storeVars, MacOwnVars, StoreInit, WindowsIdle, MacIdle
<1> HIDE DEF Elsewhere, Rest
<1>3. RuntimeSpec /\ Elsewhere => []Rest
  BY <1>1, <1>2, PTL DEF RuntimeSpec, AllVars
<1> QED BY <1>3 DEF Elsewhere, Rest

\* What holds of the requests of Windows.
WindowsSafe ==
  /\ TypeOK /\ ReferenceHolds /\ SpentIsDead /\ OneEffect /\ RefusalsTouchNothing
  /\ FallbackIsAdmitted /\ CachedIsCurrent /\ ReportedGenerationIsCurrent

\* What holds of the requests of macOS.
MacSafe == MacTypeOK /\ SendsAreAdmitted

\* A backend without a request is safe as long as its elements are.
LEMMA WindowsRests ==
  ASSUME WindowsIdle, StoreTypes, ElementInv
  PROVE  WindowsSafe
<1>1. RequestTypes
  BY NoJobTypes DEF WindowsIdle, RequestTypes
<1>2. NoResult \in Results
  BY StoreBounds DEF NoResult, Results, Statuses
<1>3. TypeOK
  BY <1>1, <1>2, WinTypesOK DEF WindowsIdle, WinTypes
<1>4. job.dispatched = 0 /\ job.fallback = FALSE /\ pc = "idle" /\ req.intent = "none"
      /\ job.after = {}
  BY DEF WindowsIdle, NoJob, NoRequest
<1>5. OneEffect /\ RefusalsTouchNothing /\ FallbackIsAdmitted /\ ReportedGenerationIsCurrent
  BY <1>4 DEF OneEffect, RefusalsTouchNothing, FallbackIsAdmitted, ReportedGenerationIsCurrent,
                  GenerationHolds
<1> QED BY <1>3, <1>5 DEF WindowsSafe, ElementInv

\* macOS without a request has nothing to answer for.
LEMMA MacRests ==
  ASSUME MacIdle
  PROVE  MacSafe
<1>1. mreq.intent = "none"
  BY DEF MacIdle, NoMacRequest
<1>2. MacTypeOK
  BY NoMacJobTypes DEF MacIdle, MacTypeOK
<1> QED BY <1>1, <1>2 DEF MacSafe, SendsAreAdmitted

\* The elements before the first observation.
LEMMA FreshElements ==
  ASSUME StoreInit
  PROVE  ElementInv
BY DEF StoreInit, ElementInv, HeldBehind, CacheBehind, ReferenceHolds, SpentIsDead, CachedIsCurrent, Fresh

\* Whatever part of the process runs, on either platform, the backends keep
\* every property their own specifications have.
THEOREM BackendsSafe == RuntimeSpec => [](WindowsSafe /\ MacSafe)
<1>1. RuntimeSpec /\ part = "windows" => [](WindowsSafe /\ MacSafe)
  <2>1. Spec => []WindowsSafe
    BY WindowsTypes, ReferencesHold, SpentStayDead, CacheIsCurrent, OneEffectOnly, RefusalsHarmless,
       FallbackAdmitted, GenerationReported, PTL DEF WindowsSafe
  <2>2. MacIdle => MacSafe
    BY MacRests
  <2> QED BY <2>1, <2>2, WindowsPart, PTL
<1>2. RuntimeSpec /\ part = "macos" => [](WindowsSafe /\ MacSafe)
  <2>1. MacElementInv /\ StoreTypes /\ WindowsIdle => WindowsSafe
    BY WindowsRests DEF MacElementInv
  <2>2. MacTypeOK /\ SendsAreAdmitted => MacSafe
    BY DEF MacSafe
  <2> QED BY <2>1, <2>2, MacPart, MacElements, MacTypesHold, MacSendsAdmitted, PTL
<1>3. RuntimeSpec /\ part \notin {"windows", "macos"} => [](WindowsSafe /\ MacSafe)
  <2>1. StoreInit /\ WindowsIdle => WindowsSafe
    BY InitialStore, FreshElements, WindowsRests
  <2>2. MacIdle => MacSafe
    BY MacRests
  <2> QED BY <2>1, <2>2, BackendsRest, PTL
<1>4. part = "windows" \/ part = "macos" \/ part \notin {"windows", "macos"}
  OBVIOUS
<1> QED BY <1>1, <1>2, <1>3, <1>4, PTL

\* The state of every part has its types.
THEOREM RuntimeTypes == RuntimeSpec => []RuntimeTypeOK
<1>1. WindowsSafe /\ MacSafe /\ SideTypeOK /\ FrameTypeOK /\ InputTypeOK => RuntimeTypeOK
  BY DEF WindowsSafe, MacSafe, RuntimeTypeOK
<1> QED BY <1>1, BackendsSafe, PartsRun, SideTypes, FrameTypes, InputTypes, PTL

\* The promises of the sidecar's sessions, frames and input events hold of
\* the whole process, beside those of its backend.
THEOREM ProcessSafe ==
  RuntimeSpec => [](/\ ReplayRefused /\ WindowIdsHold /\ LiveSessionsWork /\ NothingLeftBehind
                    /\ FramesAccounted /\ LoopsEnd /\ FrameAnswersHold
                    /\ DownIsTracked)
BY PartsRun, NoReplay, IdsHold, SessionsWork, CleanEnd, StoreAccounted, LoopsAlwaysEnd, AnswersAreTrue,
   PressedIsTracked, PTL
=============================================================================
