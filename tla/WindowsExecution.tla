-------------------------- MODULE WindowsExecution --------------------------
(***************************************************************************)
(* execute_policy of the Windows backend (runtime/src/win_native.rs): one  *)
(* request is tried through UI Automation, through pixel input, or through *)
(* one after the other, and answered with what is known of its effect.     *)
(*                                                                         *)
(* A session holds the backend's lock for a whole request, so requests,    *)
(* observations and probes do not interleave; the desktop does, and shows  *)
(* in the free choices of every step.  "Dispatched" is an input event or a *)
(* pattern call that reached the desktop.                                  *)
(***************************************************************************)
EXTENDS UiaStore

CONSTANT Verifications     \* observations after a pixel action (5 in the code)

ASSUME VerificationsAssumption == Verifications \in Nat \ {0}

VARIABLES
  pc,            \* where execute_policy stands
  req,           \* the request, or NoRequest
  job            \* what it did so far, and how it was answered

vars == <<storeVars, result, pc, req, job>>

\* PixelOnly and PreferPixel are treated alike.
Strategies == {"SemanticOnly", "PreferSemantic", "Pixel"}
Policies   == {"Allow", "Deny"}                 \* RequireExplicit counts as Deny

\* keys: the actions whose effect no observation proves (typing, hotkeys,
\* held buttons); modified: pointer input between modifier keys.  A pixel
\* request is aimed at a window, at an application, or at nothing.
PixelKinds == {"click", "modified", "keys", "focus_window"}
Targets    == Windows \union {"application", NoWindow}

Requests ==
  [intent : {"semantic"}, kind : Kinds, strategy : Strategies, policy : Policies,
   id : Ids] \union
  [intent : {"pixel"}, kind : PixelKinds, strategy : Strategies, target : Targets]

NoRequest == [intent |-> "none"]

Refusals == {"InvalidRequest", "FallbackDenied", "StaleElement", "UnknownElement",
             "Unsupported", "ElementUnavailable", "Disabled", "ReadOnly",
             "InvalidValue", "WindowNotForeground", "InvalidTarget", "Security", "Err"}
Outcomes == Refusals \union {"Performed", "VerificationFailed", "OutcomeUnknown",
                             "FocusDenied", "BackendError"}

Jobs == [outcome : Outcomes, after : SUBSET (0..MaxGen), attempts : 0..2,
         called : BOOLEAN, dispatched : 0..2, aimed : 0..MaxGen,
         window : Windows \union {NoWindow}, from : Windows \union {NoWindow}, fallback : BOOLEAN, verified : BOOLEAN,
         looks : 0..Verifications, seen : {"nothing", "opaque", "unchanged"},
         missed : BOOLEAN]                       \* history: the last look failed

NoJob == [outcome |-> "InvalidRequest", after |-> {}, attempts |-> 0,
          called |-> FALSE, dispatched |-> 0, aimed |-> 0, window |-> NoWindow, from |-> NoWindow,
          fallback |-> FALSE, verified |-> FALSE, looks |-> 0, seen |-> "nothing",
          missed |-> FALSE]

semantic_failure_can_fallback(status) == status \in {"Unsupported", "ElementUnavailable"}

action_allows_pixel_fallback(kind) == kind \in {"focus", "invoke", "set_value"}

\* Mutant: a result nobody could read is told as a missing capability.
UnknownIsUnsupported(status) == IF status = "OutcomeUnknown" THEN "Unsupported" ELSE status

execution_outcome_from_semantic(status) ==
  IF status = "Err" THEN "Unsupported" ELSE status

TextFor(kind) == IF kind = "set_value" THEN "keys" ELSE "click"

Finish(j) == pc' = "answered" /\ job' = j

-----------------------------------------------------------------------------
(* The steps of a request.                                                 *)

\* The references a caller may name: the one it holds, those of the current
\* observation, and one that was never given.
Named == {h.id : h \in held} \union {Id(gen, i) : i \in 1..Len(current)}
         \union {Id(gen + 1, 1)}

\* The security decision on the window a request names: none is taken for an
\* element that does not resolve, nor for a request without a window.
SecurityChecked(r) ==
  \/ r.intent = "semantic" /\ Resolves(r.id)
  \/ r.intent = "pixel" /\ r.target \in Windows

\* A request arrives, and its target passes the security preflight or does not.
Begin ==
  /\ pc = "idle" /\ gen + Verifications <= MaxGen /\ gen + 2 <= MaxGen
  /\ \/ \E k \in Kinds, s \in Strategies, p \in Policies, n \in Named :
          /\ s # "PreferSemantic" => p = "Allow"     \* the policy is not read
          /\ req' = [intent |-> "semantic", kind |-> k, strategy |-> s, policy |-> p, id |-> n]
     \/ \E k \in PixelKinds, s \in Strategies, t \in Targets :
          req' = [intent |-> "pixel", kind |-> k, strategy |-> s, target |-> t]
  /\ \/ pc' = "policy" /\ job' = NoJob
     \/ SecurityChecked(req') /\ Finish([NoJob EXCEPT !.outcome = "Security"])
     \/ Finish([NoJob EXCEPT !.outcome = "Err"])
  /\ result' = NoResult
  /\ UNCHANGED storeVars

\* A pixel intent.
PixelPolicy ==
  /\ pc = "policy" /\ req.intent = "pixel"
  /\ IF req.strategy = "SemanticOnly" \/ req.target \notin Windows
     THEN Finish([job EXCEPT !.outcome = "InvalidRequest"])
     ELSE /\ pc' = "pixel"
          /\ job' = [job EXCEPT !.aimed = gen, !.window = req.target, !.from = window]
  /\ UNCHANGED <<storeVars, result, req>>

\* What execute_policy does with the result of the semantic attempt: it is
\* final; or a fallback that the caller did not allow; or pixels are next.
AfterSemantic(r) ==
  LET falls == r.status = "Err" \/ semantic_failure_can_fallback(r.status)
      barred == req.policy # "Allow" \/ ~action_allows_pixel_fallback(req.kind)
      tried == [job EXCEPT !.attempts = 1, !.called = r.called,
                  !.dispatched = (IF r.called THEN 1 ELSE 0), !.after = r.after,
                  !.outcome = execution_outcome_from_semantic(r.status),
                  !.verified = (r.status = "Performed")]
  IN \/ /\ ~falls \/ req.strategy = "SemanticOnly" \/ (r.status = "Err" /\ barred)
        /\ Finish(tried)
     \/ /\ falls /\ r.status # "Err" /\ req.strategy # "SemanticOnly" /\ barred
        /\ Finish([tried EXCEPT !.outcome = "FallbackDenied"])
     \/ /\ falls /\ req.strategy # "SemanticOnly" /\ ~barred
        /\ pc' = "prepare" /\ job' = tried

SemanticPolicy ==
  /\ pc = "policy" /\ req.intent = "semantic"
  /\ req.strategy \in {"SemanticOnly", "PreferSemantic"}
  /\ \/ /\ CachedUnsupported(req.id)
        /\ Answered("Unsupported", FALSE, {})
        /\ UNCHANGED storeVars
     \/ ~CachedUnsupported(req.id) /\ action(req.kind, req.id)
  /\ AfterSemantic(result')
  /\ UNCHANGED req

\* A pixel strategy with a semantic intent goes straight to the pixels.
ExplicitPixel ==
  /\ pc = "policy" /\ req.intent = "semantic"
  /\ req.strategy = "Pixel"
  /\ pc' = "prepare" /\ UNCHANGED <<storeVars, result, req, job>>

\* Mutant: the target is taken from the reference without looking it up.
Trusted(id) == id.nonce = nonce /\ Len(current) > 0

\* pixel_target finds the element in the current observation.
Aimable(id) == Resolves(id)

\* prepare_pixel_fallback: a current element with bounds in a window that is
\* present and in front, or the error's outcome.
PreparePixel ==
  /\ pc = "prepare"
  /\ \/ /\ Aimable(req.id)
        /\ pc' = "pixel" /\ job' = [job EXCEPT !.aimed = gen, !.window = window, !.from = window,
                                              !.fallback = (job.attempts = 1)]
     \/ \E o \in {"Unsupported", "InvalidTarget", "FocusDenied", "BackendError"} :
          Resolves(req.id) /\ Finish([job EXCEPT !.outcome = o])
     \/ /\ ~Aimable(req.id)
        /\ Finish([job EXCEPT !.outcome = element_status_for_generation(req.id)])
  /\ UNCHANGED <<storeVars, result, req>>

PixelKind == IF req.intent = "pixel" THEN req.kind ELSE TextFor(req.kind)

\* run_pixel_attempt up to its execute: windows, foreground, input.
PixelRefused ==
  /\ pc = "pixel"
  /\ \E o \in {"InvalidRequest", "InvalidTarget", "Security", "FocusDenied", "BackendError", "Unsupported"} :
       Finish([job EXCEPT !.outcome = o, !.attempts = @ + 1, !.verified = FALSE,
                          !.after = {}])
  /\ UNCHANGED <<storeVars, result, req>>

\* What is told of an action that failed after some of its input was sent:
\* SendInput failed; the foreground was lost between a click and the text that
\* follows it; or the modifiers were pressed for a path that is then refused.
PartOutcomes(kind) ==
  {"BackendError"} \union (IF kind \in {"keys", "focus_window"} THEN {"FocusDenied"} ELSE {})
                   \union (IF kind = "modified" THEN {"InvalidRequest", "InvalidTarget"} ELSE {})

PixelPartial ==
  /\ pc = "pixel"
  /\ \E o \in PartOutcomes(PixelKind) :
       Finish([job EXCEPT !.outcome = o, !.attempts = @ + 1, !.after = {},
                          !.verified = FALSE, !.dispatched = @ + 1])
  /\ UNCHANGED <<storeVars, result, req>>

PixelSent ==
  /\ pc = "pixel"
  /\ LET sent == [job EXCEPT !.dispatched = @ + 1, !.attempts = @ + 1, !.after = {},
                             !.verified = FALSE]
     IN \/ /\ PixelKind = "focus_window"
           /\ \E o \in {"Performed", "VerificationFailed", "OutcomeUnknown"} :
                Finish([sent EXCEPT !.outcome = o, !.verified = (o = "Performed")])
        \/ PixelKind = "keys" /\ Finish([sent EXCEPT !.outcome = "Performed"])
        \/ /\ PixelKind \in {"click", "modified"} /\ job.aimed = 0       \* no snapshot before
           /\ Finish([sent EXCEPT !.outcome = "VerificationFailed"])
        \/ /\ PixelKind \in {"click", "modified"} /\ job.aimed # 0
           /\ Finish([sent EXCEPT !.outcome = "OutcomeUnknown"])    \* no such window
        \/ /\ PixelKind \in {"click", "modified"} /\ job.aimed # 0
           /\ pc' = "verify" /\ job' = sent
  /\ UNCHANGED <<storeVars, result, req>>

\* VERIFICATION_RETRY_DELAYS_MS: one observation, and one after each delay.
LookAgain == job.looks < Verifications

\* One more observation of the window: it changed, it did not, or it failed.
\* The one that is kept for the answer is the last that did not fail.
Look ==
  /\ pc = "verify" /\ LookAgain
  /\ \/ \E t \in Trees :
            /\ ObserveOk(job.window, t)
            /\ \/ Finish([job EXCEPT !.looks = @ + 1, !.after = {gen'}, !.verified = TRUE,
                                     !.outcome = "Performed"])
               \/ \E s \in {"opaque", "unchanged"} :
                    /\ job.from # NoWindow /\ pc' = pc
                    /\ job' = [job EXCEPT !.looks = @ + 1, !.after = {gen'}, !.seen = s,
                                          !.missed = FALSE]
     \/ ObserveErr /\ pc' = pc /\ job' = [job EXCEPT !.looks = @ + 1, !.missed = TRUE]
  /\ Spend /\ UNCHANGED <<nonce, cache, result, req>>

LooksDone ==
  /\ pc = "verify" /\ ~LookAgain
  /\ Finish([job EXCEPT !.outcome =
               CASE job.seen = "opaque"    -> "Performed"
                 [] job.seen = "unchanged" -> "VerificationFailed"
                 [] OTHER                  -> "OutcomeUnknown"])
  /\ UNCHANGED <<storeVars, result, req>>

\* The result goes back and the session releases the backend.
Return ==
  /\ pc = "answered" /\ pc' = "idle" /\ req' = NoRequest /\ job' = NoJob
  /\ result' = NoResult /\ UNCHANGED storeVars

\* semantic_action: the same action without the policy around it.
semantic_action ==
  /\ pc = "idle" /\ gen + 2 <= MaxGen
  /\ \E k \in Kinds, n \in Named : Resolves(n) /\ action(k, n)
  /\ pc' = "answered" /\ UNCHANGED <<req, job>>

Alone(A) == pc = "idle" /\ A /\ UNCHANGED <<pc, req, job>>

Init == StoreInit /\ pc = "idle" /\ req = NoRequest /\ job = NoJob

Next ==
  \/ Alone(observe) \/ Alone(capability_probe) \/ Alone(close_session)
  \/ semantic_action
  \/ Begin \/ PixelPolicy \/ SemanticPolicy \/ ExplicitPixel
  \/ PreparePixel \/ PixelRefused \/ PixelPartial \/ PixelSent
  \/ Look \/ LooksDone \/ Return

Spec == Init /\ [][Next]_vars
-----------------------------------------------------------------------------
(* Properties.                                                             *)

TypeOK ==
  /\ nonce \in 1..MaxSessions /\ gen \in 0..MaxGen
  /\ current \in Trees \union {<<>>} /\ window \in Windows \union {NoWindow}
  /\ (window = NoWindow) <=> (current = <<>>)
  /\ cache \in [Windows -> SUBSET Entries]
  /\ held \subseteq Held /\ \A g, h \in held : g = h
  /\ result \in Results
  /\ pc \in {"idle", "policy", "prepare", "pixel", "verify", "answered"}
  /\ req \in Requests \union {NoRequest}
  /\ job \in Jobs

\* One request has one effect: the mouse is never used after a pattern was
\* called, whatever the call returned, and the verification never repeats it.
OneEffect == job.dispatched <= 1

\* A request answered with a refusal, a fallback denied or an error touched
\* nothing on the desktop, so that the caller may send another one.  Modified
\* pointer input is the exception: it may be refused between its modifiers.
RefusalsTouchNothing ==
  pc = "answered" /\ job.outcome \in Refusals =>
    job.dispatched = 0 \/ (req.intent = "pixel" /\ req.kind = "modified")

\* Pixels are used for a semantic intent only when the caller's policy admits
\* it, at the element of the current observation the caller named, and after
\* no pattern was called.
FallbackIsAdmitted ==
  req.intent = "semantic" /\ (pc \in {"pixel", "verify"} \/ job.fallback) =>
    /\ req.strategy # "SemanticOnly" /\ ~job.called
    /\ req.strategy = "PreferSemantic" => req.policy = "Allow" /\ action_allows_pixel_fallback(req.kind)
    /\ req.id.nonce = nonce /\ req.id.gen = job.aimed

\* What a probe remembers and the policy uses instead of asking UI Automation
\* is what the sample of the current elements says.
CachedIsCurrent ==
  \A w \in Windows : \A e \in Fresh(w) :
    e.status # "unknown" /\ gen # 0 => window = w /\ e.status = Assess(w)

\* The generation a result tells the caller to go on with is the one the store
\* is in, after every action, retry and lost element, but for one case: when the
\* effect of a pixel action is looked for and the last look fails, the answer
\* still tells the generation of an earlier one.  Such an answer never says that
\* the effect was proved, and no element resolves until the next observation.
GenerationHolds ==
  \/ job.after \subseteq {gen}
  \/ job.missed /\ ~job.verified /\ current = <<>>

ReportedGenerationIsCurrent == pc = "answered" => GenerationHolds
=============================================================================
