----------------------------- MODULE AttemptLoop -----------------------------
(***************************************************************************)
(* One request in pipeline.rs run(): admission, the planned targets, the   *)
(* loop that tries them one after the other before the client has received *)
(* a byte, and what the request holds meanwhile: its admission             *)
(* reservation, the target's concurrency permit and the provider attempt,  *)
(* which may be the provider's only half-open probe.                       *)
(*                                                                         *)
(* A stage is a place where the handler awaits; what it does between two   *)
(* awaits is one step.  While it awaits the clock goes on and the client   *)
(* may leave, which drops the handler and all it holds.                    *)
(***************************************************************************)
EXTENDS Integers, Sequences, FiniteSets

CONSTANTS
  Plans,     \* the sequences of targets, [logical, account], that planning yields
  Limits,    \* values of the route's max_attempts; 0 stands for none
  Triggers,  \* sets of the fallback triggers that a route leaves switched on
  Deadline,  \* MAX_PRE_COMMIT_DEADLINE
  Timeout,   \* the provider's timeout_ms
  MaxTime,   \* bound on the clock
  None       \* no route target

Trigger == {"on429", "onQuota", "on5xx", "onTimeout"}

Logical == UNION {{p[i].logical : i \in 1..Len(p)} : p \in Plans}

Account == UNION {{p[i].account : i \in 1..Len(p)} : p \in Plans}

Target == [logical : Logical, account : Account]

ASSUME ConstantsAssumption ==
  /\ Plans \subseteq Seq(Target) /\ Target # {}
  /\ Limits \subseteq Nat /\ Triggers \subseteq SUBSET Trigger
  /\ Deadline \in Nat /\ Timeout \in Nat \ {0} /\ MaxTime \in Nat

VARIABLES
  now,          \* the clock, 0 when the request starts
  config,       \* the route and the caller's settings, which do not change
  maxAttempts,  \* max_attempts
  stage,        \* where the handler is
  pending,      \* pending_targets
  target,       \* the target of this round of the loop
  skip,         \* skip_logical_target
  attempts,     \* attempts_done
  retried,      \* auth_retried_accounts
  lastError,    \* last_error: none, of an attempt, or of a target that was skipped
  failure,      \* the failure that is being handled, and whether there was a response
  phaseEnd,     \* phase_deadline
  reservation,  \* holds the admission reservation
  permit,       \* holds the adaptive concurrency permit
  attempt,      \* holds a provider attempt that was not finished
  live,         \* the request's entry in the live view
  answer,       \* what run() returned
  sends,        \* history: dispatches to an upstream
  reported,     \* history: failures that were told to the provider circuit
  failed,       \* history: an attempt failed for good
  refused       \* history: one failed in a way that rules out another

fixed == <<config, maxAttempts>>
targets == <<pending, target, skip>>
tries == <<attempts, retried>>
dispatch == <<failure, phaseEnd>>
held == <<reservation, permit, attempt>>
outcome == <<live, answer>>
seen == <<sends, reported, failed, refused>>
vars == <<now, fixed, stage, targets, tries, lastError, dispatch, held, outcome, seen>>

-----------------------------------------------------------------------------
FailureKind == {"RateLimit", "QuotaExhausted", "AuthError", "TargetError",
                "ServerError", "ConnectionError", "Timeout", "BadRequest"}

(***************************************************************************)
(* "new": before admission.  "plan": before the targets are known.         *)
(* "loop": the top of the loop.  "quota", "credential": past the health    *)
(* check, past the soft quota.  "backoff": ready to send.  "sent": no      *)
(* headers yet.  "body", "errbody": reads a 2xx or another response.       *)
(* "validated": a response to commit.  "rotate": renews the credential.    *)
(* "settle": in handle_key_failure.  "streaming": handed to the stream     *)
(* driver.  "over": returned an error, or was dropped.                     *)
(***************************************************************************)
Working == {"new", "plan", "loop", "quota", "credential", "backoff", "sent",
            "body", "errbody", "validated", "rotate", "settle"}

Stage == Working \cup {"streaming", "over"}

Config == [route : BOOLEAN, adaptive : BOOLEAN, allowFallback : BOOLEAN,
           triggers : Triggers, limit : Limits]

Init ==
  /\ now = 0
  /\ config \in Config
  /\ ~config.route => ~config.adaptive /\ config.limit = 0
  /\ maxAttempts = 1
  /\ stage = "new"
  /\ pending = <<>> /\ target = (CHOOSE t \in Target : TRUE) /\ skip = None
  /\ attempts = 0 /\ retried = {}
  /\ lastError = "none"
  /\ failure = [kind |-> "Timeout", answered |-> FALSE] /\ phaseEnd = 0
  /\ reservation = FALSE /\ permit = FALSE /\ attempt = FALSE
  /\ live = "none" /\ answer = "none"
  /\ sends = 0 /\ reported = 0 /\ failed = FALSE /\ refused = FALSE

-----------------------------------------------------------------------------
(* Decisions, and the two ways out of a round of the loop *)

\* Wrong: a route may ask for as many attempts as it likes.
Clamp_bug(n, low, high) == IF n < low THEN low ELSE n

Clamp(n, low, high) == IF n < low THEN low ELSE IF n > high THEN high ELSE n

\* route_allows_fallback
RouteAllows(kind) ==
  CASE kind = "BadRequest"     -> FALSE
    [] ~config.route           -> kind # "TargetError"
    [] kind = "RateLimit"      -> "on429" \in config.triggers
    [] kind = "QuotaExhausted" -> "onQuota" \in config.triggers
    [] kind \in {"ServerError", "ConnectionError"} -> "on5xx" \in config.triggers
    [] kind = "Timeout"        -> "onTimeout" \in config.triggers
    [] OTHER                   -> TRUE

CanFallback(kind) == config.allowFallback /\ RouteAllows(kind)

\* run() returns an error, or is dropped; what it holds is dropped with it.
Leave(error, entry) ==
  /\ stage' = "over"
  /\ answer' = error
  /\ live' = entry
  /\ reservation' = FALSE /\ permit' = FALSE /\ attempt' = FALSE

\* continue: the next round of the loop; the round's locals are dropped.
Continue(error) ==
  /\ stage' = "loop"
  /\ lastError' = error
  /\ permit' = FALSE /\ attempt' = FALSE
  /\ UNCHANGED <<reservation, outcome>>

-----------------------------------------------------------------------------
(* Up to the loop *)

\* limits::reserve, then the live entry.
Admit ==
  /\ stage = "new"
  /\ \/ /\ stage' = "plan" /\ reservation' = TRUE /\ live' = "in_flight"
        /\ UNCHANGED <<permit, attempt, answer>>
     \/ Leave("rejected", live)
  /\ UNCHANGED <<now, fixed, targets, tries, lastError, dispatch, seen>>

\* The model is not configured (an error, and no word to the live view), or
\* predicates, restrictions and context windows leave no target.
NoTarget ==
  /\ stage = "plan"
  /\ Leave("refused", live) \/ Leave("refused", "finished")
  /\ UNCHANGED <<now, fixed, targets, tries, lastError, dispatch, seen>>

\* The eligible targets, in the order of the strategy, open circuits last, the
\* session's target first.  Targets of a direct request have no route target.
Plan ==
  /\ stage = "plan"
  /\ pending' \in {p \in Plans : p # <<>> /\ \A i \in 1..Len(p) :
                                  (p[i].logical # None) = config.route}
  /\ maxAttempts' = Clamp(IF config.limit = 0 THEN Len(pending') ELSE config.limit, 1, 5)
  /\ stage' = "loop"
  /\ UNCHANGED <<now, config, target, skip, tries, lastError, dispatch, held, outcome, seen>>

-----------------------------------------------------------------------------
(* A round of the loop, up to the dispatch *)

Exhausted == attempts >= maxAttempts \/ now >= Deadline

\* The target is another account of a logical target that failed.
SkipLogicalTarget ==
  /\ stage = "loop" /\ pending # <<>>
  /\ skip # None /\ Head(pending).logical = skip
  /\ pending' = Tail(pending)
  /\ UNCHANGED <<now, fixed, stage, target, skip, tries, lastError, dispatch, held, outcome, seen>>

\* The next target: skipped for its account's health, or considered.
Consider ==
  /\ stage = "loop" /\ pending # <<>>
  /\ skip # None => Head(pending).logical # skip
  /\ ~Exhausted
  /\ pending' = Tail(pending)
  /\ target' = Head(pending)
  /\ stage' \in {"loop", "quota"}
  /\ UNCHANGED <<now, fixed, skip, tries, lastError, dispatch, held, outcome, seen>>

\* No target, attempt or time is left: the last error, or a general one.
GiveUp ==
  /\ stage = "loop"
  /\ pending # <<>> => Exhausted /\ (skip # None => Head(pending).logical # skip)
  /\ Leave(IF lastError = "none" THEN "unavailable" ELSE lastError, "finished")
  /\ UNCHANGED <<now, fixed, targets, tries, lastError, dispatch, seen>>

\* The soft quota is reached: the account is marked exhausted and left.
SoftQuota ==
  /\ stage = "quota"
  /\ IF CanFallback("QuotaExhausted")
       THEN Continue(lastError)
       ELSE Leave("refused", "finished") /\ UNCHANGED lastError
  /\ UNCHANGED <<now, fixed, targets, tries, dispatch, seen>>

\* No profile, adapter or capability, or the provider's circuit rejects.
Ineligible ==
  /\ stage = "quota"
  /\ Continue("skip")
  /\ UNCHANGED <<now, fixed, targets, tries, dispatch, seen>>

Eligible ==
  /\ stage = "quota"
  /\ stage' = "credential"
  /\ UNCHANGED <<now, fixed, targets, tries, lastError, dispatch, held, outcome, seen>>

\* credential_for failed; an invalid credential's account is disabled.
NoCredential ==
  /\ stage = "credential"
  /\ Continue("skip")
  /\ UNCHANGED <<now, fixed, targets, tries, dispatch, seen>>

\* Continuation state or overrides that do not fit end the request without a
\* word to the live view; parameter policy and translation tell it.
Refuse ==
  /\ stage = "credential"
  /\ Leave("refused", live) \/ Leave("refused", "finished")
  /\ UNCHANGED <<now, fixed, targets, tries, lastError, dispatch, seen>>

Prepare ==
  /\ stage = "credential"
  /\ stage' = "backoff"
  /\ UNCHANGED <<now, fixed, targets, tries, lastError, dispatch, held, outcome, seen>>

\* The adaptive permit is refused, or after it begin_attempt refuses.
Saturated ==
  /\ stage = "backoff"
  /\ Continue("skip")
  /\ UNCHANGED <<now, fixed, targets, tries, dispatch, seen>>

\* phase_budget has nothing left after the backoff and the permit.
TooLate ==
  /\ stage = "backoff"
  /\ now >= Deadline
  /\ Leave(IF lastError = "none" THEN "unavailable" ELSE lastError, "finished")
  /\ UNCHANGED <<now, fixed, targets, tries, lastError, dispatch, seen>>

SmallerOf(a, b) == IF a < b THEN a ELSE b

\* The permit of an adaptive route, the provider attempt, and the dispatch.
Send ==
  /\ stage = "backoff"
  /\ now < Deadline
  /\ permit' = config.adaptive
  /\ attempt' = TRUE
  /\ attempts' = attempts + 1
  /\ phaseEnd' = now + SmallerOf(Deadline - now, Timeout)
  /\ stage' = "sent"
  /\ sends' = sends + 1
  /\ UNCHANGED <<now, fixed, targets, retried, lastError, failure, reservation, outcome,
                 reported, failed, refused>>

-----------------------------------------------------------------------------
(* The answer of the upstream *)

\* The failure of an attempt: the permit is finished, and unless a 2xx turned
\* out invalid the provider attempt is finished before the account is marked.
FailAttempt(kind, answered, next) ==
  /\ failure' = [kind |-> kind, answered |-> answered]
  /\ permit' = FALSE
  /\ stage' = next
  /\ UNCHANGED <<now, fixed, targets, tries, lastError, phaseEnd, reservation, outcome>>

\* finish_failure of the provider attempt.
Report ==
  /\ attempt' = FALSE
  /\ reported' = reported + 1
  /\ UNCHANGED <<sends, failed, refused>>

\* send_upstream failed, or its time is up.
SendFailed ==
  /\ stage = "sent"
  /\ \E kind \in {"ConnectionError", "Timeout", "BadRequest"} :
       FailAttempt(kind, FALSE, "settle")
  /\ Report

SendTimeout ==
  /\ stage = "sent" /\ now >= phaseEnd
  /\ FailAttempt("Timeout", FALSE, "settle")
  /\ Report

Headers ==
  /\ stage = "sent"
  /\ stage' \in {"body", "errbody"}
  /\ UNCHANGED <<now, fixed, targets, tries, lastError, dispatch, held, outcome, seen>>

\* prepare_success_response finds no valid first event.
Invalid ==
  /\ stage = "body" /\ now < phaseEnd
  /\ \E kind \in FailureKind : FailAttempt(kind, TRUE, "settle")
  /\ UNCHANGED <<attempt, seen>>

\* Wrong: the first event is awaited for ever.
BodyTimeout_bug == FALSE /\ UNCHANGED vars

BodyTimeout ==
  /\ stage = "body" /\ now >= phaseEnd
  /\ FailAttempt("Timeout", TRUE, "settle")
  /\ UNCHANGED <<attempt, seen>>

Validated ==
  /\ stage = "body" /\ now < phaseEnd
  /\ stage' = "validated"
  /\ UNCHANGED <<now, fixed, targets, tries, lastError, dispatch, held, outcome, seen>>

\* After clear_circuit the stream driver takes over all that is held.
Commit ==
  /\ stage = "validated"
  /\ stage' = "streaming"
  /\ answer' = "response"
  /\ UNCHANGED <<now, fixed, targets, tries, lastError, dispatch, held, live, seen>>

\* Wrong: the provider attempt stays open until the account has been dealt with.
Classified_bug ==
  /\ stage = "errbody"
  /\ now < phaseEnd
  /\ \E kind \in FailureKind :
       FailAttempt(kind, TRUE,
         IF kind = "AuthError" /\ target.account \notin retried THEN "rotate" ELSE "settle")
  /\ UNCHANGED <<attempt, seen>>

\* A response that is not 2xx is classified; the first authentication error of
\* an account has its credential rotated.
Classified ==
  /\ stage = "errbody"
  /\ now < phaseEnd
  /\ \E kind \in FailureKind :
       FailAttempt(kind, TRUE,
         IF kind = "AuthError" /\ target.account \notin retried THEN "rotate" ELSE "settle")
  /\ Report

ErrorBodyTimeout ==
  /\ stage = "errbody" /\ now >= phaseEnd
  /\ FailAttempt("Timeout", TRUE, "settle")
  /\ Report

-----------------------------------------------------------------------------
(* The end of a failed attempt *)

\* Wrong: the account is not remembered as retried.
AuthRetry_bug ==
  /\ stage = "rotate"
  /\ attempts' = attempts - 1
  /\ pending' = <<target>> \o pending
  /\ Continue(lastError)
  /\ UNCHANGED <<now, fixed, retried, target, skip, dispatch, seen>>

\* Rotated: the same target again, and the attempt does not count.
AuthRetry ==
  /\ stage = "rotate"
  /\ retried' = retried \cup {target.account}
  /\ attempts' = attempts - 1
  /\ pending' = <<target>> \o pending
  /\ Continue(lastError)
  /\ UNCHANGED <<now, fixed, target, skip, dispatch, seen>>

\* There is nothing to rotate, or the credential is known to be invalid.
NotRotated ==
  /\ stage = "rotate"
  /\ stage' = "settle"
  /\ UNCHANGED <<now, fixed, targets, tries, lastError, dispatch, held, outcome, seen>>

\* An attempt has failed for good: on to the next target, or out.
NextOrOut(kind) ==
  IF CanFallback(kind)
    THEN Continue("attempt")
    ELSE Leave("attempt", "finished") /\ UNCHANGED lastError

\* Wrong: the failed rotation goes to the next target unconditionally.
RotationFailed_bug ==
  /\ stage = "rotate"
  /\ Continue("attempt")
  /\ failed' = TRUE
  /\ refused' = (refused \/ ~CanFallback("AuthError"))
  /\ UNCHANGED <<now, fixed, targets, tries, dispatch, sends, reported>>

\* The rotation failed otherwise: the account cools down.
RotationFailed ==
  /\ stage = "rotate"
  /\ NextOrOut("AuthError")
  /\ failed' = TRUE
  /\ refused' = (refused \/ ~CanFallback("AuthError"))
  /\ UNCHANGED <<now, fixed, targets, tries, dispatch, sends, reported>>

\* A response said that the model or project is not to be had there.
TargetFailed == failure.kind = "TargetError" /\ failure.answered

\* Wrong: an invalid 2xx is not told to the provider circuit.
Settle_bug ==
  /\ stage = "settle"
  /\ NextOrOut(failure.kind)
  /\ skip' = IF TargetFailed /\ CanFallback(failure.kind) THEN target.logical ELSE skip
  /\ failed' = TRUE
  /\ refused' = (refused \/ ~CanFallback(failure.kind))
  /\ UNCHANGED <<now, fixed, pending, target, tries, dispatch, sends, reported>>

\* handle_key_failure is done; an invalid 2xx is reported only now.  A failure
\* of the logical target itself rules out its other accounts.
Settle ==
  /\ stage = "settle"
  /\ NextOrOut(failure.kind)
  /\ skip' = IF TargetFailed /\ CanFallback(failure.kind) THEN target.logical ELSE skip
  /\ reported' = IF attempt THEN reported + 1 ELSE reported
  /\ failed' = TRUE
  /\ refused' = (refused \/ ~CanFallback(failure.kind))
  /\ UNCHANGED <<now, fixed, pending, target, tries, dispatch, sends>>

-----------------------------------------------------------------------------
\* The client goes away before the commit: the handler is dropped.
Disconnect ==
  /\ stage \in Working
  /\ Leave("gone", live)
  /\ UNCHANGED <<now, fixed, targets, tries, lastError, dispatch, seen>>

Tick ==
  /\ stage \in Working
  /\ now < MaxTime
  /\ now' = now + 1
  /\ UNCHANGED <<fixed, stage, targets, tries, lastError, dispatch, held, outcome, seen>>

Begin == Admit \/ NoTarget \/ Plan

Choose == SkipLogicalTarget \/ Consider \/ GiveUp

Ready ==
  \/ SoftQuota \/ Ineligible \/ Eligible \/ NoCredential \/ Refuse \/ Prepare
  \/ Saturated \/ TooLate \/ Send

Upstream == SendFailed \/ Headers \/ Invalid \/ Validated \/ Classified

Expire == SendTimeout \/ BodyTimeout \/ ErrorBodyTimeout

Conclude == Commit \/ AuthRetry \/ NotRotated \/ RotationFailed \/ Settle

Next == Begin \/ Choose \/ Ready \/ Upstream \/ Expire \/ Conclude \/ Disconnect \/ Tick

Spec == Init /\ [][Next]_vars

(***************************************************************************)
(* Fairness: the handler goes on when it can, the database and the plugins *)
(* that it awaits answer, and time passes.  Upstreams need not answer.     *)
(***************************************************************************)
Fairness ==
  /\ WF_vars(Begin) /\ WF_vars(Choose) /\ WF_vars(Ready)
  /\ WF_vars(Expire) /\ WF_vars(Conclude) /\ WF_vars(Tick)

FairSpec == Spec /\ Fairness

-----------------------------------------------------------------------------
(* Properties. *)

TypeOK ==
  /\ now \in Nat /\ phaseEnd \in Nat
  /\ config \in Config /\ maxAttempts \in 1..5
  /\ stage \in Stage
  /\ pending \in Seq(Target) /\ target \in Target /\ skip \in Logical \cup {None}
  /\ attempts \in Nat /\ retried \subseteq Account
  /\ lastError \in {"none", "attempt", "skip"}
  /\ failure \in [kind : FailureKind, answered : BOOLEAN]
  /\ reservation \in BOOLEAN /\ permit \in BOOLEAN /\ attempt \in BOOLEAN
  /\ live \in {"none", "in_flight", "finished"}
  /\ answer \in {"none", "rejected", "refused", "unavailable", "attempt", "skip",
                 "response", "gone"}
  /\ sends \in Nat /\ reported \in Nat
  /\ failed \in BOOLEAN /\ refused \in BOOLEAN

\* "Bounded by max_attempts": a request is sent to upstreams max_attempts times
\* at most, and once more for each account whose credential was renewed, though
\* such a retry is taken off attempts_done and put in front of the queue.
SendsBounded == sends <= maxAttempts + Cardinality(retried)

\* While the request chooses, checks, backs off or renews a credential it holds
\* neither a target's concurrency permit nor an unfinished provider attempt,
\* which might be the provider's only half-open probe; when it is over it holds
\* no reservation either.
NothingHeldBetweenAttempts ==
  /\ stage \in {"loop", "quota", "credential", "backoff", "rotate", "over"} => ~permit /\ ~attempt
  /\ stage = "over" => ~reservation

\* Each dispatch is told to the provider circuit as a failure exactly once, or
\* is still under way, or is handed to the stream driver; only a request that
\* was dropped leaves one without a verdict.
EveryAttemptReported ==
  answer # "gone" => sends = reported + (IF attempt THEN 1 ELSE 0)

\* Nothing is sent after a failure that must reach the client: a bad request,
\* one whose trigger is off, or any when the caller allows no fallback.
NoSendAfterRefusal == stage = "sent" => ~refused

\* Every request that is not dropped is answered in the end: the retries and
\* the waits are bounded, whatever the upstreams do.
EventuallyAnswered == <>(stage \in {"streaming", "over"})

\* "Routing exhaustion must not turn a useful 429/401/5xx into a generic 503":
\* when an attempt failed, running out of targets returns an attempt's error.
UpstreamErrorPreserved == answer \in {"skip", "unavailable"} => ~failed
=============================================================================
