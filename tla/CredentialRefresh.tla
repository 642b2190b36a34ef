-------------------------- MODULE CredentialRefresh --------------------------
(***************************************************************************)
(* Renewal of one account's credential (credential_refresh.rs, app.rs):    *)
(* requests that resolve it, requests that renew it after a 401, and the   *)
(* scheduler that renews it before it expires, at one gate that forget()   *)
(* may take away.  The plugin and its token endpoint are external: each    *)
(* call may succeed, fail for now or report that the credential is invalid.*)
(***************************************************************************)
EXTENDS Integers, FiniteSets

CONSTANTS
  Requests,     \* slots for requests on the account, used again when idle
  Scheduler,    \* the job of the refresh loop
  Hints,        \* <<expires in, refresh in>> that the plugin may give a lease
  MinInterval,  \* MIN_SUCCESSFUL_REFRESH_INTERVAL_SECS, in ticks
  Lead,         \* DEFAULT_REFRESH_LEAD_SECS, in ticks
  Grace,        \* CLAIM_GRACE_SECS, in ticks
  Retry,        \* the back-off after one failure, in ticks; doubled after more
  RetryHints,   \* retry_after_secs of a plugin that fails, or None; 0 is "at once"
  MaxRetry,     \* MAX_RETRY_SECS, in ticks
  MaxSecrets,   \* bound on the credentials that the plugin issues
  MaxGates,     \* bound on the gates that are made
  MaxTime,      \* bound on the clock
  None          \* no instant, no schedule

Tasks == Requests \cup {Scheduler}

\* An instant may be unknown; a credential, and a LeaseSchedule of it.
Instants == Nat \cup {None}
Leases == [secret : Nat, expires : Instants, after : Instants]
Schedules == [next : Nat, failures : 0..2, lease : Leases, claim : Instants]

\* The intervals of the code are positive, and a lead or a grace may be nothing.
ASSUME CredentialAssumption ==
  /\ Scheduler \notin Requests
  /\ MaxGates \in Nat /\ MaxSecrets \in Nat \ {0} /\ MaxTime \in Nat
  /\ MinInterval \in Nat \ {0} /\ Retry \in Nat \ {0} /\ MaxRetry \in Nat \ {0} /\ Lead \in Nat /\ Grace \in Nat
  /\ Hints \subseteq Instants \X Instants /\ RetryHints \subseteq Instants
  /\ None \notin Int /\ None \notin Schedules

VARIABLES
  now,         \* the clock
  lease,       \* the credential that the plugin has: secret, expires, after
  schedule,    \* the account's LeaseSchedule, or None
  gate,        \* the RotationGate in the map, 0 if there is none
  made,        \* how many gates were made
  stage,       \* where each task is
  job,         \* what it does: resolve, auth or scheduled
  at,          \* the gate it has, 0 if none
  news,        \* last_auth_result of its gate, if the generation is not the one it saw
  seen,        \* the secret it last resolved; 0 if the plugin failed
  calledAt,    \* when the scheduler's job read the clock
  disabled,    \* the account's row says so
  forgotten,   \* history: a gate was forgotten while a task had it
  renewedAt    \* history: when the schedule was last renewed by a rotation; None once
               \* a failure since then has asked for a retry at once

gates == <<gate, made>>
tasks == <<stage, job, at, news, seen, calledAt>>
history == <<forgotten, renewedAt>>
vars == <<now, lease, schedule, gates, tasks, disabled, history>>

-----------------------------------------------------------------------------
(* LeaseSchedule *)

Later(a, b) == IF a > b THEN a ELSE b
Sooner(a, b) == IF a < b THEN a ELSE b

\* schedule_from_credential: the plugin's own hint, or before the expiry by the
\* lead or by half of a short lease.
FromCredential(c) ==
  LET left == Later(c.expires - now, 0)
      requested == IF c.after # None THEN c.after ELSE c.expires - Sooner(left \div 2, Lead)
  IN  IF c.after = None /\ c.expires = None THEN None
      ELSE [next |-> Later(requested, now), failures |-> 0, lease |-> c, claim |-> None]

\* Wrong: a renewed lease that keeps its timing is not moved on.
Stored_bug(c, reset, renewed) ==
  LET fresh == FromCredential(c)
      same == /\ schedule # None
              /\ schedule.lease.expires = c.expires /\ schedule.lease.after = c.after
  IN  IF fresh # None /\ same
        THEN [fresh EXCEPT !.next = schedule.next,
                           !.failures = IF reset THEN 0 ELSE schedule.failures]
        ELSE fresh

\* store_schedule: what was known of the same lease is kept, and a lease that
\* changed or was renewed is not due again at once.
Stored(c, reset, renewed) ==
  LET fresh == FromCredential(c)
      timing == schedule.lease.expires = c.expires /\ schedule.lease.after = c.after
      secret == schedule.lease.secret = c.secret
      kept == IF schedule = None THEN fresh
              ELSE IF timing
              THEN [fresh EXCEPT !.next = schedule.next,
                                 !.failures = IF reset THEN 0 ELSE schedule.failures,
                                 !.claim = IF ~reset /\ secret THEN schedule.claim ELSE None]
              ELSE IF ~reset /\ schedule.failures > 0
              THEN [fresh EXCEPT !.next = Later(fresh.next, schedule.next),
                                 !.failures = schedule.failures]
              ELSE fresh
      changed == schedule # None /\ (timing => ~secret)
      floor == IF c.expires # None /\ c.expires > now
                 THEN Sooner(now + MinInterval, c.expires) ELSE now + MinInterval
  IN  IF fresh = None THEN None
      ELSE IF (changed \/ renewed) /\ kept.next <= now
      THEN [kept EXCEPT !.next = floor] ELSE kept

\* record_failure: a retry when the plugin asks for it, or later, and the claim is
\* given up.
RetryAfter(failures, hint) ==
  Sooner(IF hint # None THEN hint ELSE IF failures = 0 THEN Retry ELSE 2 * Retry, MaxRetry)
Failed(hint) ==
  LET known == IF schedule # None THEN schedule
               ELSE [next |-> now, failures |-> 0, claim |-> None,
                     lease |-> [secret |-> 0, expires |-> None, after |-> None]]
  IN  [known EXCEPT !.failures = Sooner(@ + 1, 2), !.next = now + RetryAfter(known.failures, hint),
                    !.claim = None]

\* The schedule becomes s; renewedAt follows it.
Reschedule(s) ==
  /\ schedule' = s
  /\ renewedAt' = IF s = None THEN None ELSE renewedAt

\* A failure of the plugin is recorded.
Postpone(hint) ==
  /\ schedule' = Failed(hint)
  /\ renewedAt' = IF hint = 0 THEN None ELSE renewedAt

\* observe and observe_refreshed; observe_successful_rotation.
Observe(c, reset) == Reschedule(Stored(c, reset, FALSE))
ObserveRenewed(c) ==
  /\ schedule' = Stored(c, TRUE, TRUE)
  /\ renewedAt' = IF schedule' = None THEN None ELSE now

-----------------------------------------------------------------------------
(* The plugin. *)

Issued == {[secret |-> lease.secret + 1,
            expires |-> IF h[1] = None THEN None ELSE now + h[1],
            after |-> IF h[2] = None THEN None ELSE now + h[2]] : h \in Hints}

\* A credential is issued, in a rotation or, by some plugins, in resolve().
Renew == lease.secret < MaxSecrets /\ lease' \in Issued

\* resolve() gives a credential.
Resolves == Renew \/ UNCHANGED lease

-----------------------------------------------------------------------------
(* The gate. *)

Inside(t) == stage[t] \in {"resolve", "rotate", "resolve again"}
HasGate(t) == at[t] # 0

\* A task goes on with a secret in hand; guard and gate are dropped on the way
\* out, and a task that is idle has nothing.
GoesWith(t, s, secret) ==
  /\ stage' = [stage EXCEPT ![t] = s]
  /\ at' = [at EXCEPT ![t] = IF s \in {"resolve", "rotate", "resolve again"} THEN @ ELSE 0]
  /\ job' = [job EXCEPT ![t] = IF s = "idle" THEN None ELSE @]
  /\ seen' = [seen EXCEPT ![t] = IF s = "idle" THEN 0 ELSE secret]
  /\ calledAt' = IF t = Scheduler /\ s = "idle" THEN 0 ELSE calledAt

Goes(t, s) == GoesWith(t, s, seen[t]) /\ news' = [news EXCEPT ![t] = None]

\* gate(): the account's gate, made if it is not there.  A task reads its
\* generation and waits for its lock.
TakeGate(t, kind) ==
  /\ made < MaxGates \/ gate # 0
  /\ made' = IF gate = 0 THEN made + 1 ELSE made
  /\ gate' = IF gate = 0 THEN made + 1 ELSE gate
  /\ at' = [at EXCEPT ![t] = gate']
  /\ job' = [job EXCEPT ![t] = kind]
  /\ stage' = [stage EXCEPT ![t] = "gate"]
  /\ UNCHANGED <<news, seen>>

\* A request resolves the credential: credential_for.
Ask(r) ==
  /\ stage[r] = "idle"
  /\ TakeGate(r, "resolve")
  /\ UNCHANGED <<now, lease, schedule, calledAt, disabled, history>>

\* The upstream refuses the credential: rotate_credential_after_auth_error.
Unauthorized(r) ==
  /\ stage[r] = "using"
  /\ TakeGate(r, "auth")
  /\ UNCHANGED <<now, lease, schedule, calledAt, disabled, history>>

Done(r) ==
  /\ stage[r] = "using"
  /\ Goes(r, "idle")
  /\ UNCHANGED <<now, lease, schedule, gates, disabled, history>>

\* Wrong: the lock is taken only by those who rotate.
Enter_bug(t) ==
  /\ stage[t] = "gate"
  /\ Goes(t, "resolve")
  /\ UNCHANGED <<now, lease, schedule, gates, disabled, history>>

\* A task gets the lock.
Enter(t) ==
  /\ stage[t] = "gate"
  /\ ~\E u \in Tasks : Inside(u) /\ at[u] = at[t]
  /\ \/ /\ job[t] = "auth" => news[t] = None
        /\ Goes(t, "resolve")
     \/ /\ job[t] = "auth" /\ news[t] # None
        /\ Goes(t, IF news[t] = "invalid" THEN "ban" ELSE "idle")
  /\ UNCHANGED <<now, lease, schedule, gates, disabled, history>>

\* The end of a critical section: a new generation, and the outcome for those
\* who wait.
Leave(t, s, result) ==
  /\ GoesWith(t, s, seen[t])
  /\ news' = [u \in Tasks |-> IF u # t /\ at[u] = at[t] THEN result ELSE news[u]]
  /\ UNCHANGED gates

-----------------------------------------------------------------------------
(* resolve *)

ResolveSucceeds(t) ==
  /\ stage[t] = "resolve" /\ job[t] = "resolve"
  /\ Resolves
  /\ Observe(lease', FALSE)
  /\ GoesWith(t, "using", lease'.secret)
  /\ UNCHANGED <<now, gates, news, disabled, forgotten>>

ResolveFails(t) ==
  /\ stage[t] = "resolve" /\ job[t] = "resolve"
  /\ \E s \in {"idle", "disable"} : Goes(t, s)
  /\ UNCHANGED <<now, lease, schedule, gates, disabled, history>>

-----------------------------------------------------------------------------
(* rotate_after_auth_error *)

\* The credential is another one than the one that failed.
AlreadyRenewed(t) ==
  /\ stage[t] = "resolve" /\ job[t] = "auth"
  /\ Resolves /\ lease'.secret # seen[t]
  /\ ObserveRenewed(lease')
  /\ Leave(t, "idle", "renewed")
  /\ UNCHANGED <<now, disabled, forgotten>>

\* It is the same, or the plugin cannot say.
MustRotate(t) ==
  /\ stage[t] = "resolve" /\ job[t] = "auth"
  /\ \/ lease.secret = seen[t] /\ GoesWith(t, "rotate", seen[t])
     \/ GoesWith(t, "rotate", 0)
  /\ UNCHANGED <<now, lease, schedule, gates, news, disabled, history>>

\* resolve says that the credential is invalid.
AuthInvalid(t) ==
  /\ stage[t] = "resolve" /\ job[t] = "auth"
  /\ Leave(t, "ban", "invalid")
  /\ UNCHANGED <<now, lease, schedule, disabled, history>>

\* rotate, or the resolve after it, fails.
AuthFails(t) ==
  /\ stage[t] \in {"rotate", "resolve again"} /\ job[t] = "auth"
  /\ \/ Leave(t, "ban", "invalid") /\ UNCHANGED <<schedule, renewedAt>>
     \/ Leave(t, "idle", "failed") /\ \E hint \in RetryHints : Postpone(hint)
  /\ UNCHANGED <<now, lease, disabled, forgotten>>

AuthRenews(t) ==
  /\ stage[t] = "resolve again" /\ job[t] = "auth"
  /\ Resolves
  /\ ObserveRenewed(lease')
  /\ Leave(t, "idle", "renewed")
  /\ UNCHANGED <<now, disabled, forgotten>>

\* The plugin rotates the credential, for either task.
Rotate(t) ==
  /\ stage[t] = "rotate"
  /\ Renew
  /\ Goes(t, "resolve again")
  /\ UNCHANGED <<now, schedule, gates, disabled, history>>

\* The client leaves, and the request's future is dropped where it waits.  The
\* rotation that it waited for may have happened.
Dropped(r) ==
  /\ HasGate(r)
  /\ \/ stage[r] = "rotate" /\ Renew
     \/ UNCHANGED lease
  /\ Goes(r, "idle")
  /\ UNCHANGED <<now, schedule, gates, disabled, history>>

\* AuthError handling of the attempt loop: the account's row is disabled.
Ban(r) ==
  /\ stage[r] = "ban"
  /\ disabled' = TRUE
  /\ Goes(r, "idle")
  /\ UNCHANGED <<now, lease, schedule, gates, history>>

-----------------------------------------------------------------------------
(* The scheduler. *)

Due == schedule # None /\ schedule.next <= now

\* Wrong: a claim is for good.
Claim_bug ==
  /\ stage[Scheduler] = "idle"
  /\ Due /\ schedule.claim = None
  /\ schedule' = [schedule EXCEPT !.claim = now + Grace]
  /\ Goes(Scheduler, "lookup")
  /\ UNCHANGED <<now, lease, gates, disabled, history>>

\* claim_due
Claim ==
  /\ stage[Scheduler] = "idle"
  /\ Due /\ (schedule.claim # None => schedule.claim <= now)
  /\ schedule' = [schedule EXCEPT !.claim = now + Grace]
  /\ Goes(Scheduler, "lookup")
  /\ UNCHANGED <<now, lease, gates, disabled, history>>

\* refresh_due_credential: the row cannot be read, or the plugin is away.
LookupFails ==
  /\ stage[Scheduler] = "lookup"
  /\ Goes(Scheduler, "idle")
  /\ UNCHANGED <<now, lease, schedule, gates, disabled, history>>

LookupGone ==
  /\ stage[Scheduler] = "lookup"
  /\ disabled
  /\ Goes(Scheduler, "forget")
  /\ UNCHANGED <<now, lease, schedule, gates, disabled, history>>

LookupFound ==
  /\ stage[Scheduler] = "lookup"
  /\ ~disabled
  /\ TakeGate(Scheduler, "scheduled") /\ calledAt' = now
  /\ UNCHANGED <<now, lease, schedule, seen, disabled, history>>

\* rotate_scheduled_at: nothing is left to do, the lease has moved on, or it is
\* to be rotated.
ScheduledResolves ==
  /\ stage[Scheduler] = "resolve"
  /\ Resolves
  /\ LET fresh == FromCredential(lease')
     IN  \/ /\ fresh = None \/ schedule = None
            /\ Observe(lease', TRUE) /\ Goes(Scheduler, "idle")
         \/ /\ fresh # None /\ schedule # None /\ schedule.lease # lease'
            /\ ObserveRenewed(lease') /\ Goes(Scheduler, "idle")
         \/ /\ fresh # None /\ schedule # None /\ schedule.lease = lease'
            /\ schedule.next > calledAt
            /\ Goes(Scheduler, "idle") /\ UNCHANGED <<schedule, renewedAt>>
         \/ /\ fresh # None /\ schedule # None /\ schedule.lease = lease'
            /\ schedule.next <= calledAt
            /\ GoesWith(Scheduler, "rotate", lease'.secret)
            /\ UNCHANGED <<schedule, renewedAt, news>>
  /\ UNCHANGED <<now, gates, disabled, forgotten>>

ScheduledFails ==
  /\ Inside(Scheduler)
  /\ \/ Goes(Scheduler, "disable") /\ UNCHANGED <<schedule, renewedAt>>
     \/ Goes(Scheduler, "idle") /\ \E hint \in RetryHints : Postpone(hint)
  /\ UNCHANGED <<now, lease, gates, disabled, forgotten>>

\* A stored auth result of an earlier 401 says nothing about this credential.
ScheduledRenews ==
  /\ stage[Scheduler] = "resolve again"
  /\ Resolves
  /\ ObserveRenewed(lease')
  /\ Leave(Scheduler, "idle", None)
  /\ UNCHANGED <<now, disabled, forgotten>>

-----------------------------------------------------------------------------
(* disable_invalid_credential *)

\* The row is written, or the write fails.
Disable(t) ==
  /\ stage[t] = "disable"
  /\ \/ disabled' = TRUE /\ Goes(t, "forget")
     \/ Goes(t, "idle") /\ UNCHANGED disabled
  /\ UNCHANGED <<now, lease, schedule, gates, history>>

\* forget
Forget(t) ==
  /\ stage[t] = "forget"
  /\ Reschedule(None)
  /\ gate' = 0
  /\ forgotten' = (forgotten \/ \E u \in Tasks : HasGate(u) /\ at[u] = gate)
  /\ Goes(t, "idle")
  /\ UNCHANGED <<now, lease, made, disabled>>

\* An operator enables the account again.
Enable ==
  /\ disabled
  /\ disabled' = FALSE
  /\ UNCHANGED <<now, lease, schedule, gates, tasks, history>>

Tick ==
  /\ now < MaxTime
  /\ now' = now + 1
  /\ UNCHANGED <<lease, schedule, gates, tasks, disabled, history>>

-----------------------------------------------------------------------------
Init ==
  /\ now = 0
  /\ lease = [secret |-> 1, expires |-> None, after |-> 0]
  /\ schedule = None
  /\ gate = 0 /\ made = 0
  /\ stage = [t \in Tasks |-> "idle"]
  /\ job = [t \in Tasks |-> None]
  /\ at = [t \in Tasks |-> 0]
  /\ news = [t \in Tasks |-> None]
  /\ seen = [t \in Tasks |-> 0]
  /\ calledAt = 0
  /\ disabled = FALSE /\ forgotten = FALSE
  /\ renewedAt = None

Request(r) ==
  \/ Ask(r) \/ Unauthorized(r) \/ Done(r) \/ Dropped(r)
  \/ ResolveSucceeds(r) \/ ResolveFails(r)
  \/ AlreadyRenewed(r) \/ MustRotate(r) \/ AuthInvalid(r) \/ AuthFails(r) \/ AuthRenews(r)
  \/ Ban(r)

Schedule ==
  Claim \/ LookupFails \/ LookupGone \/ LookupFound
  \/ ScheduledResolves \/ ScheduledFails \/ ScheduledRenews

Next ==
  \/ \E r \in Requests : Request(r)
  \/ Schedule
  \/ \E t \in Tasks : Enter(t) \/ Rotate(t) \/ Disable(t) \/ Forget(t)
  \/ Enable
  \/ Tick

Spec == Init /\ [][Next]_vars

\* The refresh loop runs every second, and time passes.
FairSpec == Spec /\ WF_vars(Claim) /\ WF_vars(Tick)

-----------------------------------------------------------------------------
(* Properties. *)

TypeOK ==
  /\ now \in 0..MaxTime
  /\ lease \in Leases /\ lease.secret \in 1..MaxSecrets
  /\ schedule \in Schedules \cup {None}
  /\ made \in 0..MaxGates /\ gate \in 0..made
  /\ stage \in [Tasks -> {"idle", "gate", "resolve", "rotate", "resolve again", "using", "ban",
                          "disable", "forget", "lookup"}]
  /\ at \in [Tasks -> 0..made]
  /\ news \in [Tasks -> {None, "renewed", "failed", "invalid"}]

\* "Proactive and reactive rotation share the coordinator's account-scoped
\* singleflight gate so rotating refresh tokens cannot race": whoever rotates,
\* rotates the secret it has seen, and no newer one.
RotationsDontRace ==
  \A t \in Tasks : stage[t] = "rotate" /\ seen[t] # 0 => lease.secret = seen[t]

\* They race only if the gate was forgotten while somebody had it.
RaceNeedsForget == ~forgotten => RotationsDontRace

RotationWaits ==
  stage[Scheduler] # "rotate" /\ stage'[Scheduler] = "rotate" /\ renewedAt # None
    => now > renewedAt

\* A lease that was renewed is not rotated again by the scheduler in the same
\* instant, whatever timing the plugin gives the lease ("causing a successful rotation
\* to be claimed again on every scheduler tick"), unless since then a rotation has
\* failed and the plugin asked for a retry at once.
NoHotLoop == [][RotationWaits]_vars

\* A lease that is due is attended to, though jobs die with their claim.
DueIsClaimed ==
  Due /\ now + Grace <= MaxTime ~> ~Due \/ stage[Scheduler] # "idle"

\* Tasks, gates and schedule are well-formed, and rotations of the account take turns
\* unless its gate was forgotten while somebody had it.
RotationsTakeTurns == TypeOK /\ RaceNeedsForget
=============================================================================
