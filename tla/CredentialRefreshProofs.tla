----------------------- MODULE CredentialRefreshProofs -----------------------
(***************************************************************************)
(* Proofs about the renewal of a credential, for any number of requests,   *)
(* gates and secrets and any hints of the plugin: rotations take turns     *)
(* while no gate is forgotten under a task, and a lease that was renewed   *)
(* is not rotated again by the scheduler in the same instant, unless the   *)
(* plugin has failed since then and asked for a retry at once.             *)
(***************************************************************************)
EXTENDS CredentialRefresh, TLAPS

InsideStages == {"resolve", "rotate", "resolve again"}
OutsideStages == {"idle", "using", "ban", "disable", "forget", "lookup"}
Stages == InsideStages \cup OutsideStages \cup {"gate"}
News == {None, "renewed", "failed", "invalid"}

GateTypes ==
  /\ lease \in Leases /\ lease.secret \in 1..MaxSecrets
  /\ made \in 0..MaxGates /\ gate \in 0..made
  /\ stage \in [Tasks -> Stages]
  /\ at \in [Tasks -> 0..made]
  /\ seen \in [Tasks -> Nat]
  /\ forgotten \in BOOLEAN

\* A task has a gate exactly while it waits for the lock or has it.
GateIsHeld == \A t \in Tasks : at[t] # 0 <=> stage[t] \in InsideStages \cup {"gate"}

\* A gate's lock is with one task.
LockIsExclusive == \A t, u \in Tasks : Inside(t) /\ Inside(u) /\ at[t] = at[u] => t = u

\* Without a gate forgotten under a task, everybody is at the gate of the map.
OneGate == ~forgotten => \A t \in Tasks : at[t] # 0 => at[t] = gate

GateInv == GateTypes /\ GateIsHeld /\ LockIsExclusive /\ OneGate /\ RaceNeedsForget

\* The clock, the schedule, and what is remembered of its last renewal.
TimeTypes ==
  /\ now \in 0..MaxTime
  /\ schedule \in Schedules \cup {None}
  /\ renewedAt \in Instants
  /\ calledAt \in 0..now

\* A schedule that was renewed is due at a later instant.
RenewedIsLater ==
  renewedAt # None => schedule # None /\ renewedAt <= now /\ schedule.next > renewedAt

TimeInv == TimeTypes /\ RenewedIsLater

IInv == GateInv /\ TimeInv /\ news \in [Tasks -> News]
-----------------------------------------------------------------------------
(* The gate. *)

\* Only a task with the lock may change the lease; only it, or who finds the lock
\* free, goes inside; and who is to rotate has seen the lease.
MayGo(t, s, secret) ==
  /\ s \in Stages \ {"gate"} /\ secret \in Nat
  /\ lease' \in Leases /\ lease'.secret \in 1..MaxSecrets
  /\ lease' # lease => Inside(t)
  /\ s \in InsideStages => \/ Inside(t)
                           \/ /\ stage[t] = "gate"
                              /\ \A u \in Tasks : ~(Inside(u) /\ at[u] = at[t])
  /\ s = "rotate" /\ secret # 0 => lease'.secret = secret

\* A task that moves on keeps the gates in order.
LEMMA MoveKeepsGates ==
  ASSUME NEW t \in Tasks, NEW s, NEW secret, GateInv, GoesWith(t, s, secret),
         MayGo(t, s, secret), gates' = gates, forgotten' = forgotten
  PROVE  GateInv'
<1> USE DEF InsideStages
<1>1. /\ stage' = [stage EXCEPT ![t] = s]
      /\ at' = [at EXCEPT ![t] = IF s \in InsideStages THEN at[t] ELSE 0]
      /\ seen' = [seen EXCEPT ![t] = IF s = "idle" THEN 0 ELSE secret]
      /\ made' = made /\ gate' = gate /\ forgotten' = forgotten
  BY DEF GoesWith, gates
<1>2. /\ stage \in [Tasks -> Stages] /\ at \in [Tasks -> 0..made] /\ seen \in [Tasks -> Nat]
      /\ made \in 0..MaxGates /\ gate \in 0..made /\ MaxGates \in Nat /\ forgotten \in BOOLEAN
  BY CredentialAssumption DEF GateInv, GateTypes
<1>3. /\ stage'[t] = s /\ at'[t] = (IF s \in InsideStages THEN at[t] ELSE 0)
      /\ seen'[t] = (IF s = "idle" THEN 0 ELSE secret)
      /\ \A u \in Tasks : u # t => stage'[u] = stage[u] /\ at'[u] = at[u] /\ seen'[u] = seen[u]
  BY <1>1, <1>2
<1>4. GateTypes'
  <2>1. 0 \in 0..made /\ at[t] \in 0..made
    BY <1>2
  <2>2. at' \in [Tasks -> 0..made'] /\ stage' \in [Tasks -> Stages] /\ seen' \in [Tasks -> Nat]
    BY <1>1, <1>2, <2>1 DEF MayGo
  <2> QED BY <1>1, <1>2, <2>2 DEF GateTypes, MayGo
<1>5. GateIsHeld'
  <2>1. s \in InsideStages => at[t] # 0
    BY DEF GateInv, GateIsHeld, Inside, MayGo
  <2> QED BY <1>3, <2>1 DEF GateInv, GateIsHeld, MayGo
<1>6. LockIsExclusive'
  <2>1. SUFFICES ASSUME NEW u \in Tasks, NEW v \in Tasks, u # v,
                        stage'[u] \in InsideStages, stage'[v] \in InsideStages, at'[u] = at'[v]
                 PROVE  FALSE
    BY DEF LockIsExclusive, Inside
  <2>2. \A x, y \in Tasks : x # y /\ Inside(x) /\ Inside(y) => at[x] # at[y]
    BY DEF GateInv, LockIsExclusive
  <2>3. \A x \in Tasks : x # t /\ stage'[x] \in InsideStages => Inside(x) /\ at'[x] = at[x]
    BY <1>3 DEF Inside
  <2>4. stage'[t] \in InsideStages =>
          /\ at'[t] = at[t]
          /\ Inside(t) \/ \A x \in Tasks : ~(Inside(x) /\ at[x] = at[t])
    BY <1>3 DEF MayGo
  <2> QED BY <2>1, <2>2, <2>3, <2>4
<1>7. OneGate'
  <2>1. \A u \in Tasks : at'[u] # 0 => at'[u] = at[u]
    BY <1>3
  <2> HIDE DEF InsideStages
  <2> QED BY <1>1, <2>1 DEF GateInv, OneGate
<1>8. RaceNeedsForget'
  <2> HIDE DEF InsideStages
  <2>1. SUFFICES ASSUME ~forgotten, NEW u \in Tasks, stage'[u] = "rotate", seen'[u] # 0
                 PROVE  lease'.secret = seen'[u]
    BY <1>1 DEF RaceNeedsForget, RotationsDontRace
  <2>2. CASE u = t
    BY <1>3, <2>1, <2>2 DEF MayGo
  <2>3. CASE u # t
    <3>1. stage[u] = "rotate" /\ seen[u] # 0 /\ seen'[u] = seen[u]
      BY <1>3, <2>1, <2>3
    <3>2. lease.secret = seen[u]
      BY <2>1, <3>1 DEF GateInv, RaceNeedsForget, RotationsDontRace
    <3>3. ~Inside(t)
      BY <2>1, <2>3, <3>1 DEF GateInv, GateIsHeld, LockIsExclusive, OneGate, Inside, InsideStages
    <3> QED BY <3>1, <3>2, <3>3 DEF MayGo
  <2> QED BY <2>2, <2>3
<1> QED BY <1>4, <1>5, <1>6, <1>7, <1>8 DEF GateInv

\* Whoever takes the gate waits there.
LEMMA TakeGateKeepsGates ==
  ASSUME NEW t \in Tasks, NEW kind, GateInv, TakeGate(t, kind), ~Inside(t),
         UNCHANGED <<lease, forgotten>>
  PROVE  GateInv'
<1> USE DEF InsideStages
<1> DEFINE g == IF gate = 0 THEN made + 1 ELSE gate
<1>1. /\ stage' = [stage EXCEPT ![t] = "gate"] /\ at' = [at EXCEPT ![t] = g]
      /\ seen' = seen /\ lease' = lease /\ forgotten' = forgotten /\ gate' = g
      /\ made' = (IF gate = 0 THEN made + 1 ELSE made) /\ (made < MaxGates \/ gate # 0)
  BY DEF TakeGate
<1>2. /\ stage \in [Tasks -> Stages] /\ at \in [Tasks -> 0..made] /\ seen \in [Tasks -> Nat]
      /\ made \in 0..MaxGates /\ gate \in 0..made /\ MaxGates \in Nat
  BY CredentialAssumption DEF GateInv, GateTypes
<1>3. g \in 0..made' /\ g # 0 /\ made' \in 0..MaxGates /\ 0..made \subseteq 0..made'
  BY <1>1, <1>2
<1> HIDE DEF g
<1>4. /\ stage'[t] = "gate" /\ at'[t] = g
      /\ \A u \in Tasks : u # t => stage'[u] = stage[u] /\ at'[u] = at[u]
  BY <1>1, <1>2
<1>5. GateTypes'
  <2>1. at' \in [Tasks -> 0..made'] /\ stage' \in [Tasks -> Stages]
    BY <1>1, <1>2, <1>3 DEF Stages, OutsideStages
  <2> QED BY <1>1, <1>3, <2>1 DEF GateInv, GateTypes
<1>6. GateIsHeld'
  BY <1>3, <1>4 DEF GateInv, GateIsHeld
<1>7. LockIsExclusive'
  BY <1>4 DEF GateInv, LockIsExclusive, Inside
<1>8. OneGate'
  <2>1. SUFFICES ASSUME ~forgotten, NEW u \in Tasks, u # t, at[u] # 0
                 PROVE  at[u] = g
    BY <1>1, <1>4 DEF OneGate
  <2>2. at[u] = gate
    BY <2>1 DEF GateInv, OneGate
  <2> QED BY <2>1, <2>2 DEF g
<1>9. RaceNeedsForget'
  BY <1>1, <1>4 DEF GateInv, RaceNeedsForget, RotationsDontRace
<1> QED BY <1>5, <1>6, <1>7, <1>8, <1>9 DEF GateInv

\* A gate that is forgotten while nobody is at it leaves everybody without one.
LEMMA ForgetKeepsGates ==
  ASSUME NEW t \in Tasks, GateInv, Forget(t)
  PROVE  GateInv'
<1> USE DEF InsideStages
<1>1. /\ stage[t] = "forget" /\ stage' = [stage EXCEPT ![t] = "idle"]
      /\ at' = [at EXCEPT ![t] = 0] /\ seen' = [seen EXCEPT ![t] = 0]
      /\ gate' = 0 /\ made' = made /\ lease' = lease
      /\ forgotten' = (forgotten \/ \E u \in Tasks : at[u] # 0 /\ at[u] = gate)
  BY DEF Forget, Goes, GoesWith, HasGate
<1>2. /\ stage \in [Tasks -> Stages] /\ at \in [Tasks -> 0..made] /\ seen \in [Tasks -> Nat]
      /\ made \in 0..MaxGates /\ MaxGates \in Nat /\ forgotten \in BOOLEAN
  BY CredentialAssumption DEF GateInv, GateTypes
<1>3. /\ stage'[t] = "idle" /\ at'[t] = 0
      /\ \A u \in Tasks : u # t => stage'[u] = stage[u] /\ at'[u] = at[u] /\ seen'[u] = seen[u]
  BY <1>1, <1>2
<1>4. GateTypes'
  <2>1. 0 \in 0..made
    BY <1>2
  <2>2. forgotten' \in BOOLEAN
    BY <1>1, <1>2
  <2>3. /\ stage' \in [Tasks -> Stages] /\ at' \in [Tasks -> 0..made']
        /\ seen' \in [Tasks -> Nat]
    BY <1>1, <1>2, <2>1 DEF Stages, OutsideStages
  <2> QED BY <1>1, <1>2, <2>1, <2>2, <2>3 DEF GateInv, GateTypes
<1>5. GateIsHeld'
  BY <1>3 DEF GateInv, GateIsHeld
<1>6. LockIsExclusive'
  BY <1>3 DEF GateInv, LockIsExclusive, Inside
<1>7. ~forgotten' => ~forgotten /\ \A u \in Tasks : at[u] = 0
  BY <1>1 DEF GateInv, OneGate
<1>8. OneGate'
  BY <1>3, <1>7 DEF OneGate
<1>9. RaceNeedsForget'
  BY <1>1, <1>3, <1>7 DEF GateInv, RaceNeedsForget, RotationsDontRace
<1> QED BY <1>4, <1>5, <1>6, <1>8, <1>9 DEF GateInv

\* What the plugin issues is a credential with the next secret.
LEMMA IssuedIsLease ==
  ASSUME GateTypes, now \in Nat, lease' = lease \/ Renew
  PROVE  lease' \in Leases /\ lease'.secret \in 1..MaxSecrets
<1>1. CASE lease' = lease
  BY <1>1 DEF GateTypes
<1>2. CASE Renew
  <2>1. PICK h \in Hints :
          lease' = [secret |-> lease.secret + 1,
                    expires |-> IF h[1] = None THEN None ELSE now + h[1],
                    after |-> IF h[2] = None THEN None ELSE now + h[2]]
    BY <1>2 DEF Renew, Issued
  <2>2. h[1] \in Instants /\ h[2] \in Instants
    BY CredentialAssumption
  <2>3. /\ (IF h[1] = None THEN None ELSE now + h[1]) \in Instants
        /\ (IF h[2] = None THEN None ELSE now + h[2]) \in Instants
    BY <2>2 DEF Instants
  <2>4. lease.secret \in 1..MaxSecrets /\ lease.secret < MaxSecrets /\ MaxSecrets \in Nat
    BY <1>2, CredentialAssumption DEF Renew, GateTypes
  <2>5. lease.secret + 1 \in 1..MaxSecrets /\ lease.secret + 1 \in Nat
    BY <2>4
  <2> QED BY <2>1, <2>3, <2>5 DEF Leases
<1> QED BY <1>1, <1>2

\* Every step of a request, of the scheduler or of either keeps the gates in order.
LEMMA GateStep ==
  ASSUME GateInv, TimeTypes, [Next]_vars
  PROVE  GateInv'
<1>t. now \in Nat /\ GateTypes /\ lease \in Leases /\ lease.secret \in 1..MaxSecrets
  BY CredentialAssumption DEF TimeTypes, GateInv, GateTypes
<1>s. ASSUME NEW t \in Tasks PROVE seen[t] \in Nat
  BY <1>t DEF GateTypes
<1>0. Scheduler \in Tasks /\ Requests \subseteq Tasks
  BY DEF Tasks
<1>u. ASSUME UNCHANGED <<lease, gates, stage, at, seen, forgotten>>
      PROVE  GateInv'
  <2>1. /\ lease' = lease /\ gate' = gate /\ made' = made /\ stage' = stage /\ at' = at
        /\ seen' = seen /\ forgotten' = forgotten
    BY <1>u DEF gates
  <2>2. GateTypes' /\ GateIsHeld'
    BY <2>1 DEF GateInv, GateTypes, GateIsHeld
  <2>3. LockIsExclusive' /\ OneGate' /\ RaceNeedsForget'
    BY <2>1 DEF GateInv, LockIsExclusive, Inside, OneGate, RaceNeedsForget, RotationsDontRace
  <2> QED BY <2>2, <2>3 DEF GateInv
<1>g. ASSUME NEW t \in Tasks, NEW s \in OutsideStages, NEW secret \in Nat,
             GoesWith(t, s, secret), gates' = gates, forgotten' = forgotten,
             lease' = lease \/ (Inside(t) /\ Renew)
      PROVE  GateInv'
  <2>1. lease' \in Leases /\ lease'.secret \in 1..MaxSecrets /\ (lease' # lease => Inside(t))
    BY <1>g, <1>t, IssuedIsLease
  <2>2. s \notin InsideStages /\ s # "rotate" /\ s \in Stages \ {"gate"}
    BY DEF InsideStages, OutsideStages, Stages
  <2>3. MayGo(t, s, secret)
    BY <2>1, <2>2 DEF MayGo
  <2> QED BY <1>g, <2>3, MoveKeepsGates
<1>i. ASSUME NEW t \in Tasks, NEW s \in InsideStages, NEW secret \in Nat,
             GoesWith(t, s, secret), gates' = gates, forgotten' = forgotten, Inside(t),
             lease' = lease \/ Renew, s = "rotate" /\ secret # 0 => lease'.secret = secret
      PROVE  GateInv'
  <2>1. lease' \in Leases /\ lease'.secret \in 1..MaxSecrets
    BY <1>i, <1>t, IssuedIsLease
  <2>2. s \in Stages \ {"gate"}
    BY DEF InsideStages, OutsideStages, Stages
  <2>3. MayGo(t, s, secret)
    BY <1>i, <2>1, <2>2 DEF MayGo
  <2> QED BY <1>i, <2>3, MoveKeepsGates
<1>q. {"idle", "using", "ban"} \subseteq OutsideStages
  BY DEF OutsideStages
<1>a. ASSUME NEW r \in Requests, Ask(r) \/ Unauthorized(r) PROVE GateInv'
  <2>1. r \in Tasks /\ ~Inside(r) /\ UNCHANGED <<lease, forgotten>>
        /\ (TakeGate(r, "resolve") \/ TakeGate(r, "auth"))
    BY <1>a, <1>0 DEF Ask, Unauthorized, history, Inside
  <2> QED BY <2>1, TakeGateKeepsGates
<1>b. ASSUME NEW r \in Requests, Done(r) \/ ResolveFails(r) \/ Ban(r) PROVE GateInv'
  <2>1. PICK s \in OutsideStages : Goes(r, s)
    BY <1>b DEF Done, ResolveFails, Ban, OutsideStages
  <2>2. gates' = gates /\ forgotten' = forgotten /\ lease' = lease
    BY <1>b DEF Done, ResolveFails, Ban, history
  <2>3. GoesWith(r, s, seen[r]) /\ r \in Tasks /\ seen[r] \in Nat
    BY <1>0, <1>s, <2>1 DEF Goes
  <2> QED BY <1>g, <1>q, <2>1, <2>2, <2>3
<1>c. ASSUME NEW r \in Requests, Dropped(r) PROVE GateInv'
  <2>1. GoesWith(r, "idle", seen[r]) /\ r \in Tasks /\ seen[r] \in Nat
    BY <1>c, <1>0, <1>s DEF Dropped, Goes
  <2>2. gates' = gates /\ forgotten' = forgotten /\ (lease' = lease \/ (Inside(r) /\ Renew))
    BY <1>c DEF Dropped, history, Inside
  <2> QED BY <1>g, <1>q, <2>1, <2>2
<1>d. ASSUME NEW r \in Requests, ResolveSucceeds(r) PROVE GateInv'
  <2>1. GoesWith(r, "using", lease'.secret) /\ r \in Tasks /\ Inside(r)
    BY <1>d, <1>0 DEF ResolveSucceeds, Inside
  <2>2. gates' = gates /\ forgotten' = forgotten /\ (lease' = lease \/ (Inside(r) /\ Renew))
    BY <1>d, <2>1 DEF ResolveSucceeds, Resolves
  <2>3. lease'.secret \in Nat
    BY <1>t, <2>2, IssuedIsLease, CredentialAssumption
  <2> QED BY <1>g, <1>q, <2>1, <2>2, <2>3
<1>e. ASSUME NEW r \in Tasks, NEW s \in OutsideStages, NEW result, Leave(r, s, result),
             Inside(r), lease' = lease \/ Renew, forgotten' = forgotten
      PROVE  GateInv'
  <2>1. GoesWith(r, s, seen[r]) /\ seen[r] \in Nat /\ gates' = gates /\ forgotten' = forgotten
    BY <1>e, <1>s DEF Leave, gates
  <2> QED BY <1>e, <1>g, <1>q, <2>1
<1>f. ASSUME NEW r \in Requests,
             AlreadyRenewed(r) \/ AuthInvalid(r) \/ AuthFails(r) \/ AuthRenews(r)
      PROVE  GateInv'
  <2>1. r \in Tasks /\ Inside(r) /\ forgotten' = forgotten /\ (lease' = lease \/ Renew)
    BY <1>f, <1>0 DEF AlreadyRenewed, AuthInvalid, AuthFails, AuthRenews, Resolves, Inside, history
  <2>2. Leave(r, "idle", "renewed") \/ Leave(r, "ban", "invalid") \/ Leave(r, "idle", "failed")
    BY <1>f DEF AlreadyRenewed, AuthInvalid, AuthFails, AuthRenews
  <2> QED BY <1>e, <1>q, <2>1, <2>2
<1>h. ASSUME NEW r \in Requests, MustRotate(r) PROVE GateInv'
  <2>1. /\ r \in Tasks /\ Inside(r) /\ gates' = gates /\ forgotten' = forgotten /\ lease' = lease
        /\ seen[r] \in Nat /\ 0 \in Nat
    BY <1>h, <1>0, <1>s DEF MustRotate, Inside, history
  <2>2. \/ lease.secret = seen[r] /\ GoesWith(r, "rotate", seen[r])
        \/ GoesWith(r, "rotate", 0)
    BY <1>h DEF MustRotate
  <2>3. "rotate" \in InsideStages
    BY DEF InsideStages
  <2> QED BY <1>i, <2>1, <2>2, <2>3
<1>j. ASSUME Claim \/ LookupFails \/ LookupGone PROVE GateInv'
  <2>1. PICK s \in OutsideStages : Goes(Scheduler, s)
    BY <1>j DEF Claim, LookupFails, LookupGone, OutsideStages
  <2>2. gates' = gates /\ forgotten' = forgotten /\ lease' = lease
    BY <1>j DEF Claim, LookupFails, LookupGone, history
  <2>3. GoesWith(Scheduler, s, seen[Scheduler]) /\ seen[Scheduler] \in Nat
    BY <1>0, <1>s, <2>1 DEF Goes
  <2> QED BY <1>g, <1>q, <1>0, <2>1, <2>2, <2>3
<1>k. ASSUME LookupFound PROVE GateInv'
  <2>1. ~Inside(Scheduler) /\ UNCHANGED <<lease, forgotten>> /\ TakeGate(Scheduler, "scheduled")
    BY <1>k DEF LookupFound, history, Inside
  <2> QED BY <1>0, <2>1, TakeGateKeepsGates
<1>l. ASSUME ScheduledResolves PROVE GateInv'
  <2>1. Inside(Scheduler) /\ gates' = gates /\ forgotten' = forgotten /\ (lease' = lease \/ Renew)
    BY <1>l DEF ScheduledResolves, Resolves, Inside
  <2>2. Goes(Scheduler, "idle") \/ GoesWith(Scheduler, "rotate", lease'.secret)
    BY <1>l DEF ScheduledResolves
  <2>3. lease'.secret \in Nat /\ seen[Scheduler] \in Nat /\ "rotate" \in InsideStages
    BY <1>t, <1>0, <1>s, <2>1, IssuedIsLease, CredentialAssumption DEF InsideStages
  <2>4. Goes(Scheduler, "idle") => GoesWith(Scheduler, "idle", seen[Scheduler])
    BY DEF Goes
  <2> QED BY <1>g, <1>i, <1>q, <1>0, <2>1, <2>2, <2>3, <2>4
<1>m. ASSUME ScheduledFails PROVE GateInv'
  <2>1. PICK s \in OutsideStages : Goes(Scheduler, s)
    BY <1>m DEF ScheduledFails, OutsideStages
  <2>2. gates' = gates /\ forgotten' = forgotten /\ lease' = lease
    BY <1>m DEF ScheduledFails
  <2>3. GoesWith(Scheduler, s, seen[Scheduler]) /\ seen[Scheduler] \in Nat
    BY <1>0, <1>s, <2>1 DEF Goes
  <2> QED BY <1>g, <1>q, <1>0, <2>1, <2>2, <2>3
<1>n. ASSUME ScheduledRenews PROVE GateInv'
  <2>1. /\ Inside(Scheduler) /\ forgotten' = forgotten /\ (lease' = lease \/ Renew)
        /\ Leave(Scheduler, "idle", None)
    BY <1>n DEF ScheduledRenews, Resolves, Inside
  <2> QED BY <1>e, <1>q, <1>0, <2>1
<1>o. ASSUME NEW t \in Tasks, Enter(t) PROVE GateInv'
  <2>1. /\ stage[t] = "gate" /\ \A u \in Tasks : ~(Inside(u) /\ at[u] = at[t])
        /\ gates' = gates /\ forgotten' = forgotten /\ lease' = lease
    BY <1>o DEF Enter, history
  <2>2. PICK s \in {"resolve", "ban", "idle"} : Goes(t, s)
    BY <1>o DEF Enter
  <2>3. GoesWith(t, s, seen[t]) /\ seen[t] \in Nat
    BY <1>s, <2>2 DEF Goes
  <2>4. s \in Stages \ {"gate"} /\ s # "rotate"
    BY <2>2 DEF Stages, InsideStages, OutsideStages
  <2>5. MayGo(t, s, seen[t])
    BY <1>t, <2>1, <2>3, <2>4 DEF MayGo
  <2> QED BY <2>1, <2>3, <2>5, MoveKeepsGates
<1>p. ASSUME NEW t \in Tasks, Rotate(t) PROVE GateInv'
  <2>1. /\ Inside(t) /\ Renew /\ gates' = gates /\ forgotten' = forgotten
        /\ GoesWith(t, "resolve again", seen[t]) /\ seen[t] \in Nat
        /\ "resolve again" \in InsideStages
    BY <1>p, <1>s DEF Rotate, Goes, Inside, history, InsideStages
  <2> QED BY <1>i, <2>1
<1>r. ASSUME NEW t \in Tasks, Disable(t) PROVE GateInv'
  <2>1. PICK s \in OutsideStages : Goes(t, s)
    BY <1>r DEF Disable, OutsideStages
  <2>2. gates' = gates /\ forgotten' = forgotten /\ lease' = lease
    BY <1>r DEF Disable, history
  <2>3. GoesWith(t, s, seen[t]) /\ seen[t] \in Nat
    BY <1>s, <2>1 DEF Goes
  <2> QED BY <1>g, <1>q, <2>1, <2>2, <2>3
<1>v. ASSUME Enable \/ Tick \/ UNCHANGED vars PROVE GateInv'
  BY <1>u, <1>v DEF Enable, Tick, vars, tasks, history
<1>1. CASE \E r \in Requests : Request(r)
  BY <1>1, <1>a, <1>b, <1>c, <1>d, <1>f, <1>h DEF Request
<1>2. CASE Schedule
  BY <1>2, <1>j, <1>k, <1>l, <1>m, <1>n DEF Schedule
<1>3. CASE \E t \in Tasks : Enter(t) \/ Rotate(t) \/ Disable(t) \/ Forget(t)
  BY <1>3, <1>o, <1>p, <1>r, ForgetKeepsGates
<1> QED BY <1>1, <1>2, <1>3, <1>v DEF Next
-----------------------------------------------------------------------------
(* The schedule. *)

\* A schedule made from a credential is a schedule, and it has failed nowhere.
LEMMA FromCredentialType ==
  ASSUME NEW c \in Leases, now \in Nat
  PROVE  FromCredential(c) \in Schedules \cup {None}
<1>1. CASE c.after = None /\ c.expires = None
  BY <1>1 DEF FromCredential
<1>2. CASE ~(c.after = None /\ c.expires = None)
  <2> DEFINE left == Later(c.expires - now, 0)
             requested == IF c.after # None THEN c.after ELSE c.expires - Sooner(left \div 2, Lead)
  <2>1. requested \in Int
    <3>1. c.after \in Instants /\ c.expires \in Instants /\ Lead \in Nat
      BY CredentialAssumption DEF Leases
    <3>2. CASE c.after # None
      BY <3>1, <3>2 DEF Instants
    <3>3. CASE c.after = None
      <4>1. c.expires \in Nat
        BY <1>2, <3>1, <3>3 DEF Instants
      <4>2. left \in Nat
        BY <4>1 DEF Later
      <4> HIDE DEF left
      <4>3. left \div 2 \in Int
        BY <4>2
      <4>4. Sooner(left \div 2, Lead) \in Int
        BY <3>1, <4>3 DEF Sooner
      <4> QED BY <3>3, <4>1, <4>4
    <3> QED BY <3>2, <3>3
  <2>2. FromCredential(c) = [next |-> Later(requested, now), failures |-> 0, lease |-> c, claim |-> None]
    BY <1>2 DEF FromCredential
  <2> HIDE DEF requested
  <2>3. Later(requested, now) \in Nat
    BY <2>1 DEF Later
  <2>4. None \in Instants /\ 0 \in 0..2
    BY DEF Instants
  <2> QED BY <2>2, <2>3, <2>4 DEF Schedules
<1> QED BY <1>1, <1>2

\* A schedule may be changed field by field.
LEMMA NextField ==
  ASSUME NEW d \in Schedules, NEW n \in Nat
  PROVE  [d EXCEPT !.next = n] \in Schedules /\ [d EXCEPT !.next = n].next = n
BY DEF Schedules

LEMMA ClaimField ==
  ASSUME NEW d \in Schedules, NEW k \in Instants
  PROVE  [d EXCEPT !.claim = k] \in Schedules /\ [d EXCEPT !.claim = k].next = d.next
BY DEF Schedules

LEMMA RetryFields ==
  ASSUME NEW d \in Schedules, NEW n \in Nat, NEW f \in 0..2
  PROVE  /\ [d EXCEPT !.next = n, !.failures = f] \in Schedules
         /\ [d EXCEPT !.next = n, !.failures = f].next = n
BY DEF Schedules

\* What store_schedule stores: a schedule that was renewed is due later than now, and
\* one of a lease that was known is due when it was or later than now.
LEMMA StoredIsLater ==
  ASSUME NEW c \in Leases, NEW reset \in BOOLEAN, NEW renewed \in BOOLEAN,
         now \in Nat, schedule \in Schedules \cup {None}
  PROVE  /\ Stored(c, reset, renewed) \in Schedules \cup {None}
         /\ Stored(c, reset, renewed) # None =>
              /\ renewed => Stored(c, reset, renewed).next > now
              /\ schedule # None => \/ Stored(c, reset, renewed).next > now
                                    \/ Stored(c, reset, renewed).next = schedule.next
<1> DEFINE fresh == FromCredential(c)
           timing == schedule.lease.expires = c.expires /\ schedule.lease.after = c.after
           secret == schedule.lease.secret = c.secret
           kept == IF schedule = None THEN fresh
                   ELSE IF timing
                   THEN [fresh EXCEPT !.next = schedule.next,
                                      !.failures = IF reset THEN 0 ELSE schedule.failures,
                                      !.claim = IF ~reset /\ secret THEN schedule.claim ELSE None]
                   ELSE IF ~reset /\ schedule.failures > 0
                   THEN [fresh EXCEPT !.next = Later(fresh.next, schedule.next),
                                      !.failures = schedule.failures]
                   ELSE fresh
           changed == schedule # None /\ (timing => ~secret)
           floor == IF c.expires # None /\ c.expires > now
                      THEN Sooner(now + MinInterval, c.expires) ELSE now + MinInterval
           stored == Stored(c, reset, renewed)
<1>1. stored = IF fresh = None THEN None
               ELSE IF (changed \/ renewed) /\ kept.next <= now
               THEN [kept EXCEPT !.next = floor] ELSE kept
  BY DEF Stored
<1>2. floor \in Nat /\ floor > now
  <2>1. c.expires \in Instants /\ MinInterval \in Nat \ {0}
    BY CredentialAssumption DEF Leases
  <2>2. c.expires # None => c.expires \in Nat
    BY <2>1 DEF Instants
  <2>3. now + MinInterval \in Nat /\ now + MinInterval > now
    BY <2>1
  <2> QED BY <2>2, <2>3 DEF Sooner
<1>3. CASE fresh = None
  BY <1>1, <1>3
<1>4. CASE fresh # None
  <2>1. fresh \in Schedules
    BY <1>4, FromCredentialType
  <2>2. kept \in Schedules /\ (schedule # None /\ timing => kept.next = schedule.next)
    <3>1. CASE schedule = None
      BY <2>1, <3>1
    <3>2. CASE schedule # None
      <4>1. /\ schedule \in Schedules /\ schedule.next \in Nat /\ schedule.failures \in 0..2
            /\ schedule.claim \in Instants /\ fresh.next \in Nat /\ None \in Instants /\ 0 \in 0..2
        BY <2>1, <3>2 DEF Schedules, Instants
      <4> HIDE DEF fresh
      <4>2. /\ (IF reset THEN 0 ELSE schedule.failures) \in 0..2
            /\ (IF ~reset /\ secret THEN schedule.claim ELSE None) \in Instants
            /\ Later(fresh.next, schedule.next) \in Nat
        BY <4>1 DEF Later
      <4>3. CASE timing
        <5> DEFINE f == IF reset THEN 0 ELSE schedule.failures
                   k == IF ~reset /\ secret THEN schedule.claim ELSE None
                   n == schedule.next
        <5>1. kept = [fresh EXCEPT !.next = n, !.failures = f, !.claim = k]
          BY <3>2, <4>3
        <5>2. f \in 0..2 /\ k \in Instants /\ n \in Nat /\ fresh \in Schedules
          BY <2>1, <4>1, <4>2
        <5> HIDE DEF f, k, n, kept
        <5>3. kept \in Schedules /\ kept.next = n
          BY <5>1, <5>2 DEF Schedules
        <5> QED BY <5>3 DEF n
      <4>4. CASE ~timing /\ ~reset /\ schedule.failures > 0
        <5>1. kept = [fresh EXCEPT !.next = Later(fresh.next, schedule.next),
                                   !.failures = schedule.failures]
          BY <3>2, <4>4
        <5> QED BY <2>1, <4>1, <4>2, <4>4, <5>1, RetryFields
      <4>5. CASE ~timing /\ ~(~reset /\ schedule.failures > 0)
        BY <2>1, <3>2, <4>5
      <4> QED BY <4>3, <4>4, <4>5
    <3> QED BY <3>1, <3>2
  <2>3. stored = IF (changed \/ renewed) /\ kept.next <= now
                   THEN [kept EXCEPT !.next = floor] ELSE kept
    BY <1>1, <1>4
  <2>4. kept.next \in Nat /\ (~changed /\ schedule # None => timing)
    BY <2>2 DEF Schedules
  <2> HIDE DEF kept, floor, fresh, timing, changed, stored
  <2>5. CASE (changed \/ renewed) /\ kept.next <= now
    <3>1. stored \in Schedules /\ stored.next = floor
      BY <1>2, <2>2, <2>3, <2>5, NextField
    <3> QED BY <1>2, <3>1 DEF stored
  <2>6. CASE ~((changed \/ renewed) /\ kept.next <= now)
    <3>1. stored = kept
      BY <2>3, <2>6
    <3>2. (changed \/ renewed) => kept.next > now
      BY <2>4, <2>6
    <3> QED BY <2>2, <2>4, <3>1, <3>2 DEF stored
  <2> QED BY <2>5, <2>6
<1> QED BY <1>3, <1>4

\* A failure is retried later than now, unless the plugin asks for it at once.
LEMMA FailedIsLater ==
  ASSUME now \in Nat, schedule \in Schedules \cup {None}, NEW hint \in RetryHints
  PROVE  /\ Failed(hint) \in Schedules
         /\ hint # 0 => Failed(hint).next > now
<1> DEFINE none == [next |-> now, failures |-> 0, claim |-> None,
                    lease |-> [secret |-> 0, expires |-> None, after |-> None]]
           known == IF schedule # None THEN schedule ELSE none
           backoff == RetryAfter(known.failures, hint)
<1>1. none \in Schedules
  <2>1. None \in Instants /\ 0 \in 0..2
    BY DEF Instants
  <2>2. [secret |-> 0, expires |-> None, after |-> None] \in Leases
    BY <2>1 DEF Leases
  <2> QED BY <2>1, <2>2 DEF Schedules
<1>2. known \in Schedules
  BY <1>1
<1>3. Failed(hint) = [known EXCEPT !.failures = Sooner(@ + 1, 2), !.next = now + backoff, !.claim = None]
  BY DEF Failed
<1> HIDE DEF known
<1>4. known.failures \in 0..2
  BY <1>2 DEF Schedules
<1>5. /\ Sooner(known.failures + 1, 2) \in 0..2 /\ now + backoff \in Nat
      /\ hint # 0 => now + backoff > now
  <2>1. Retry \in Nat \ {0} /\ MaxRetry \in Nat \ {0} /\ hint \in Nat \cup {None}
    BY CredentialAssumption DEF Instants
  <2>2. backoff \in Nat /\ (hint # 0 => backoff > 0)
    <3>1. CASE hint = None
      BY <2>1, <3>1 DEF RetryAfter, Sooner
    <3>2. CASE hint # None
      BY <2>1, <3>2 DEF RetryAfter, Sooner
    <3> QED BY <3>1, <3>2
  <2> HIDE DEF backoff
  <2>3. Sooner(known.failures + 1, 2) \in 0..2
    BY <1>4 DEF Sooner
  <2> QED BY <2>2, <2>3
<1>6. None \in Instants
  BY DEF Instants
<1> DEFINE f == Sooner(known.failures + 1, 2)
           n == now + backoff
           new == [known EXCEPT !.failures = f, !.next = n, !.claim = None]
<1>7. Failed(hint) = new
  BY <1>3
<1>8. f \in 0..2 /\ n \in Nat /\ (hint # 0 => n > now)
  BY <1>5
<1> HIDE DEF f, n, backoff, none
<1>9. new \in Schedules /\ new.next = n
  <2>1. f \in 0..2 /\ n \in Nat
    BY <1>8
  <2> QED BY <1>2, <1>6, <2>1 DEF Schedules
<1> HIDE DEF new
<1> QED BY <1>7, <1>8, <1>9

\* What stays, and what the schedule may become.
LEMMA SameTime ==
  ASSUME TimeInv, now' = now, schedule' = schedule, renewedAt' = renewedAt, calledAt' \in 0..now
  PROVE  TimeInv'
BY DEF TimeInv, TimeTypes, RenewedIsLater

LEMMA ObserveKeepsTime ==
  ASSUME TimeInv, NEW c \in Leases, NEW reset \in BOOLEAN, Observe(c, reset),
         now' = now, calledAt' \in 0..now
  PROVE  TimeInv'
<1> DEFINE stored == Stored(c, reset, FALSE)
<1>1. schedule' = stored /\ renewedAt' = (IF stored = None THEN None ELSE renewedAt)
  BY DEF Observe, Reschedule
<1>2. /\ now \in 0..MaxTime /\ now \in Nat /\ schedule \in Schedules \cup {None}
      /\ renewedAt \in Instants
  BY CredentialAssumption DEF TimeInv, TimeTypes
<1>3. /\ stored \in Schedules \cup {None}
      /\ stored # None => (schedule # None => stored.next > now \/ stored.next = schedule.next)
  BY <1>2, StoredIsLater
<1> HIDE DEF stored
<1>4. TimeTypes'
  BY <1>1, <1>2, <1>3 DEF TimeTypes, Instants
<1>5. RenewedIsLater'
  <2>1. SUFFICES ASSUME stored # None, renewedAt # None
                 PROVE  renewedAt <= now /\ stored.next > renewedAt
    BY <1>1 DEF RenewedIsLater
  <2>2. schedule # None /\ renewedAt <= now /\ schedule.next > renewedAt /\ renewedAt \in Nat
    BY <1>2, <2>1 DEF TimeInv, RenewedIsLater, Instants
  <2>3. stored.next \in Nat
    BY <1>3, <2>1 DEF Schedules
  <2> QED BY <1>2, <1>3, <2>1, <2>2, <2>3
<1> QED BY <1>4, <1>5 DEF TimeInv

LEMMA ObserveRenewedKeepsTime ==
  ASSUME TimeInv, NEW c \in Leases, ObserveRenewed(c), now' = now, calledAt' \in 0..now
  PROVE  TimeInv'
<1> DEFINE stored == Stored(c, TRUE, TRUE)
<1>1. schedule' = stored /\ renewedAt' = (IF stored = None THEN None ELSE now)
  BY DEF ObserveRenewed
<1>2. now \in 0..MaxTime /\ now \in Nat /\ schedule \in Schedules \cup {None}
  BY CredentialAssumption DEF TimeInv, TimeTypes
<1>3. stored \in Schedules \cup {None} /\ (stored # None => stored.next > now)
  BY <1>2, StoredIsLater
<1> HIDE DEF stored
<1>4. TimeTypes'
  BY <1>1, <1>2, <1>3 DEF TimeTypes, Instants
<1>5. RenewedIsLater'
  BY <1>1, <1>2, <1>3 DEF RenewedIsLater
<1> QED BY <1>4, <1>5 DEF TimeInv

LEMMA FailureKeepsTime ==
  ASSUME TimeInv, NEW hint \in RetryHints, Postpone(hint), now' = now, calledAt' \in 0..now
  PROVE  TimeInv'
<1>1. schedule' = Failed(hint) /\ renewedAt' = (IF hint = 0 THEN None ELSE renewedAt)
  BY DEF Postpone
<1>2. /\ now \in 0..MaxTime /\ now \in Nat /\ schedule \in Schedules \cup {None}
      /\ renewedAt \in Instants
  BY CredentialAssumption DEF TimeInv, TimeTypes
<1>3. /\ Failed(hint) \in Schedules /\ Failed(hint).next \in Nat
      /\ hint # 0 => Failed(hint).next > now
  BY <1>2, FailedIsLater DEF Schedules
<1>4. TimeTypes'
  BY <1>1, <1>2, <1>3 DEF TimeTypes, Instants
<1>5. RenewedIsLater'
  <2>1. SUFFICES ASSUME hint # 0, renewedAt # None
                 PROVE  Failed(hint) # None /\ renewedAt <= now /\ Failed(hint).next > renewedAt
    BY <1>1 DEF RenewedIsLater
  <2>2. renewedAt <= now /\ renewedAt \in Nat
    BY <1>2, <2>1 DEF TimeInv, RenewedIsLater, Instants
  <2>3. Failed(hint) # None
    BY <1>3, CredentialAssumption
  <2> QED BY <1>2, <1>3, <2>1, <2>2, <2>3
<1> QED BY <1>4, <1>5 DEF TimeInv

\* A task that goes on remembers when the scheduler called, or forgets it.
LEMMA GoingKeepsCall ==
  ASSUME TimeTypes, NEW t, NEW s, NEW secret, GoesWith(t, s, secret)
  PROVE  calledAt' \in 0..now
<1>1. calledAt' = IF t = Scheduler /\ s = "idle" THEN 0 ELSE calledAt
  BY DEF GoesWith
<1>2. now \in Nat /\ calledAt \in 0..now
  BY CredentialAssumption DEF TimeTypes
<1>3. 0 \in 0..now
  BY <1>2
<1> QED BY <1>1, <1>2, <1>3

\* Only the scheduler itself starts its rotation.
LEMMA OthersDontRotate ==
  ASSUME GateTypes, NEW t \in Tasks, NEW s, t # Scheduler \/ s # "rotate",
         stage' = [stage EXCEPT ![t] = s]
  PROVE  RotationWaits
<1>1. stage' = [stage EXCEPT ![t] = s] /\ stage \in [Tasks -> Stages] /\ Scheduler \in Tasks
  BY DEF GateTypes, Tasks
<1>2. stage'[Scheduler] = "rotate" => stage[Scheduler] = "rotate"
  BY <1>1
<1> QED BY <1>2 DEF RotationWaits

\* Every step keeps the schedule in order, and a rotation of the scheduler waits.
LEMMA TimeStep ==
  ASSUME IInv, [Next]_vars
  PROVE  TimeInv' /\ (RotationWaits \/ UNCHANGED vars)
<1>t. /\ TimeInv /\ TimeTypes /\ GateTypes /\ now \in Nat /\ calledAt \in 0..now
      /\ lease \in Leases
  BY CredentialAssumption DEF IInv, TimeInv, TimeTypes, GateInv, GateTypes
<1>0. Scheduler \in Tasks /\ Requests \subseteq Tasks /\ \A r \in Requests : r # Scheduler
  BY CredentialAssumption DEF Tasks
<1>l. Resolves => lease' \in Leases
  <2>1. Resolves => lease' = lease \/ Renew
    BY DEF Resolves
  <2> QED BY <1>t, <2>1, IssuedIsLease
<1>g. ASSUME NEW t \in Tasks, NEW s, NEW secret, GoesWith(t, s, secret),
             t # Scheduler \/ s # "rotate"
      PROVE  calledAt' \in 0..now /\ RotationWaits
  <2>1. stage' = [stage EXCEPT ![t] = s]
    BY <1>g DEF GoesWith
  <2> QED BY <1>g, <1>t, <2>1, GoingKeepsCall, OthersDontRotate
<1>h. ASSUME NEW t \in Tasks, NEW s, Goes(t, s), s # "rotate"
      PROVE  calledAt' \in 0..now /\ RotationWaits
  BY <1>g, <1>h DEF Goes
<1>a. ASSUME NEW r \in Requests, Ask(r) \/ Unauthorized(r) PROVE TimeInv' /\ RotationWaits
  <2>1. /\ stage' = [stage EXCEPT ![r] = "gate"] /\ now' = now /\ schedule' = schedule
        /\ renewedAt' = renewedAt /\ calledAt' = calledAt
    BY <1>a DEF Ask, Unauthorized, TakeGate, history
  <2> QED BY <1>t, <1>0, <2>1, SameTime, OthersDontRotate
<1>b. ASSUME NEW r \in Requests, Done(r) \/ ResolveFails(r) \/ Dropped(r) \/ Ban(r)
      PROVE  TimeInv' /\ RotationWaits
  <2>1. Goes(r, "idle") \/ Goes(r, "disable")
    BY <1>b DEF Done, ResolveFails, Dropped, Ban
  <2>2. now' = now /\ schedule' = schedule /\ renewedAt' = renewedAt
    BY <1>b DEF Done, ResolveFails, Dropped, Ban, history
  <2>3. calledAt' \in 0..now /\ RotationWaits
    BY <1>0, <1>h, <2>1
  <2> QED BY <1>t, <2>2, <2>3, SameTime
<1>c. ASSUME NEW r \in Requests, ResolveSucceeds(r) PROVE TimeInv' /\ RotationWaits
  <2>1. /\ now' = now /\ Observe(lease', FALSE) /\ GoesWith(r, "using", lease'.secret)
        /\ lease' \in Leases
    BY <1>c, <1>l DEF ResolveSucceeds
  <2>2. calledAt' \in 0..now /\ RotationWaits
    BY <1>0, <1>g, <2>1
  <2> QED BY <1>t, <2>1, <2>2, ObserveKeepsTime
<1>d. ASSUME NEW r \in Requests, AlreadyRenewed(r) \/ AuthRenews(r)
      PROVE  TimeInv' /\ RotationWaits
  <2>1. /\ now' = now /\ ObserveRenewed(lease') /\ Leave(r, "idle", "renewed")
        /\ lease' \in Leases
    BY <1>d, <1>l DEF AlreadyRenewed, AuthRenews
  <2>2. calledAt' \in 0..now /\ RotationWaits
    BY <1>0, <1>g, <2>1 DEF Leave
  <2> QED BY <1>t, <2>1, <2>2, ObserveRenewedKeepsTime
<1>e. ASSUME NEW r \in Requests, MustRotate(r) PROVE TimeInv' /\ RotationWaits
  <2>1. /\ now' = now /\ schedule' = schedule /\ renewedAt' = renewedAt
        /\ GoesWith(r, "rotate", seen[r]) \/ GoesWith(r, "rotate", 0)
    BY <1>e DEF MustRotate, history
  <2>2. calledAt' \in 0..now /\ RotationWaits
    BY <1>0, <1>g, <2>1
  <2> QED BY <1>t, <2>1, <2>2, SameTime
<1>f. ASSUME NEW r \in Requests, AuthInvalid(r) \/ AuthFails(r) PROVE TimeInv' /\ RotationWaits
  <2>1. Leave(r, "ban", "invalid") \/ Leave(r, "idle", "failed")
    BY <1>f DEF AuthInvalid, AuthFails
  <2>2. /\ now' = now
        /\ \/ schedule' = schedule /\ renewedAt' = renewedAt
           \/ \E hint \in RetryHints : Postpone(hint)
    BY <1>f DEF AuthInvalid, AuthFails, history
  <2>3. calledAt' \in 0..now /\ RotationWaits
    BY <1>0, <1>g, <2>1 DEF Leave
  <2> QED BY <1>t, <2>2, <2>3, SameTime, FailureKeepsTime
<1>j. ASSUME Claim PROVE TimeInv' /\ RotationWaits
  <2>1. /\ now' = now /\ renewedAt' = renewedAt /\ schedule # None
        /\ schedule' = [schedule EXCEPT !.claim = now + Grace] /\ Goes(Scheduler, "lookup")
    BY <1>j DEF Claim, Due, history
  <2>2. calledAt' \in 0..now /\ RotationWaits
    BY <1>0, <1>h, <2>1
  <2>3. schedule \in Schedules /\ now + Grace \in Instants
    BY <1>t, <2>1, CredentialAssumption DEF TimeTypes, Instants
  <2>4. schedule' \in Schedules /\ schedule'.next = schedule.next
    BY <2>1, <2>3, ClaimField
  <2>5. schedule' # None
    BY <2>4, CredentialAssumption
  <2>6. TimeTypes'
    BY <1>t, <2>1, <2>2, <2>4 DEF TimeTypes
  <2>7. RenewedIsLater'
    BY <1>t, <2>1, <2>4, <2>5 DEF TimeInv, RenewedIsLater
  <2> QED BY <2>2, <2>6, <2>7 DEF TimeInv
<1>k. ASSUME LookupFails \/ LookupGone PROVE TimeInv' /\ RotationWaits
  <2>1. /\ now' = now /\ schedule' = schedule /\ renewedAt' = renewedAt
        /\ Goes(Scheduler, "idle") \/ Goes(Scheduler, "forget")
    BY <1>k DEF LookupFails, LookupGone, history
  <2>2. calledAt' \in 0..now /\ RotationWaits
    BY <1>0, <1>h, <2>1
  <2> QED BY <1>t, <2>1, <2>2, SameTime
<1>m. ASSUME LookupFound PROVE TimeInv' /\ RotationWaits
  <2>1. /\ now' = now /\ schedule' = schedule /\ renewedAt' = renewedAt /\ calledAt' = now
        /\ stage' = [stage EXCEPT ![Scheduler] = "gate"]
    BY <1>m DEF LookupFound, TakeGate, history
  <2>2. calledAt' \in 0..now
    BY <1>t, <2>1
  <2> QED BY <1>t, <1>0, <2>1, <2>2, SameTime, OthersDontRotate
<1>n. ASSUME ScheduledResolves PROVE TimeInv' /\ RotationWaits
  <2>0. now' = now /\ lease' \in Leases
    BY <1>n, <1>l DEF ScheduledResolves
  <2>1. CASE Observe(lease', TRUE) /\ Goes(Scheduler, "idle")
    <3>1. calledAt' \in 0..now /\ RotationWaits
      BY <1>0, <1>h, <2>1
    <3> QED BY <1>t, <2>0, <2>1, <3>1, ObserveKeepsTime
  <2>2. CASE ObserveRenewed(lease') /\ Goes(Scheduler, "idle")
    <3>1. calledAt' \in 0..now /\ RotationWaits
      BY <1>0, <1>h, <2>2
    <3> QED BY <1>t, <2>0, <2>2, <3>1, ObserveRenewedKeepsTime
  <2>3. CASE Goes(Scheduler, "idle") /\ schedule' = schedule /\ renewedAt' = renewedAt
    <3>1. calledAt' \in 0..now /\ RotationWaits
      BY <1>0, <1>h, <2>3
    <3> QED BY <1>t, <2>0, <2>3, <3>1, SameTime
  <2>4. CASE /\ schedule # None /\ schedule.next <= calledAt
             /\ GoesWith(Scheduler, "rotate", lease'.secret)
             /\ schedule' = schedule /\ renewedAt' = renewedAt
    <3>1. calledAt' \in 0..now
      BY <1>t, <2>4, GoingKeepsCall
    <3>2. TimeInv'
      BY <1>t, <2>0, <2>4, <3>1, SameTime
    <3>3. ASSUME renewedAt # None PROVE now > renewedAt
      <4>1. renewedAt \in Nat /\ schedule.next > renewedAt
        BY <1>t, <3>3 DEF TimeInv, TimeTypes, RenewedIsLater, Instants
      <4>2. schedule.next \in Nat
        BY <1>t, <2>4 DEF TimeTypes, Schedules
      <4> QED BY <1>t, <2>4, <4>1, <4>2
    <3> QED BY <3>2, <3>3 DEF RotationWaits
  <2> QED BY <1>n, <2>1, <2>2, <2>3, <2>4 DEF ScheduledResolves
<1>o. ASSUME ScheduledFails PROVE TimeInv' /\ RotationWaits
  <2>1. /\ now' = now
        /\ Goes(Scheduler, "disable") \/ Goes(Scheduler, "idle")
        /\ \/ schedule' = schedule /\ renewedAt' = renewedAt
           \/ \E hint \in RetryHints : Postpone(hint)
    BY <1>o DEF ScheduledFails
  <2>2. calledAt' \in 0..now /\ RotationWaits
    BY <1>0, <1>h, <2>1
  <2> QED BY <1>t, <2>1, <2>2, SameTime, FailureKeepsTime
<1>p. ASSUME ScheduledRenews PROVE TimeInv' /\ RotationWaits
  <2>1. /\ now' = now /\ ObserveRenewed(lease') /\ Leave(Scheduler, "idle", None)
        /\ lease' \in Leases
    BY <1>p, <1>l DEF ScheduledRenews
  <2>2. calledAt' \in 0..now /\ RotationWaits
    BY <1>0, <1>g, <2>1 DEF Leave
  <2> QED BY <1>t, <2>1, <2>2, ObserveRenewedKeepsTime
<1>q. ASSUME NEW t \in Tasks, Enter(t) \/ Rotate(t) \/ Disable(t) PROVE TimeInv' /\ RotationWaits
  <2>1. now' = now /\ schedule' = schedule /\ renewedAt' = renewedAt
    BY <1>q DEF Enter, Rotate, Disable, history
  <2>2. PICK s \in {"resolve", "ban", "idle", "resolve again", "forget"} : Goes(t, s)
    BY <1>q DEF Enter, Rotate, Disable
  <2>3. calledAt' \in 0..now /\ RotationWaits
    BY <1>h, <2>2
  <2> QED BY <1>t, <2>1, <2>3, SameTime
<1>r. ASSUME NEW t \in Tasks, Forget(t) PROVE TimeInv' /\ RotationWaits
  <2>1. now' = now /\ schedule' = None /\ renewedAt' = None /\ Goes(t, "idle")
    BY <1>r DEF Forget, Reschedule
  <2>2. calledAt' \in 0..now /\ RotationWaits
    BY <1>h, <2>1
  <2> QED BY <1>t, <2>1, <2>2 DEF TimeInv, TimeTypes, RenewedIsLater, Instants
<1>s. ASSUME Enable PROVE TimeInv' /\ RotationWaits
  <2>1. /\ now' = now /\ schedule' = schedule /\ renewedAt' = renewedAt /\ calledAt' = calledAt
        /\ stage' = stage
    BY <1>s DEF Enable, tasks, history
  <2> QED BY <1>t, <2>1, SameTime DEF RotationWaits
<1>u. ASSUME Tick PROVE TimeInv' /\ RotationWaits
  <2>1. /\ now' = now + 1 /\ now < MaxTime /\ schedule' = schedule /\ renewedAt' = renewedAt
        /\ calledAt' = calledAt /\ stage' = stage
    BY <1>u DEF Tick, tasks, history
  <2>2. now \in 0..MaxTime /\ MaxTime \in Nat
    BY <1>t, CredentialAssumption DEF TimeTypes
  <2>3. now' \in 0..MaxTime /\ calledAt' \in 0..now'
    BY <1>t, <2>1, <2>2
  <2>4. TimeTypes'
    BY <1>t, <2>1, <2>3 DEF TimeTypes
  <2>5. renewedAt # None => renewedAt \in Nat /\ renewedAt <= now
    BY <1>t DEF TimeInv, TimeTypes, RenewedIsLater, Instants
  <2>6. RenewedIsLater'
    BY <1>t, <2>1, <2>5 DEF TimeInv, RenewedIsLater
  <2> QED BY <2>1, <2>4, <2>6 DEF TimeInv, RotationWaits
<1>v. CASE UNCHANGED vars
  <2>1. now' = now /\ schedule' = schedule /\ renewedAt' = renewedAt /\ calledAt' = calledAt
    BY <1>v DEF vars, tasks, history
  <2> QED BY <1>t, <1>v, <2>1, SameTime
<1>1. CASE \E r \in Requests : Request(r)
  BY <1>1, <1>a, <1>b, <1>c, <1>d, <1>e, <1>f DEF Request
<1>2. CASE Schedule
  BY <1>2, <1>j, <1>k, <1>m, <1>n, <1>o, <1>p DEF Schedule
<1>3. CASE \E t \in Tasks : Enter(t) \/ Rotate(t) \/ Disable(t) \/ Forget(t)
  BY <1>3, <1>q, <1>r
<1> QED BY <1>1, <1>2, <1>3, <1>s, <1>u, <1>v DEF Next

-----------------------------------------------------------------------------
(* The theorems. *)

LEMMA InitIInv == Init => IInv
<1> SUFFICES ASSUME Init PROVE IInv
  OBVIOUS
<1>1. MaxSecrets \in Nat \ {0} /\ MaxGates \in Nat /\ MaxTime \in Nat
  BY CredentialAssumption
<1>2. lease \in Leases /\ lease.secret \in 1..MaxSecrets
  <2>1. lease = [secret |-> 1, expires |-> None, after |-> 0]
    BY DEF Init
  <2>2. None \in Instants /\ 0 \in Instants /\ 1 \in Nat /\ 1 \in 1..MaxSecrets
    BY <1>1 DEF Instants
  <2> QED BY <2>1, <2>2 DEF Leases
<1>3. GateTypes
  <2>1. made = 0 /\ gate = 0 /\ 0 \in 0..MaxGates /\ 0 \in 0..0
    BY <1>1 DEF Init
  <2>2. stage \in [Tasks -> Stages] /\ at \in [Tasks -> 0..made] /\ seen \in [Tasks -> Nat]
    BY <2>1 DEF Init, Stages, OutsideStages
  <2>3. forgotten \in BOOLEAN
    BY DEF Init
  <2> QED BY <1>2, <2>1, <2>2, <2>3 DEF GateTypes
<1>4. GateIsHeld /\ LockIsExclusive /\ OneGate
  BY DEF Init, GateIsHeld, InsideStages, LockIsExclusive, Inside, OneGate
<1>5. RaceNeedsForget
  BY DEF Init, RaceNeedsForget, RotationsDontRace
<1>6. TimeInv
  BY <1>1 DEF Init, TimeInv, TimeTypes, RenewedIsLater, Instants
<1>7. news \in [Tasks -> News]
  BY DEF Init, News
<1> QED BY <1>3, <1>4, <1>5, <1>6, <1>7 DEF IInv, GateInv

\* The outcome that a task finds is one that another task left.
LEMMA NewsStep ==
  ASSUME news \in [Tasks -> News], [Next]_vars
  PROVE  news' \in [Tasks -> News]
<1>0. Scheduler \in Tasks /\ Requests \subseteq Tasks
  BY DEF Tasks
<1>1. ASSUME NEW t \in Tasks, NEW s, Goes(t, s) PROVE news' \in [Tasks -> News]
  BY <1>1 DEF Goes, News
<1>2. ASSUME NEW t \in Tasks, NEW s, NEW result \in News, Leave(t, s, result)
      PROVE  news' \in [Tasks -> News]
  BY <1>2 DEF Leave
<1>3. {"renewed", "failed", "invalid", None} \subseteq News
  BY DEF News
<1>4. ASSUME NEW r \in Requests, Request(r) PROVE news' \in [Tasks -> News]
  <2>1. CASE Ask(r) \/ Unauthorized(r) \/ ResolveSucceeds(r) \/ MustRotate(r)
    BY <2>1 DEF Ask, Unauthorized, TakeGate, ResolveSucceeds, MustRotate
  <2>2. CASE Done(r) \/ Dropped(r) \/ ResolveFails(r) \/ Ban(r)
    BY <1>0, <1>1, <2>2 DEF Done, Dropped, ResolveFails, Ban
  <2>3. CASE AlreadyRenewed(r) \/ AuthInvalid(r) \/ AuthFails(r) \/ AuthRenews(r)
    BY <1>0, <1>2, <1>3, <2>3 DEF AlreadyRenewed, AuthInvalid, AuthFails, AuthRenews
  <2> QED BY <1>4, <2>1, <2>2, <2>3 DEF Request
<1>5. ASSUME Schedule PROVE news' \in [Tasks -> News]
  <2>1. CASE Claim \/ LookupFails \/ LookupGone \/ ScheduledFails
    BY <1>0, <1>1, <2>1 DEF Claim, LookupFails, LookupGone, ScheduledFails
  <2>2. CASE LookupFound
    BY <2>2 DEF LookupFound, TakeGate
  <2>3. CASE ScheduledResolves
    BY <1>0, <1>1, <2>3 DEF ScheduledResolves
  <2>4. CASE ScheduledRenews
    BY <1>0, <1>2, <1>3, <2>4 DEF ScheduledRenews
  <2> QED BY <1>5, <2>1, <2>2, <2>3, <2>4 DEF Schedule
<1>6. ASSUME NEW t \in Tasks, Enter(t) \/ Rotate(t) \/ Disable(t) \/ Forget(t)
      PROVE  news' \in [Tasks -> News]
  BY <1>1, <1>6 DEF Enter, Rotate, Disable, Forget
<1>7. CASE Enable \/ Tick \/ UNCHANGED vars
  BY <1>7 DEF Enable, Tick, vars, tasks
<1> QED BY <1>4, <1>5, <1>6, <1>7 DEF Next

LEMMA IInvStep == IInv /\ [Next]_vars => IInv' /\ [RotationWaits]_vars
<1> SUFFICES ASSUME IInv, [Next]_vars PROVE IInv' /\ [RotationWaits]_vars
  OBVIOUS
<1>1. GateInv'
  BY GateStep DEF IInv, TimeInv
<1>2. TimeInv' /\ [RotationWaits]_vars
  BY TimeStep
<1>3. (news \in [Tasks -> News])'
  BY NewsStep DEF IInv
<1> QED BY <1>1, <1>2, <1>3 DEF IInv

LEMMA IInvIsEnough == IInv => RotationsTakeTurns
BY DEF IInv, GateInv, GateTypes, TimeInv, TimeTypes, RotationsTakeTurns, TypeOK, Stages,
       InsideStages, OutsideStages, News

\* The state is well-formed, and as long as no gate was forgotten under a task, whoever
\* rotates the credential rotates the one that it has seen.
THEOREM RotationsAlwaysTakeTurns == Spec => []RotationsTakeTurns
BY InitIInv, IInvStep, IInvIsEnough, PTL DEF Spec

\* What was renewed is not rotated by the scheduler until time has passed, whatever the
\* plugin says of the lease, unless it has failed since and asked for a retry at once.
THEOREM NoHotLoopEver == Spec => NoHotLoop
BY InitIInv, IInvStep, PTL DEF Spec, NoHotLoop

=============================================================================
