--------------------------- MODULE ServicesProofs ---------------------------
(***************************************************************************)
(* Proofs about what decides on requests without touching their contents,  *)
(* for any numbers of them and of those who change things meanwhile: the   *)
(* health of an account, administrators' sessions, virtual keys, the       *)
(* accounts that an OAuth flow adds, and the configuration with the        *)
(* snapshot that is made of it.                                            *)
(***************************************************************************)
EXTENDS AccountHealth, Admittance, Enrollment, ConfigStore, FiniteSetTheorems,
        WellFoundedInduction, TLAPS


-----------------------------------------------------------------------------
(* The statements keep a row a row. *)

LEMMA NewRowType == NewRow \in Row /\ Idle \in Request
  BY DEF NewRow, Row, Status, Time, Idle, Request, Stage

LEMMA MarkedType ==
  ASSUME NEW a \in Row, NEW failure \in AccountFailure, NEW secs \in Nat, now \in Nat
  PROVE  /\ Marked(a, failure, secs) \in Row
         /\ Marked(a, failure, secs).failures = a.failures
         /\ Marked(a, failure, secs).circuitOpenUntil = a.circuitOpenUntil
<1>1. now + secs \in Time
  BY DEF Time
<1>2. CASE failure = "RateLimit"
  BY <1>1, <1>2 DEF Marked, WithStatus, Row, Status
<1>3. CASE failure = "QuotaExhausted"
  BY <1>1, <1>3 DEF Marked, WithStatus, Row, Status
<1>4. CASE failure = "AuthError"
  BY <1>4 DEF Marked, WithStatus, Row, Status, Time
<1>5. QED
  BY <1>2, <1>3, <1>4 DEF AccountFailure

LEMMA WithStatusType ==
  ASSUME NEW a \in Row, NEW status \in Status, NEW until \in Time
  PROVE  /\ WithStatus(a, status, until) \in Row
         /\ WithStatus(a, status, until).failures = a.failures
         /\ WithStatus(a, status, until).circuitOpenUntil = a.circuitOpenUntil
  BY DEF WithStatus, Row

LEMMA RecoveredType ==
  ASSUME NEW a \in Row
  PROVE  Recovered(a) \in Row /\ Recovered(a).failures = 0
  BY DEF Recovered, NewRow, Row, Status, Time

LEMMA ResetType ==
  ASSUME NEW a \in Row
  PROVE  ResetAccountFailures(a) \in Row /\ ResetAccountFailures(a).failures = 0
  BY DEF ResetAccountFailures, Row, Time

LEMMA ReadType ==
  ASSUME NEW a \in Row
  PROVE  Read(a) \in Row
  BY DEF Read, Row

-----------------------------------------------------------------------------
(* Moves of a request. *)

\* A step of request q that keeps the types of the requests.
LEMMA MoveType ==
  ASSUME TypeOK, NEW q \in Requests
  PROVE  /\ \A stage \in Stage : At(q, stage) => request' \in [Requests -> Request]
         /\ Leave(q) => request' \in [Requests -> Request]
         /\ Retarget(q) => request' \in [Requests -> Request]
<1>1. request \in [Requests -> Request]
  BY DEF TypeOK
<1>2. ASSUME NEW stage \in Stage, At(q, stage) PROVE request' \in [Requests -> Request]
  BY <1>1, <1>2 DEF At, Request
<1>3. ASSUME Leave(q) PROVE request' \in [Requests -> Request]
  BY <1>1, <1>3, NewRowType DEF Leave
<1>4. ASSUME Retarget(q) PROVE request' \in [Requests -> Request]
  <2>1. CASE Leave(q)
    BY <2>1, <1>3
  <2>2. CASE request' = [request EXCEPT ![q].stage = "routed", ![q].probing = FALSE]
    BY <1>1, <2>2 DEF Request, Stage
  <2>3. QED
    BY <1>4, <2>1, <2>2 DEF Retarget
<1>5. QED
  BY <1>2, <1>3, <1>4

LEMMA ReloadType ==
  ASSUME TypeOK, NEW x \in Reloaders, ReloadRead(x) \/ ReloadEnd(x)
  PROVE  /\ loaded' \in [Reloaders -> SUBSET Row]
         /\ snapshot' \in Row
         /\ now' = now /\ row' = row /\ lost' = lost
<1>1. loaded \in [Reloaders -> SUBSET Row] /\ snapshot \in Row /\ Read(row) \in Row
  BY ReadType DEF TypeOK
<1>2. CASE ReloadRead(x)
  BY <1>1, <1>2 DEF ReloadRead
<1>3. CASE ReloadEnd(x)
  BY <1>1, <1>3 DEF ReloadEnd, Published
<1>4. QED
  BY <1>2, <1>3

-----------------------------------------------------------------------------
(* Type correctness, by the groups of Next. *)

LEMMA ChooseType ==
  ASSUME TypeOK, NEW q \in Requests, Choose(q)
  PROVE  TypeOK'
<1> USE ConstantsAssumption
<1>1. CASE Route(q)
  <2>1. request' \in [Requests -> Request]
    BY <1>1 DEF Route, TypeOK, Request, Stage
  <2>2. QED
    BY <1>1, <2>1 DEF Route, TypeOK, actors
<1>2. CASE Select(q)
  <2>1. CASE At(q, "selected")
    BY <1>2, <2>1, MoveType DEF Select, TypeOK, actors, Stage
  <2>2. CASE Leave(q)
    BY <1>2, <2>2, MoveType DEF Select, TypeOK, actors
  <2>3. CASE request' = [request EXCEPT ![q] =
               [stage |-> "selected", row |-> request[q].row, probing |-> TRUE]]
    <3>1. request' \in [Requests -> Request]
      BY <2>3 DEF TypeOK, Request, Stage
    <3>2. QED
      BY <1>2, <3>1 DEF Select, TypeOK, actors
  <2>4. QED
    BY <1>2, <2>1, <2>2, <2>3 DEF Select
<1>3. CASE SoftQuota(q)
  <2>1. row' \in Row
    BY <1>3, MarkedType DEF SoftQuota, TypeOK, AccountFailure
  <2>2. QED
    BY <1>3, <2>1, MoveType DEF SoftQuota, TypeOK, actors
<1>4. CASE InvalidCredential(q)
  <2>1. row' \in Row
    BY <1>4, MarkedType DEF InvalidCredential, TypeOK, AccountFailure
  <2>2. QED
    BY <1>4, <2>1, MoveType DEF InvalidCredential, TypeOK, actors, Stage
<1>5. CASE Skip(q)
  BY <1>5, MoveType DEF Skip, TypeOK, actors
<1>6. QED
  BY <1>1, <1>2, <1>3, <1>4, <1>5 DEF Choose

LEMMA AttemptType ==
  ASSUME TypeOK, NEW q \in Requests, Attempt(q)
  PROVE  TypeOK'
<1> USE ConstantsAssumption
<1>1. CASE Send(q)
  <2>1. row' \in Row
    BY <1>1 DEF Send, TypeOK, Row, Time
  <2>2. QED
    BY <1>1, <2>1, MoveType DEF Send, TypeOK, actors, Stage
<1>2. CASE ClearCircuit(q)
  BY <1>2, MoveType, ResetType DEF ClearCircuit, TypeOK, actors
<1>3. CASE TransientFailure(q)
  BY <1>3, MoveType DEF TransientFailure, TypeOK, actors
<1>4. CASE AuthRetry(q)
  BY <1>4, MoveType DEF AuthRetry, Retarget, TypeOK, actors
<1>5. CASE RotationFailed(q)
  <2>1. row' \in Row
    BY <1>5, MarkedType DEF RotationFailed, TypeOK, AccountFailure
  <2>2. QED
    BY <1>5, <2>1, MoveType DEF RotationFailed, TypeOK, actors, Stage
<1>6. QED
  BY <1>1, <1>2, <1>3, <1>4, <1>5 DEF Attempt

LEMMA RecordType ==
  ASSUME TypeOK, NEW q \in Requests, Record(q)
  PROVE  TypeOK'
<1> USE ConstantsAssumption
<1>1. CASE MarkFailure(q)
  <2>1. row' \in Row
    BY <1>1, MarkedType DEF MarkFailure, TypeOK
  <2>2. QED
    BY <1>1, <2>1, MoveType DEF MarkFailure, TypeOK, actors, Stage
<1>2. CASE CountFailure(q)
  <2>1. row' \in Row
    BY <1>2 DEF CountFailure, TypeOK, Row
  <2>2. QED
    BY <1>2, <2>1, MoveType DEF CountFailure, TypeOK, actors, Stage
<1>3. CASE ReadFailures(q)
  BY <1>3, MoveType DEF ReadFailures, TypeOK, actors, Stage
<1>4. CASE OpenCircuit(q)
  <2>1. row' \in Row
    BY <1>4 DEF OpenCircuit, TypeOK, Row, Time
  <2>2. QED
    BY <1>4, <2>1, MoveType DEF OpenCircuit, TypeOK, actors, Stage
<1>5. CASE RecordError(q)
  BY <1>5, MoveType DEF RecordError, TypeOK, actors, Stage
<1>6. CASE RequestReload(q)
  <2>1. q \in Reloaders
    BY DEF Reloaders
  <2>2. ReloadRead(q) \/ ReloadEnd(q)
    BY <1>6 DEF RequestReload
  <2>3. request' \in [Requests -> Request]
    BY <1>6, MoveType DEF RequestReload, TypeOK
  <2>4. QED
    BY <1>6, <2>1, <2>2, <2>3, ReloadType DEF RequestReload, TypeOK, actors
<1>7. QED
  BY <1>1, <1>2, <1>3, <1>4, <1>5, <1>6 DEF Record

LEMMA BackgroundType ==
  ASSUME TypeOK, LoopRead \/ LoopEnd \/ Probe \/ Operate
  PROVE  TypeOK'
<1> USE ConstantsAssumption
<1>1. CASE LoopRead \/ LoopEnd
  BY <1>1, ReloadType DEF LoopRead, LoopEnd, Reloaders, TypeOK, actors
<1>2. CASE ProbeRead
  BY <1>2 DEF ProbeRead, TypeOK, Row
<1>3. CASE ProbeObserve
  <2>1. row' \in Row
    <3>1. \A secs \in Cooldowns : Marked(row, "QuotaExhausted", secs) \in Row
      BY MarkedType DEF TypeOK, AccountFailure
    <3>2. \A until \in {Never} \cup {now + secs : secs \in Cooldowns} :
            WithStatus(row, "cooldown", until) \in Row
      <4>1. \A until \in {Never} \cup {now + secs : secs \in Cooldowns} : until \in Time
        <5>1. \A secs \in Cooldowns : now + secs \in Nat
          BY DEF TypeOK
        <5> QED
          BY <5>1 DEF Time
      <4>2. row \in Row /\ "cooldown" \in Status
        BY DEF TypeOK, Status
      <4>3. QED
        BY <4>1, <4>2, WithStatusType
    <3>3. QED
      BY <1>3, <3>1, <3>2, RecoveredType DEF ProbeObserve, TypeOK
  <2>2. prober' \in Status \cup {"idle", "reload"}
    BY <1>3 DEF ProbeObserve
  <2>3. QED
    BY <1>3, <2>1, <2>2 DEF ProbeObserve, TypeOK
<1>4. CASE ProbeReload
  <2>1. "prober" \in Reloaders /\ (ReloadRead("prober") \/ ReloadEnd("prober"))
    BY <1>4 DEF ProbeReload, Reloaders
  <2>2. QED
    BY <1>4, <2>1, ReloadType DEF ProbeReload, TypeOK
<1>5. CASE Reset \/ OperatorClear
  BY <1>5, RecoveredType, ResetType DEF Reset, OperatorClear, TypeOK
<1>6. CASE TestAccount
  <2>1. row' \in Row
    BY <1>6 DEF TestAccount, TypeOK, Row, Time
  <2>2. QED
    BY <1>6, <2>1 DEF TestAccount, TypeOK
<1>7. CASE OperatorReload
  <2>1. "operator" \in Reloaders /\ (ReloadRead("operator") \/ ReloadEnd("operator"))
    BY <1>7 DEF OperatorReload, Reloaders
  <2>2. QED
    BY <1>7, <2>1, ReloadType DEF OperatorReload, TypeOK
<1>8. ASSUME NEW status \in {"healthy", "disabled"}, UpdateAccount(status) PROVE TypeOK'
  <2>1. row' \in Row
    BY <1>8 DEF UpdateAccount, TypeOK, Row, Status
  <2>2. QED
    BY <1>8, <2>1 DEF UpdateAccount, TypeOK
<1>9. QED
  BY <1>1, <1>2, <1>3, <1>4, <1>5, <1>6, <1>7, <1>8 DEF Probe, Operate

\* Every reachable row, snapshot, request and unfinished reload has its type.
THEOREM TypeCorrect == Spec => []TypeOK
<1>1. Init => TypeOK
  <2> SUFFICES ASSUME Init PROVE TypeOK
    OBVIOUS
  <2>1. request \in [Requests -> Request] /\ loaded \in [Reloaders -> SUBSET Row]
    BY NewRowType DEF Init
  <2>2. now \in Nat /\ row \in Row /\ snapshot \in Row /\ lost \in BOOLEAN
    BY NewRowType DEF Init
  <2>3. QED
    BY <2>1, <2>2 DEF Init, TypeOK
<1>2. TypeOK /\ [Next]_vars => TypeOK'
  <2> SUFFICES ASSUME TypeOK, [Next]_vars PROVE TypeOK'
    OBVIOUS
  <2>1. ASSUME NEW q \in Requests, Disconnect(q) PROVE TypeOK'
    BY <2>1, MoveType DEF Disconnect, TypeOK, actors
  <2>2. CASE Restart
    BY <2>2, NewRowType, ReadType DEF Restart, TypeOK
  <2>3. CASE Tick
    BY <2>3 DEF Tick, TypeOK, actors
  <2>4. CASE UNCHANGED vars
    BY <2>4 DEF vars, actors, TypeOK
  <2>5. QED
    BY <2>1, <2>2, <2>3, <2>4, ChooseType, AttemptType, RecordType, BackgroundType DEF Next
<1>3. QED
  BY <1>1, <1>2, PTL DEF Spec

-----------------------------------------------------------------------------
(* The threshold. *)

Recording(q) == request[q].stage \in {"read", "open"}

\* A step that leaves the count, the circuit and the recorders alone, or adds
\* a recorder, keeps the invariant.
LEMMA Undisturbed ==
  ASSUME ThresholdOpensCircuit, lost' = lost,
         row'.failures = row.failures,
         row'.circuitOpenUntil = row.circuitOpenUntil,
         \A q \in Requests : Recording(q) => Recording(q)'
  PROVE  ThresholdOpensCircuit'
  BY DEF ThresholdOpensCircuit, Recording

LEMMA NothingCounted ==
  ASSUME row'.failures = 0
  PROVE  ThresholdOpensCircuit'
  BY ConstantsAssumption DEF ThresholdOpensCircuit

\* The threshold is never reached with the circuit closed and nobody about to
\* open it, unless a recorder was cut off (record_account_failure).
THEOREM ThresholdAlwaysOpens == Spec => []ThresholdOpensCircuit
<1>1. Init => ThresholdOpensCircuit
  BY ConstantsAssumption DEF Init, ThresholdOpensCircuit, NewRow
<1>2. TypeOK /\ ThresholdOpensCircuit /\ [Next]_vars => ThresholdOpensCircuit'
  <2> SUFFICES ASSUME TypeOK, ThresholdOpensCircuit, [Next]_vars
               PROVE  ThresholdOpensCircuit'
    OBVIOUS
  <2> USE ConstantsAssumption
  <2>0. row \in Row /\ now \in Nat /\ row.failures \in Nat
    BY DEF TypeOK, Row
  <2>1. ASSUME NEW q \in Requests, Choose(q) PROVE ThresholdOpensCircuit'
    <3>1. lost' = lost /\ ~Recording(q)
      BY <2>1 DEF Choose, Route, Select, SoftQuota, InvalidCredential, Skip, Recording
    <3>2. row'.failures = row.failures /\ row'.circuitOpenUntil = row.circuitOpenUntil
      <4>1. CASE SoftQuota(q)
        <5>1. PICK secs \in Cooldowns : row' = Marked(row, "QuotaExhausted", secs)
          BY <4>1 DEF SoftQuota
        <5>2. QED
          BY <2>0, <5>1, MarkedType DEF AccountFailure
      <4>2. CASE InvalidCredential(q)
        BY <2>0, <4>2, MarkedType DEF InvalidCredential, AccountFailure
      <4>3. CASE Route(q) \/ Select(q) \/ Skip(q)
        BY <4>3 DEF Route, Select, Skip
      <4>4. QED
        BY <2>1, <4>1, <4>2, <4>3 DEF Choose
    <3>3. \A p \in Requests : p # q => request'[p] = request[p]
      BY <2>1 DEF TypeOK, Choose, Route, Select, SoftQuota, InvalidCredential, Skip,
                  At, Leave, Retarget
    <3>4. QED
      BY <3>1, <3>2, <3>3, Undisturbed DEF Recording
  <2>2. ASSUME NEW q \in Requests, Attempt(q) PROVE ThresholdOpensCircuit'
    <3>1. CASE ClearCircuit(q)
      BY <2>0, <3>1, ResetType, NothingCounted DEF ClearCircuit
    <3>2. CASE Send(q) \/ TransientFailure(q) \/ AuthRetry(q) \/ RotationFailed(q)
      <4>1. lost' = lost /\ ~Recording(q)
        BY <3>2 DEF Send, TransientFailure, AuthRetry, RotationFailed, Recording
      <4>2. row'.failures = row.failures /\ row'.circuitOpenUntil = row.circuitOpenUntil
        <5>1. CASE RotationFailed(q)
          <6>1. PICK secs \in Cooldowns : row' = Marked(row, "RateLimit", secs)
            BY <5>1 DEF RotationFailed
          <6>2. QED
            BY <2>0, <6>1, MarkedType DEF AccountFailure
        <5>2. CASE Send(q)
          BY <2>0, <5>2 DEF Send, Row
        <5>3. CASE TransientFailure(q) \/ AuthRetry(q)
          BY <5>3 DEF TransientFailure, AuthRetry
        <5>4. QED
          BY <3>2, <5>1, <5>2, <5>3
      <4>3. \A p \in Requests : p # q => request'[p] = request[p]
        BY <3>2 DEF TypeOK, Send, TransientFailure, AuthRetry, RotationFailed,
                    At, Leave, Retarget
      <4>4. QED
        BY <4>1, <4>2, <4>3, Undisturbed DEF Recording
    <3>3. QED
      BY <2>2, <3>1, <3>2 DEF Attempt
  <2>3. ASSUME NEW q \in Requests, Record(q) PROVE ThresholdOpensCircuit'
    <3>1. CASE MarkFailure(q)
      <4>1. row'.failures = row.failures /\ row'.circuitOpenUntil = row.circuitOpenUntil
        BY <2>0, <3>1, MarkedType DEF MarkFailure
      <4>2. lost' = lost /\ ~Recording(q) /\ \A p \in Requests : p # q => request'[p] = request[p]
        BY <3>1 DEF MarkFailure, Recording, At, TypeOK
      <4>3. QED
        BY <4>1, <4>2, Undisturbed DEF Recording
    <3>2. CASE CountFailure(q)
      BY <3>2 DEF CountFailure, At, TypeOK, Request, ThresholdOpensCircuit
    <3>3. CASE ReadFailures(q)
      <4>1. CASE ReachesThreshold(row)
        BY <3>3, <4>1 DEF ReadFailures, At, TypeOK, Request, ThresholdOpensCircuit
      <4>2. CASE ~ReachesThreshold(row)
        BY <2>0, <3>3, <4>2 DEF ReadFailures, ReachesThreshold, ThresholdOpensCircuit
      <4>3. QED
        BY <4>1, <4>2
    <3>4. CASE OpenCircuit(q)
      <4>1. row'.circuitOpenUntil = now + OpenSecs
        BY <2>0, <3>4 DEF OpenCircuit, Row
      <4>2. QED
        BY <2>0, <4>1 DEF ThresholdOpensCircuit
    <3>5. CASE RecordError(q)
      <4>1. CASE request[q].stage = "count"
        <5>1. \A p \in Requests : p # q => request'[p] = request[p]
          BY <3>5 DEF RecordError, At, TypeOK
        <5>2. QED
          BY <3>5, <4>1, <5>1, Undisturbed DEF RecordError, Recording, TypeOK
      <4>2. CASE request[q].stage # "count"
        BY <3>5, <4>2 DEF RecordError, ThresholdOpensCircuit
      <4>3. QED
        BY <4>1, <4>2
    <3>6. CASE RequestReload(q)
      <4>1. lost' = lost /\ row' = row /\ ~Recording(q)
        BY <3>6 DEF RequestReload, ReloadRead, ReloadEnd, Recording
      <4>2. \A p \in Requests : p # q => request'[p] = request[p]
        BY <3>6 DEF RequestReload, Retarget, Leave, TypeOK
      <4>3. QED
        BY <4>1, <4>2, Undisturbed DEF Recording
    <3>7. QED
      BY <2>3, <3>1, <3>2, <3>3, <3>4, <3>5, <3>6 DEF Record
  <2>4. ASSUME NEW q \in Requests, Disconnect(q) PROVE ThresholdOpensCircuit'
    <3>1. CASE Recording(q)
      BY <2>4, <3>1 DEF Disconnect, ThresholdOpensCircuit, Recording
    <3>2. CASE ~Recording(q)
      <4>1. \A p \in Requests : p # q => request'[p] = request[p]
        BY <2>4 DEF Disconnect, Leave, TypeOK
      <4>2. QED
        BY <2>4, <3>2, <4>1, Undisturbed DEF Disconnect, Recording, TypeOK
    <3>3. QED
      BY <3>1, <3>2
  <2>5. CASE LoopRead \/ LoopEnd \/ ProbeRead \/ ProbeReload \/ OperatorReload \/ Tick
    <3>1. lost' = lost /\ row' = row /\ request' = request
      BY <2>5 DEF LoopRead, LoopEnd, ProbeRead, ProbeReload, OperatorReload, Tick,
                  ReloadRead, ReloadEnd
    <3>2. QED
      BY <3>1, Undisturbed DEF Recording
  <2>6. CASE ProbeObserve
    <3>1. lost' = lost /\ request' = request
      BY <2>6 DEF ProbeObserve
    <3>2. \/ row'.failures = 0
          \/ row'.failures = row.failures /\ row'.circuitOpenUntil = row.circuitOpenUntil
      <4>1. \A secs \in Cooldowns :
              LET a == Marked(row, "QuotaExhausted", secs)
              IN  a.failures = row.failures /\ a.circuitOpenUntil = row.circuitOpenUntil
        BY <2>0, MarkedType DEF AccountFailure
      <4>2. \A until \in {Never} \cup {now + secs : secs \in Cooldowns} :
              LET a == WithStatus(row, "cooldown", until)
              IN  a.failures = row.failures /\ a.circuitOpenUntil = row.circuitOpenUntil
        BY <2>0 DEF WithStatus, Row
      <4>3. Recovered(row).failures = 0
        BY <2>0, RecoveredType
      <4>4. QED
        BY <2>6, <4>1, <4>2, <4>3 DEF ProbeObserve
    <3>3. QED
      BY <3>1, <3>2, Undisturbed, NothingCounted DEF Recording
  <2>7. CASE Reset \/ OperatorClear
    BY <2>0, <2>7, RecoveredType, ResetType, NothingCounted DEF Reset, OperatorClear
  <2>8. ASSUME TestAccount \/ \E status \in {"healthy", "disabled"} : UpdateAccount(status)
        PROVE  ThresholdOpensCircuit'
    <3>1. lost' = lost /\ request' = request
      BY <2>8 DEF TestAccount, UpdateAccount
    <3>2. row'.failures = row.failures /\ row'.circuitOpenUntil = row.circuitOpenUntil
      BY <2>0, <2>8 DEF TestAccount, UpdateAccount, Row
    <3>3. QED
      BY <3>1, <3>2, Undisturbed DEF Recording
  <2>9. CASE Restart
    BY <2>9 DEF Restart, ThresholdOpensCircuit
  <2>10. CASE UNCHANGED vars
    BY <2>10, Undisturbed DEF vars, Recording
  <2>11. QED
    BY <2>1, <2>2, <2>3, <2>4, <2>5, <2>6, <2>7, <2>8, <2>9, <2>10 DEF Next, Probe, Operate
<1>3. QED
  BY <1>1, <1>2, TypeCorrect, PTL DEF Spec

-----------------------------------------------------------------------------
(* Administrators' sessions. *)

\* What a handler of an administrator is about to do.
DeskStates ==
  [at : {"idle", "create", "set", "revoke"}, password : Passwords \cup {Unset}, seen : Nat, read : BOOLEAN]

\* A login that read the setting has found the password that is still there, unless it
\* was changed since; so has its session, unless it was changed since, and then it is
\* gone but while the change is at work or was cut off.
LoginsInv ==
  \A a \in Admins :
    desk[a].at = "create" =>
      /\ desk[a].seen <= changed
      /\ desk[a].read /\ desk[a].seen = changed => desk[a].password = Stored(TRUE)
SessionsInv ==
  \A t \in DOMAIN sessions :
    /\ sessions[t].since \in Nat /\ sessions[t].since <= changed
    /\ Settled => sessions[t].since = changed
    /\ sessions[t].since = changed /\ sessions[t].sound => sessions[t].by = Stored(TRUE)

\* Sessions are of tokens that were issued, and of no earlier password unless a change
\* of it is still at work.
AccessInv ==
  /\ minute \in 0..MaxMinute /\ passwd \in Passwords \cup {Unset}
  /\ changed \in Nat /\ logins \in Nat /\ cut \in BOOLEAN
  /\ jar \in [Admins -> 0..logins]
  /\ desk \in [Admins -> DeskStates]
  /\ \A a \in Admins : desk[a].at = "set" => desk[a].password \in Passwords
  /\ DOMAIN sessions \subseteq 1..logins
  /\ \A t \in DOMAIN sessions :
       /\ sessions[t].till \in Nat /\ sessions[t].till <= minute + SessionTtl
  /\ LoginsInv
  /\ SessionsInv

\* Nobody is logged in at the start.
LEMMA AccessStart == AccessInit => AccessInv
<1> SUFFICES ASSUME AccessInit PROVE AccessInv
  OBVIOUS
<1>1. /\ minute = 0 /\ passwd = Unset /\ changed = 0 /\ cut = FALSE /\ logins = 0
      /\ jar = [a \in Admins |-> 0] /\ DOMAIN sessions = {}
  BY DEF AccessInit
<1>2. desk \in [Admins -> DeskStates] /\ \A a \in Admins : desk[a].at = "idle"
  BY DEF AccessInit, AtRest, DeskStates
<1>3. LoginsInv /\ SessionsInv
  BY <1>1, <1>2 DEF LoginsInv, SessionsInv
<1>4. jar \in [Admins -> 0..logins] /\ minute \in 0..MaxMinute /\ cut \in BOOLEAN
  <2>1. 0 \in 0..0 /\ minute \in 0..MaxMinute
    BY <1>1, AccessBounds
  <2>2. jar \in [Admins -> 0..0]
    BY <1>1, <2>1, Zenon
  <2> QED
    BY <1>1, <2>1, <2>2, Zenon
<1>5. /\ DOMAIN sessions \subseteq 1..logins
      /\ \A t \in DOMAIN sessions : sessions[t].till \in Nat /\ sessions[t].till <= minute + SessionTtl
      /\ \A a \in Admins : desk[a].at = "set" => desk[a].password \in Passwords
  BY <1>1, <1>2, Zenon
<1> QED
  BY <1>1, <1>2, <1>3, <1>4, <1>5 DEF AccessInv

\* A handler that takes up its next task without touching a session.
LEMMA DeskKept ==
  ASSUME AccessInv, NEW a \in Admins, NEW rec \in DeskStates, Desk(a, rec), desk[a].at # "revoke",
         rec.at = "set" => rec.password \in Passwords,
         rec.at = "create" => rec.seen = changed /\ (rec.read => rec.password = Stored(TRUE)),
         UNCHANGED <<minute, sessionVars>>
  PROVE  AccessInv'
<1> USE DEF AccessInv, Desk, sessionVars
<1>1. desk' \in [Admins -> DeskStates] /\ \A b \in Admins : desk'[b] = IF b = a THEN rec ELSE desk[b]
  OBVIOUS
<1>2. /\ \A b \in Admins : desk'[b].at = "set" => desk'[b].password \in Passwords
      /\ Settled' => Settled
  BY <1>1 DEF Settled
<1>3. LoginsInv'
  BY <1>1 DEF LoginsInv, Stored
<1>4. SessionsInv'
  BY <1>2 DEF SessionsInv, Stored
<1> QED
  BY <1>1, <1>2, <1>3, <1>4

\* A handler that ends, with some of the sessions.
LEMMA FewerSessions ==
  ASSUME AccessInv, NEW ts, sessions' = Forgotten(ts), jar' \in [Admins -> 0..logins],
         UNCHANGED <<minute, passwd, changed, cut, logins, desk>>
  PROVE  AccessInv'
<1>1. \A t \in DOMAIN sessions' : t \in DOMAIN sessions /\ sessions'[t] = sessions[t]
  BY DEF Forgotten
<1>2. LoginsInv' /\ SessionsInv'
  BY <1>1 DEF AccessInv, LoginsInv, SessionsInv, Settled, Stored
<1> QED
  BY <1>1, <1>2 DEF AccessInv

\* No step leaves a session of an earlier password, but while its change is at work.
LEMMA AccessStep == AccessInv /\ [AccessNext]_accessVars => AccessInv'
<1> SUFFICES ASSUME AccessInv, [AccessNext]_accessVars PROVE AccessInv'
  OBVIOUS
<1> USE AccessBounds
<1>1. CASE UNCHANGED accessVars
  BY <1>1 DEF accessVars, AccessInv, LoginsInv, SessionsInv, Settled, Stored
<1>2. ASSUME NEW a \in Admins, NEW p \in Passwords, NEW read \in BOOLEAN, LoginVerify(a, p, read) PROVE AccessInv'
  <2> DEFINE rec == [at |-> "create", password |-> p, seen |-> changed, read |-> read]
  <2>1. /\ desk[a].at = "idle" /\ p = Stored(read) /\ Desk(a, rec) /\ UNCHANGED <<minute, sessionVars>>
    BY <1>2 DEF LoginVerify, Verify
  <2>2. rec \in DeskStates /\ rec.at = "create" /\ rec.seen = changed /\ rec.password = p /\ rec.read = read
    BY DEF DeskStates, AccessInv
  <2> HIDE DEF rec
  <2>3. rec.read => rec.password = Stored(TRUE)
    BY <2>1, <2>2
  <2> QED
    BY <2>1, <2>2, <2>3, DeskKept
<1>3. ASSUME NEW a \in Admins, LoginCreate(a) PROVE AccessInv'
  <2> DEFINE kept == {u \in DOMAIN sessions : sessions[u].till > minute}
             new == Begun(desk[a])
  <2>1. /\ desk[a].at = "create" /\ desk' = [desk EXCEPT ![a] = AtRest]
        /\ sessions' = [u \in kept \cup {logins + 1} |-> IF u = logins + 1 THEN new ELSE sessions[u]]
        /\ logins' = logins + 1 /\ jar' = [jar EXCEPT ![a] = logins + 1]
        /\ UNCHANGED <<minute, passwd, changed, cut>>
    BY <1>3 DEF LoginCreate, Desk
  <2>2. /\ logins' \in Nat /\ 0..logins \subseteq 0..logins' /\ 1..logins \subseteq 1..logins'
        /\ logins + 1 \in 0..logins' /\ logins + 1 \in 1..logins'
    BY <2>1 DEF AccessInv
  <2>3. jar' \in [Admins -> 0..logins']
    BY <2>1, <2>2 DEF AccessInv
  <2>4. /\ desk' \in [Admins -> DeskStates]
        /\ \A b \in Admins : desk'[b].at = "set" => desk'[b].password \in Passwords
        /\ \A b \in Admins : desk'[b].at = "revoke" <=> desk[b].at = "revoke"
        /\ \A b \in Admins : desk'[b].at = "create" => desk'[b] = desk[b]
    BY <2>1 DEF AccessInv, DeskStates, AtRest
  <2>5. DOMAIN sessions' \subseteq 1..logins'
    BY <2>1, <2>2 DEF AccessInv
  <2>6. /\ new.till = minute + SessionTtl /\ new.since = changed /\ new.by = desk[a].password
        /\ new.sound => desk[a].read /\ desk[a].seen = changed
    BY DEF Begun, Expiry
  <2>7. new.till \in Nat /\ new.since \in Nat /\ (new.sound => new.by = Stored(TRUE))
    <3> HIDE DEF new
    <3>1. new.till \in Nat /\ new.since \in Nat
      BY <2>6 DEF AccessInv
    <3>2. desk[a].read /\ desk[a].seen = changed => desk[a].password = Stored(TRUE)
      BY <2>1, Zenon DEF AccessInv, LoginsInv
    <3>3. new.sound => new.by = Stored(TRUE)
      BY <2>6, <3>2, Zenon
    <3> QED
      BY <3>1, <3>3
  <2> HIDE DEF new
  <2>8. \A t \in DOMAIN sessions' : \/ t \in DOMAIN sessions /\ sessions'[t] = sessions[t]
                                   \/ sessions'[t] = new
    BY <2>1
  <2>9. \A t \in DOMAIN sessions' : sessions'[t].till \in Nat /\ sessions'[t].till <= minute' + SessionTtl
    BY <2>1, <2>6, <2>7, <2>8 DEF AccessInv
  <2>10. LoginsInv'
    BY <2>1, <2>4 DEF AccessInv, LoginsInv, Stored
  <2>11. SessionsInv'
    <3>1. Settled' => Settled
      BY <2>1, <2>4 DEF Settled
    <3> QED
      BY <2>1, <2>6, <2>7, <2>8, <3>1 DEF AccessInv, SessionsInv, Stored
  <2> QED
    BY <2>1, <2>2, <2>3, <2>4, <2>5, <2>9, <2>10, <2>11 DEF AccessInv
<1>4. ASSUME NEW a \in Admins, Logout(a) PROVE AccessInv'
  <2>1. /\ sessions' = Forgotten({jar[a]}) /\ jar' = [jar EXCEPT ![a] = 0]
        /\ UNCHANGED <<minute, passwd, changed, cut, logins, desk>>
    BY <1>4 DEF Logout
  <2>2. jar' \in [Admins -> 0..logins]
    BY <2>1 DEF AccessInv
  <2> QED
    BY <2>1, <2>2, FewerSessions
<1>5. ASSUME NEW a \in Admins, AdminRefused(a) PROVE AccessInv'
  <2>1. /\ sessions' = Forgotten({jar[a]}) /\ jar' = [jar EXCEPT ![a] = 0]
        /\ UNCHANGED <<minute, passwd, changed, cut, logins, desk>>
    BY <1>5 DEF AdminRefused, Looked
  <2>2. jar' \in [Admins -> 0..logins]
    BY <2>1 DEF AccessInv
  <2> QED
    BY <2>1, <2>2, FewerSessions
<1>6. ASSUME NEW a \in Admins, NEW header \in Passwords \cup {Unset}, NEW old \in Passwords, NEW new \in Passwords,
             NEW read \in BOOLEAN, ChangeVerify(a, header, old, new, read)
      PROVE  AccessInv'
  BY <1>6, DeskKept DEF ChangeVerify, AdminAuth, AtRest, DeskStates
<1>7. ASSUME NEW a \in Admins, SetPassword(a) PROVE AccessInv'
  <2>1. /\ desk[a].at = "set" /\ desk' = [desk EXCEPT ![a] = [AtRest EXCEPT !.at = "revoke"]]
        /\ passwd' = desk[a].password /\ changed' = changed + 1 /\ UNCHANGED <<minute, cut, sessions, logins, jar>>
    BY <1>7 DEF SetPassword, Desk
  <2>2. /\ desk' \in [Admins -> DeskStates] /\ desk'[a].at = "revoke"
        /\ \A b \in Admins : b # a => desk'[b] = desk[b]
    BY <2>1 DEF AtRest, AccessInv, DeskStates
  <2>3. passwd' \in Passwords /\ changed' \in Nat /\ ~Settled'
    BY <2>1, <2>2 DEF AccessInv, Settled
  <2>4. LoginsInv'
    <3>1. \A b \in Admins : desk'[b].at = "create" => desk[b].at = "create" /\ desk'[b] = desk[b]
      BY <2>2
    <3>2. \A b \in Admins : desk[b].at = "create" => desk[b].seen <= changed' /\ desk[b].seen # changed'
      <4>1. \A b \in Admins : desk[b].at = "create" => desk[b].seen \in Nat /\ desk[b].seen <= changed
        BY DEF AccessInv, LoginsInv, DeskStates
      <4>2. changed \in Nat
        BY DEF AccessInv
      <4> QED
        BY <2>1, <4>1, <4>2
    <3> QED
      BY <3>1, <3>2, Zenon DEF LoginsInv
  <2>5. SessionsInv'
    <3>1. \A t \in DOMAIN sessions : /\ sessions[t].since \in Nat /\ sessions[t].since <= changed'
                                    /\ sessions[t].since # changed'
      <4>1. changed \in Nat /\ \A t \in DOMAIN sessions : sessions[t].since \in Nat /\ sessions[t].since <= changed
        BY DEF AccessInv, SessionsInv
      <4> QED
        BY <2>1, <4>1
    <3> QED
      BY <2>1, <2>3, <3>1, Zenon DEF SessionsInv
  <2> QED
    BY <2>1, <2>2, <2>3, <2>4, <2>5 DEF AccessInv
<1>8. ASSUME NEW a \in Admins, HandlerCut(a) PROVE AccessInv'
  <2>1. /\ desk' = [desk EXCEPT ![a] = AtRest] /\ cut' = (cut \/ desk[a].at = "revoke")
        /\ UNCHANGED <<minute, passwd, changed, sessions, logins, jar>>
    BY <1>8 DEF HandlerCut, Desk
  <2>2. /\ desk' \in [Admins -> DeskStates] /\ desk'[a].at = "idle" /\ cut' \in BOOLEAN
        /\ \A b \in Admins : b # a => desk'[b] = desk[b]
    BY <2>1 DEF AtRest, AccessInv, DeskStates
  <2>3. Settled' => Settled
    BY <2>1, <2>2 DEF Settled
  <2>4. LoginsInv'
    BY <2>1, <2>2 DEF AccessInv, LoginsInv, Stored
  <2>5. SessionsInv'
    BY <2>1, <2>3 DEF AccessInv, SessionsInv, Stored
  <2> QED
    BY <2>1, <2>2, <2>4, <2>5 DEF AccessInv
<1>9. ASSUME NEW a \in Admins, RevokeAll(a) PROVE AccessInv'
  <2>1. /\ desk' = [desk EXCEPT ![a] = AtRest] /\ cut' = FALSE /\ DOMAIN sessions' = {}
        /\ UNCHANGED <<minute, passwd, changed, logins, jar>>
    BY <1>9 DEF RevokeAll, Desk
  <2>2. /\ desk' \in [Admins -> DeskStates] /\ desk'[a].at = "idle"
        /\ \A b \in Admins : b # a => desk'[b] = desk[b]
    BY <2>1 DEF AtRest, AccessInv, DeskStates
  <2>3. LoginsInv' /\ SessionsInv'
    BY <2>1, <2>2 DEF AccessInv, LoginsInv, SessionsInv, Stored
  <2> QED
    BY <2>1, <2>2, <2>3 DEF AccessInv
<1>10. CASE MinutePasses
  <2>1. minute' \in 0..MaxMinute /\ minute' = minute + 1 /\ UNCHANGED <<passwd, changed, cut, sessions, logins, jar, desk>>
    BY <1>10 DEF MinutePasses, sessionVars, AccessInv
  <2>2. LoginsInv' /\ SessionsInv'
    BY <2>1 DEF AccessInv, LoginsInv, SessionsInv, Settled, Stored
  <2> QED
    BY <2>1, <2>2 DEF AccessInv
<1>11. CASE AccessRestart
  <2>1. DOMAIN sessions' = {} /\ cut' = FALSE /\ UNCHANGED <<minute, passwd, changed, logins, jar>>
    BY <1>11 DEF AccessRestart
  <2>2. desk' \in [Admins -> DeskStates] /\ \A a \in Admins : desk'[a].at = "idle"
    BY <1>11 DEF AccessRestart, AtRest, DeskStates
  <2>3. LoginsInv' /\ SessionsInv'
    BY <2>1, <2>2 DEF LoginsInv, SessionsInv
  <2> QED
    BY <2>1, <2>2, <2>3 DEF AccessInv
<1> QED
  BY <1>1, <1>2, <1>3, <1>4, <1>5, <1>6, <1>7, <1>8, <1>9, <1>10, <1>11 DEF AccessNext

\* The invariant of the sessions always holds.
LEMMA AccessHolds == AccessSpec => []AccessInv
BY AccessStart, AccessStep, PTL DEF AccessSpec

-----------------------------------------------------------------------------
(* Virtual keys and clients' addresses. *)

\* Rows of a key, updates of it, requests that present it.
KeyRows ==
  [id : Nat, status : KeyStatuses, limit : {edit.limit : edit \in Edits},
   ips : {edit.ips : edit \in Edits} \cup {{}}, till : Nat]
EditStates ==
  [at : {"idle", "read", "write"}, id : Nat, edit : Edits \cup {Omitted}, row : KeyRows \cup {Omitted}]
CallStates ==
  [at : {"idle", "limited", "unknown", "keyed", "refused", "admitted"}, ip : Addresses \cup {Omitted},
   row : KeyRows \cup {Omitted}, began : KeyStatuses \cup {"none"}]

\* The key's row, and the status that was last asked for.
VkeyInv ==
  /\ second \in 0..MaxSecond /\ edits \in 0..MaxEdits /\ keyNo \in Nat
  /\ vkey \in KeyRows \cup {Omitted}
  /\ RevocationSticks

\* An update writes to the row what it read from one.
EditInv ==
  /\ editor \in [Editors -> EditStates]
  /\ \A a \in Editors : /\ editor[a].at \in {"read", "write"} => editor[a].edit \in Edits
                        /\ editor[a].at = "write" => editor[a].row \in KeyRows

\* A request is judged by the row that was there when it arrived.
KeyCallInv ==
  /\ calls \in [Callers -> CallStates]
  /\ \A c \in Callers : calls[c].at = "keyed" => calls[c].row \in KeyRows /\ calls[c].began = calls[c].row.status
  /\ AdmittedIsActive

\* What has passed was counted, as long as its window is open: the map may forget an
\* address only when its window is over.
WindowInv ==
  /\ \A i \in DOMAIN window :
       /\ window[i] \in [started : Nat, count : Nat] /\ i \in DOMAIN passed
       /\ passed[i].since = window[i].started /\ passed[i].n <= window[i].count
  /\ \A i \in DOMAIN passed :
       /\ passed[i] \in [since : Nat, n : Nat] /\ passed[i].n <= PerWindow
       /\ passed[i].since <= second
       /\ i \notin DOMAIN window => ~Open(passed[i].since, Window)

\* The inductive invariant.
KeyInv == VkeyInv /\ EditInv /\ KeyCallInv /\ WindowInv

\* There is no key at the start.
LEMMA KeyStart == KeyInit => KeyInv
<1> SUFFICES ASSUME KeyInit PROVE KeyInv
  OBVIOUS
<1>1. VkeyInv
  BY KeyBounds DEF KeyInit, VkeyInv, RevocationSticks
<1>2. EditInv
  BY DEF KeyInit, EditInv, NoEdit, EditStates
<1>3. KeyCallInv
  BY DEF KeyInit, KeyCallInv, NoCall, CallStates, AdmittedIsActive
<1>4. WindowInv
  BY DEF KeyInit, WindowInv
<1> QED
  BY <1>1, <1>2, <1>3, <1>4 DEF KeyInv

\* No step brings an older status back.
LEMMA VkeyStep == KeyInv /\ [KeyNext]_keyVars => VkeyInv'
<1> SUFFICES ASSUME KeyInv, [KeyNext]_keyVars PROVE VkeyInv'
  OBVIOUS
<1> USE KeyBounds DEF KeyInv, VkeyInv, EditInv, RevocationSticks
<1>1. ASSUME UNCHANGED <<second, edits, keyNo, vkey, wanted>> PROVE VkeyInv'
  BY <1>1
<1>2. ASSUME NEW a \in Editors, NEW edit \in Edits, CreateKey(a, edit) PROVE VkeyInv'
  <2> DEFINE new == [id |-> keyNo + 1, status |-> "active", limit |-> edit.limit,
                     ips |-> Or(edit.ips, {}), till |-> second + KeyLife]
  <2>1. vkey' = new /\ keyNo' = keyNo + 1 /\ wanted' = "active" /\ UNCHANGED <<second, edits>>
    BY <1>2 DEF CreateKey
  <2>2. /\ keyNo + 1 \in Nat /\ second + KeyLife \in Nat /\ "active" \in KeyStatuses
        /\ edit.limit \in {e.limit : e \in Edits}
    BY DEF KeyStatuses
  <2>3. Or(edit.ips, {}) \in {e.ips : e \in Edits} \cup {{}}
    BY DEF Or
  <2>4. new \in KeyRows /\ new.status = "active"
    BY <2>2, <2>3 DEF KeyRows
  <2> HIDE DEF new
  <2> QED
    BY <2>1, <2>2, <2>4
<1>3. ASSUME NEW a \in Editors, NEW edit \in Edits, NEW id \in 1..keyNo, UpdateStatus(a, id, edit) PROVE VkeyInv'
  <2> DEFINE sets == edit.status # Omitted /\ Has(id)
  <2>1. /\ vkey' = IF sets THEN [vkey EXCEPT !.status = edit.status] ELSE vkey
        /\ wanted' = IF sets THEN edit.status ELSE wanted
        /\ edits < MaxEdits /\ edits' = edits + 1 /\ UNCHANGED <<second, keyNo>>
    BY <1>3 DEF UpdateStatus
  <2>2. edits' \in 0..MaxEdits
    BY <2>1
  <2>3. CASE sets
    <3>1. vkey \in KeyRows /\ edit.status \in KeyStatuses
      BY <2>3 DEF Has, KeyStatuses
    <3>2. vkey' \in KeyRows /\ vkey'.status = edit.status
      BY <2>1, <2>3, <3>1 DEF KeyRows
    <3> QED
      BY <2>1, <2>2, <2>3, <3>2
  <2>4. CASE ~sets
    BY <2>1, <2>2, <2>4
  <2> QED
    BY <2>3, <2>4
<1>4. ASSUME NEW a \in Editors, WriteKey(a) PROVE VkeyInv'
  <2> DEFINE was == editor[a].row
             edit == editor[a].edit
  <2>1. /\ was \in KeyRows /\ edit \in Edits
        /\ vkey' = IF Has(editor[a].id) THEN Merged(was, edit) ELSE vkey
        /\ UNCHANGED <<second, keyNo, edits, wanted>>
    BY <1>4 DEF WriteKey
  <2> HIDE DEF was, edit
  <2>2. CASE Has(editor[a].id)
    <3>1. vkey \in KeyRows /\ vkey # Omitted
      BY <2>2 DEF Has
    <3>2. /\ Or(edit.limit, was.limit) \in {e.limit : e \in Edits}
          /\ Or(edit.ips, was.ips) \in {e.ips : e \in Edits} \cup {{}}
          /\ was.till \in Nat
      BY <2>1 DEF Or, KeyRows
    <3>3. Merged(was, edit) \in KeyRows /\ Merged(was, edit).status = vkey.status
      BY <3>1, <3>2 DEF Merged, KeyRows
    <3> QED
      BY <2>1, <2>2, <3>1, <3>3
  <2>3. CASE ~Has(editor[a].id)
    BY <2>1, <2>3
  <2> QED
    BY <2>2, <2>3
<1>5. ASSUME NEW a \in Editors, DeleteKey(a) PROVE VkeyInv'
  BY <1>5 DEF DeleteKey
<1>6. CASE SecondPasses
  BY <1>6 DEF SecondPasses
<1>7. ASSUME NEW a \in Editors, ReadKey(a) PROVE VkeyInv'
  BY <1>1, <1>7 DEF ReadKey
<1>8. ASSUME NEW c \in Callers,
             (\E ip \in Addresses : Authenticate(c, ip)) \/ EnforceKey(c) \/ CallEnds(c)
      PROVE  VkeyInv'
  BY <1>1, <1>8 DEF Authenticate, EnforceKey, CallEnds
<1>9. CASE UNCHANGED keyVars
  BY <1>1, <1>9 DEF keyVars
<1> QED
  BY <1>2, <1>3, <1>4, <1>5, <1>6, <1>7, <1>8, <1>9, Zenon DEF KeyNext

\* An update has read a row before it writes.
LEMMA EditStep == KeyInv /\ [KeyNext]_keyVars => EditInv'
<1> SUFFICES ASSUME KeyInv, [KeyNext]_keyVars PROVE EditInv'
  OBVIOUS
<1> USE DEF KeyInv, VkeyInv, EditInv
<1>1. ASSUME UNCHANGED editor PROVE EditInv'
  BY <1>1
<1>2. ASSUME NEW a \in Editors, NEW rec \in EditStates, Editing(a, rec),
             rec.at \in {"read", "write"} => rec.edit \in Edits, rec.at = "write" => rec.row \in KeyRows
      PROVE  EditInv'
  BY <1>2 DEF Editing
<1>3. ASSUME NEW a \in Editors, NEW edit \in Edits, NEW id \in 1..keyNo, UpdateStatus(a, id, edit) PROVE EditInv'
  <2> DEFINE rec == [NoEdit EXCEPT !.at = "read", !.id = id, !.edit = edit]
  <2>1. Editing(a, rec)
    BY <1>3 DEF UpdateStatus
  <2>2. id \in Nat
    OBVIOUS
  <2>3. rec \in EditStates
    BY <2>2 DEF NoEdit, EditStates
  <2>4. rec.at = "read" /\ rec.edit \in Edits
    BY DEF NoEdit
  <2> HIDE DEF rec
  <2> QED
    BY <1>2, <2>1, <2>3, <2>4
<1>4. ASSUME NEW a \in Editors, ReadKey(a) PROVE EditInv'
  <2>1. CASE Has(editor[a].id)
    <3> DEFINE rec == [editor[a] EXCEPT !.at = "write", !.row = vkey]
    <3>1. Editing(a, rec) /\ editor[a].at = "read" /\ vkey \in KeyRows /\ editor[a].edit \in Edits
      BY <1>4, <2>1 DEF ReadKey, Has
    <3>2. rec \in EditStates /\ rec.at = "write" /\ rec.edit \in Edits /\ rec.row \in KeyRows
      BY <3>1 DEF EditStates
    <3> HIDE DEF rec
    <3> QED
      BY <1>2, <3>1, <3>2
  <2>2. CASE ~Has(editor[a].id)
    BY <1>2, <1>4, <2>2 DEF ReadKey, NoEdit, EditStates
  <2> QED
    BY <2>1, <2>2
<1>5. ASSUME NEW a \in Editors, WriteKey(a) PROVE EditInv'
  BY <1>2, <1>5 DEF WriteKey, NoEdit, EditStates
<1>6. ASSUME NEW a \in Editors, (\E edit \in Edits : CreateKey(a, edit)) \/ DeleteKey(a) PROVE EditInv'
  BY <1>1, <1>6 DEF CreateKey, DeleteKey
<1>7. ASSUME NEW c \in Callers,
             (\E ip \in Addresses : Authenticate(c, ip)) \/ EnforceKey(c) \/ CallEnds(c)
      PROVE  EditInv'
  BY <1>1, <1>7 DEF Authenticate, EnforceKey, CallEnds
<1>8. CASE SecondPasses \/ UNCHANGED keyVars
  BY <1>1, <1>8 DEF SecondPasses, keyVars
<1> QED
  BY <1>3, <1>4, <1>5, <1>6, <1>7, <1>8, Zenon DEF KeyNext

\* A request is admitted by the row it was judged by.
LEMMA KeyCallStep == KeyInv /\ [KeyNext]_keyVars => KeyCallInv'
<1> SUFFICES ASSUME KeyInv, [KeyNext]_keyVars PROVE KeyCallInv'
  OBVIOUS
<1> USE DEF KeyInv, VkeyInv, KeyCallInv
<1>1. ASSUME UNCHANGED calls PROVE KeyCallInv'
  BY <1>1 DEF AdmittedIsActive
<1>2. ASSUME NEW c \in Callers, NEW rec \in CallStates, calls' = [calls EXCEPT ![c] = rec],
             rec.at = "keyed" => rec.row \in KeyRows /\ rec.began = rec.row.status,
             rec.at = "admitted" => rec.began \notin {"disabled", "revoked"} /\ (rec.row.ips # {} => rec.ip # Omitted)
      PROVE  KeyCallInv'
  BY <1>2 DEF AdmittedIsActive
<1>3. NoCall \in CallStates
  BY DEF NoCall, CallStates
<1>4. ASSUME NEW c \in Callers, NEW ip \in Addresses, Authenticate(c, ip) PROVE KeyCallInv'
  <2> DEFINE rec == [at |-> "keyed", ip |-> ip, row |-> vkey, began |-> vkey.status]
  <2>1. \/ calls' = [calls EXCEPT ![c] = [NoCall EXCEPT !.at = "limited"]]
        \/ calls' = [calls EXCEPT ![c] = [NoCall EXCEPT !.at = "unknown"]]
        \/ vkey # Omitted /\ calls' = [calls EXCEPT ![c] = rec]
    BY <1>4 DEF Authenticate
  <2>2. ASSUME NEW at \in {"limited", "unknown"}
        PROVE  [NoCall EXCEPT !.at = at] \in CallStates /\ [NoCall EXCEPT !.at = at].at \notin {"keyed", "admitted"}
    BY DEF NoCall, CallStates
  <2>3. ASSUME vkey # Omitted
        PROVE  rec \in CallStates /\ rec.at = "keyed" /\ rec.row \in KeyRows /\ rec.began = rec.row.status
    BY <2>3 DEF CallStates, KeyRows
  <2> HIDE DEF rec
  <2> QED
    BY <1>2, <2>1, <2>2, <2>3
<1>5. ASSUME NEW c \in Callers, EnforceKey(c) PROVE KeyCallInv'
  <2> DEFINE passes == EnforceIp(calls[c].row, calls[c].ip) /\ Validate(calls[c].row)
             rec == [calls[c] EXCEPT !.at = IF passes THEN "admitted" ELSE "refused"]
  <2>1. calls' = [calls EXCEPT ![c] = rec] /\ calls[c] \in CallStates
    BY <1>5 DEF EnforceKey
  <2>2. /\ rec \in CallStates /\ rec.at = IF passes THEN "admitted" ELSE "refused"
        /\ rec.ip = calls[c].ip /\ rec.row = calls[c].row /\ rec.began = calls[c].began
    BY <2>1 DEF CallStates
  <2>3. calls[c].row \in KeyRows /\ calls[c].began = calls[c].row.status
    BY <1>5 DEF EnforceKey
  <2>4. passes => calls[c].began \notin {"disabled", "revoked"} /\ (calls[c].row.ips # {} => calls[c].ip # Omitted)
    BY <2>3 DEF EnforceIp, Validate, KeyRows, KeyStatuses
  <2> HIDE DEF rec, passes
  <2> QED
    BY <1>2, <2>1, <2>2, <2>4
<1>6. ASSUME NEW c \in Callers, CallEnds(c) PROVE KeyCallInv'
  <2>1. calls' = [calls EXCEPT ![c] = NoCall] /\ NoCall.at = "idle"
    BY <1>6 DEF CallEnds, NoCall
  <2> QED
    BY <1>2, <1>3, <2>1
<1>7. ASSUME NEW a \in Editors,
             (\E edit \in Edits : CreateKey(a, edit) \/ (\E id \in 1..keyNo : UpdateStatus(a, id, edit)))
             \/ ReadKey(a) \/ WriteKey(a) \/ DeleteKey(a)
      PROVE  KeyCallInv'
  BY <1>1, <1>7 DEF CreateKey, UpdateStatus, ReadKey, WriteKey, DeleteKey
<1>8. CASE SecondPasses \/ UNCHANGED keyVars
  BY <1>1, <1>8 DEF SecondPasses, keyVars
<1> QED
  BY <1>4, <1>5, <1>6, <1>7, <1>8, Zenon DEF KeyNext

\* A sweep drops only windows that are over.
LEMMA SweptIsOver ==
  ASSUME KeyInv
  PROVE  /\ DOMAIN Swept \subseteq DOMAIN window
         /\ \A i \in DOMAIN Swept : Swept[i] = window[i]
         /\ \A i \in DOMAIN passed : i \notin DOMAIN Swept => ~Open(passed[i].since, Window)
<1> USE KeyBounds DEF KeyInv, VkeyInv
<1>1. /\ DOMAIN SweptTo(2 * Window) \subseteq DOMAIN window
      /\ \A i \in DOMAIN SweptTo(2 * Window) : SweptTo(2 * Window)[i] = window[i]
      /\ \A i \in DOMAIN window : i \notin DOMAIN SweptTo(2 * Window) => ~Open(window[i].started, 2 * Window)
  BY DEF SweptTo
<1>2. \A i \in DOMAIN window : ~Open(window[i].started, 2 * Window) => ~Open(window[i].started, Window)
  BY DEF WindowInv, Open
<1>3. CASE Swept = window
  BY <1>3 DEF WindowInv
<1>4. CASE Swept = SweptTo(2 * Window)
  BY <1>1, <1>2, <1>4 DEF WindowInv
<1> QED
  BY <1>3, <1>4 DEF Swept

\* A window that counts one more, swept or not, lets no more pass than its limit.
LEMMA CountedIsBounded ==
  ASSUME KeyInv, NEW ip, window' = Counted(ip), passed' = Reckoned(ip, Within(window'[ip].count)),
         second' = second
  PROVE  WindowInv'
<1> DEFINE w == Swept
           inMap == ip \in DOMAIN w /\ Open(w[ip].started, Window)
           old == IF inMap THEN w[ip] ELSE Opened
           new == [old EXCEPT !.count = @ + 1]
           told == ip \in DOMAIN passed /\ Open(passed[ip].since, Window)
           was == IF told THEN passed[ip] ELSE [since |-> second, n |-> 0]
           now_ == IF Within(new.count) THEN [was EXCEPT !.n = @ + 1] ELSE was
<1> USE KeyBounds
<1>0. WindowInv /\ second \in Nat
  BY DEF KeyInv, VkeyInv
<1>1. /\ DOMAIN w \subseteq DOMAIN window
      /\ \A i \in DOMAIN w : w[i] = window[i]
      /\ \A i \in DOMAIN passed : i \notin DOMAIN w => ~Open(passed[i].since, Window)
  BY SweptIsOver
<1>2. window' = [i \in DOMAIN w \cup {ip} |-> IF i = ip THEN new ELSE w[i]]
  BY DEF Counted
<1>3. window'[ip] = new
  BY <1>2
<1>4. passed' = [i \in DOMAIN passed \cup {ip} |-> IF i = ip THEN now_ ELSE passed[i]]
  BY <1>3 DEF Reckoned
<1> HIDE DEF w
<1>5. inMap <=> told
  BY <1>0, <1>1 DEF WindowInv
<1>6. /\ old \in [started : Nat, count : Nat] /\ was \in [since : Nat, n : Nat]
      /\ was.since = old.started /\ was.n <= old.count /\ was.n <= PerWindow /\ was.since <= second
  <2>1. CASE inMap
    BY <2>1, <1>0, <1>1, <1>5 DEF WindowInv
  <2>2. CASE ~inMap
    BY <2>2, <1>0, <1>5 DEF Opened
  <2> QED
    BY <2>1, <2>2
<1> HIDE DEF inMap, told, old, was
<1>7. new \in [started : Nat, count : Nat] /\ new.started = old.started /\ new.count = old.count + 1
  BY <1>6
<1> HIDE DEF new
<1>8. /\ now_ \in [since : Nat, n : Nat] /\ now_.since = new.started /\ now_.n <= new.count
      /\ now_.n <= PerWindow /\ now_.since <= second
  <2>1. CASE Within(new.count)
    <3>1. now_ = [was EXCEPT !.n = @ + 1]
      BY <2>1
    <3>2. now_ \in [since : Nat, n : Nat] /\ now_.since = was.since /\ now_.n = was.n + 1
      BY <1>6, <3>1
    <3>3. new.count <= PerWindow
      BY <2>1 DEF Within
    <3> HIDE DEF now_
    <3> QED
      BY <1>6, <1>7, <3>2, <3>3
  <2>2. CASE ~Within(new.count)
    <3>1. now_ = was
      BY <2>2
    <3> HIDE DEF now_
    <3> QED
      BY <1>6, <1>7, <3>1
  <2> QED
    BY <2>1, <2>2
<1> HIDE DEF now_
<1>9. \A i \in DOMAIN window' :
        /\ window'[i] \in [started : Nat, count : Nat] /\ i \in DOMAIN passed'
        /\ passed'[i].since = window'[i].started /\ passed'[i].n <= window'[i].count
  BY <1>0, <1>1, <1>2, <1>4, <1>7, <1>8 DEF WindowInv
<1>10. \A i \in DOMAIN passed' :
        /\ passed'[i] \in [since : Nat, n : Nat] /\ passed'[i].n <= PerWindow
        /\ passed'[i].since <= second'
        /\ i \notin DOMAIN window' => ~Open(passed[i].since, Window) /\ passed'[i] = passed[i]
  BY <1>0, <1>1, <1>2, <1>4, <1>8 DEF WindowInv
<1> QED
  BY <1>9, <1>10 DEF WindowInv, Open

\* No step lets more of an address pass.
LEMMA WindowStep == KeyInv /\ [KeyNext]_keyVars => WindowInv'
<1> SUFFICES ASSUME KeyInv, [KeyNext]_keyVars PROVE WindowInv'
  OBVIOUS
<1>1. ASSUME UNCHANGED <<window, passed, second>> PROVE WindowInv'
  BY <1>1 DEF KeyInv, WindowInv, Open
<1>2. ASSUME NEW c \in Callers, NEW ip \in Addresses, Authenticate(c, ip) PROVE WindowInv'
  BY <1>1, <1>2, CountedIsBounded DEF Authenticate
<1>3. ASSUME NEW c \in Callers, EnforceKey(c) \/ CallEnds(c) PROVE WindowInv'
  BY <1>1, <1>3 DEF EnforceKey, CallEnds
<1>4. ASSUME NEW a \in Editors,
             (\E edit \in Edits : CreateKey(a, edit) \/ (\E id \in 1..keyNo : UpdateStatus(a, id, edit)))
             \/ ReadKey(a) \/ WriteKey(a) \/ DeleteKey(a)
      PROVE  WindowInv'
  BY <1>1, <1>4 DEF CreateKey, UpdateStatus, ReadKey, WriteKey, DeleteKey
<1>5. CASE SecondPasses
  <2>1. second \in Nat /\ second' = second + 1 /\ UNCHANGED <<window, passed>>
    BY <1>5 DEF SecondPasses, KeyInv, VkeyInv
  <2>2. \A i \in DOMAIN passed : ~Open(passed[i].since, Window) => second' - passed[i].since >= Window
    BY <2>1, KeyBounds DEF KeyInv, WindowInv, Open
  <2>3. \A i \in DOMAIN passed : passed[i].since \in Nat /\ passed[i].since <= second'
    BY <2>1 DEF KeyInv, WindowInv
  <2> QED
    BY <2>1, <2>2, <2>3, KeyBounds DEF KeyInv, WindowInv, Open
<1>6. CASE UNCHANGED keyVars
  BY <1>1, <1>6 DEF keyVars
<1> QED
  BY <1>2, <1>3, <1>4, <1>5, <1>6, Zenon DEF KeyNext

\* The invariant of the keys always holds.
LEMMA KeyHolds == KeySpec => []KeyInv
<1>1. KeyInv /\ [KeyNext]_keyVars => KeyInv'
  BY VkeyStep, EditStep, KeyCallStep, WindowStep DEF KeyInv
<1> QED
  BY KeyStart, <1>1, PTL DEF KeySpec

\* The two invariants imply what is claimed.
LEMMA AdmittedSuffices == AccessInv /\ KeyInv => OnlyTheAdmittedPass
<1> SUFFICES ASSUME AccessInv, KeyInv PROVE OnlyTheAdmittedPass
  OBVIOUS
<1>1. AccessTypeOK /\ ChangeEndsSessions
  BY DEF AccessTypeOK, AccessInv, DeskStates, ChangeEndsSessions, SessionsInv
<1>2. KeyTypeOK
  BY DEF KeyTypeOK, KeyInv, VkeyInv, KeyCallInv, CallStates, KeyRows
<1> QED
  BY <1>1, <1>2 DEF OnlyTheAdmittedPass, AccessInv, KeyInv, VkeyInv, KeyCallInv, WindowInv, LimiterHolds

\* Whatever administrators and clients do at a time, and wherever a handler is cut off: a
\* change of the password that was carried through ends the sessions before it, a revoked key stays revoked and admits no request, and no more requests of
\* an address pass than its limit (OnlyTheAdmittedPass; auth.rs, Sessions; admin.rs,
\* change_password and update_key; limits.rs and ratelimit.rs).
THEOREM OnlyTheAdmittedEverPass == AccessSpec /\ KeySpec => []OnlyTheAdmittedPass
BY AccessHolds, KeyHolds, AdmittedSuffices, PTL

-----------------------------------------------------------------------------
(* The enrollment of accounts. *)

Clear == {"cancelled", "error", "binding_changed"}
Ends == Clear \cup {"reauthorization_required", "success"}

\* Where a handler has taken a state, and has not added the account yet.
Before == {"code", "plugin", "provider", "list", "insert"}
Work == Before \cup {"reload", "finalize", "record"}
EnrollStages == {"idle", "start", "begin", "pasted"} \cup Work
Fields == {"at", "state", "by", "binding", "seen", "place", "result"}
AccountFields == {"state", "priority", "status", "binding", "checked"}

\* That a flow ended so is true of the accounts that there are.
NewAccounts(s) == {a \in accounts_ : a.state = s}
Told(s, result) ==
  /\ result \in Clear => NewAccounts(s) = {}
  /\ result = "reauthorization_required" => \A a \in NewAccounts(s) : a.status = "disabled"
  /\ result = "success" =>
       IF NewAccounts(s) = {} THEN swaps > 0 ELSE \A a \in NewAccounts(s) : a.status = "healthy"

\* A handler and the account it adds.
HandlerOk(r) ==
  /\ DOMAIN r = Fields /\ r.at \in EnrollStages /\ r.result \in Ends \cup {Gone}
  /\ r.by # Gone => r.at \in Work
  /\ r.at \in Before => NewAccounts(r.state) = {}
  /\ r.at \in {"list", "insert"} => r.seen.mode = "auth_flow" /\ r.seen.binding = r.binding
  /\ r.at \in {"reload", "finalize"} => \A a \in NewAccounts(r.state) : a.status = "healthy"
  /\ r.at = "record" => r.result \in Ends /\ Told(r.state, r.result)

\* Flows, their ends, and the states that were spoiled are of flows that were started; a
\* state is pending, spoiled or at an end, and what an end tells is true.
FlowInv ==
  /\ reviewed \in BOOLEAN /\ started \in Nat /\ swaps \in Nat
  /\ provider \in Rows \cup {Gone} /\ strategy \in Bindings \cup {Gone}
  /\ DOMAIN flows \subseteq 1..started /\ spoiled \subseteq 1..started
  /\ DOMAIN outcomes \subseteq 1..started
  /\ DOMAIN flows \cap spoiled = {} /\ DOMAIN flows \cap DOMAIN outcomes = {}
  /\ \A s \in DOMAIN outcomes : outcomes[s].result \in Ends /\ Told(s, outcomes[s].result)

\* An account is the only one of its state, which is consumed and was never spoiled.
AccountInv ==
  /\ \A a \in accounts_ :
       /\ DOMAIN a = AccountFields
       /\ a.state \in 1..started /\ a.state \notin DOMAIN flows /\ a.state \notin spoiled
       /\ a.checked.mode = "auth_flow" /\ a.checked.binding = a.binding
  /\ \A a, c \in accounts_ : a.state = c.state => a = c

\* The state that a handler works on is with nobody else.
HandlerInv ==
  /\ DOMAIN browser = Browsers
  /\ \A b \in Browsers :
       /\ HandlerOk(browser[b])
       /\ browser[b].at \in Work =>
            /\ browser[b].state \in 1..started
            /\ browser[b].state \notin DOMAIN flows \cup spoiled \cup DOMAIN outcomes
  /\ \A b, c \in Browsers :
       b # c /\ browser[b].at \in Work /\ browser[c].at \in Work => browser[b].state # browser[c].state

\* The inductive invariant.
EnrollInv == FlowInv /\ AccountInv /\ HandlerInv

\* A handler that does nothing is in order.
LEMMA FreeIsOk == HandlerOk(Free) /\ Free.at = "idle"
BY DEF HandlerOk, Free, Fields, EnrollStages, Work, Before

\* A handler that goes on, and some flows that end with it or were too old; a state is
\* spoiled only when its flow ends.
LEMMA HandlerMoves ==
  ASSUME EnrollInv, NEW b \in Browsers, NEW rec, browser' = [browser EXCEPT ![b] = rec],
         HandlerOk(rec), NEW ss, DOMAIN flows' = ss, ss \subseteq DOMAIN flows,
         spoiled \subseteq spoiled', spoiled' \subseteq spoiled \cup (DOMAIN flows \ ss),
         rec.at \in Work =>
           \/ rec.state \in DOMAIN flows \ ss /\ rec.state \notin spoiled'
           \/ browser[b].at \in Work /\ rec.state = browser[b].state,
         UNCHANGED <<started, outcomes, rowVars, accounts_>>
  PROVE  EnrollInv'
<1>1. DOMAIN flows' = ss
  OBVIOUS
<1>2. \A s, result : Told(s, result)' <=> Told(s, result)
  BY DEF Told, NewAccounts, rowVars
<1>3. \A r : HandlerOk(r)' <=> HandlerOk(r)
  BY DEF HandlerOk, Told, NewAccounts, rowVars
<1>4. FlowInv'
  BY <1>1, <1>2 DEF EnrollInv, FlowInv, rowVars
<1>5. AccountInv'
  BY <1>1 DEF EnrollInv, FlowInv, AccountInv
<1>6. DOMAIN browser' = Browsers /\ browser'[b] = rec /\ \A c \in Browsers \ {b} : browser'[c] = browser[c]
  BY DEF EnrollInv, HandlerInv
<1>7. \A c \in Browsers : HandlerOk(browser'[c])
  BY <1>6 DEF EnrollInv, HandlerInv
<1>8. \A c \in Browsers : browser'[c].at \in Work =>
        /\ browser'[c].state \in 1..started
        /\ browser'[c].state \notin ss \cup spoiled' \cup DOMAIN outcomes
  BY <1>6 DEF EnrollInv, HandlerInv, FlowInv
<1>9. \A c, d \in Browsers :
        c # d /\ browser'[c].at \in Work /\ browser'[d].at \in Work => browser'[c].state # browser'[d].state
  BY <1>6 DEF EnrollInv, HandlerInv, FlowInv
<1>10. HandlerInv'
  BY <1>1, <1>3, <1>6, <1>7, <1>8, <1>9 DEF HandlerInv
<1> QED
  BY <1>4, <1>5, <1>10 DEF EnrollInv

\* A handler that takes up its next task and touches nothing else.
LEMMA HandlerGoesOn ==
  ASSUME EnrollInv, NEW b \in Browsers, NEW rec, browser' = [browser EXCEPT ![b] = rec], HandlerOk(rec),
         rec.at \in Work => browser[b].at \in Work /\ rec.state = browser[b].state,
         UNCHANGED <<flows, started, outcomes, rowVars, accounts_, spoiled>>
  PROVE  EnrollInv'
BY HandlerMoves

\* A handler that stops, with some flows.
LEMMA HandlerStops ==
  ASSUME EnrollInv, NEW b \in Browsers, browser' = [browser EXCEPT ![b] = Free],
         DOMAIN flows' \subseteq DOMAIN flows,
         UNCHANGED <<started, outcomes, rowVars, accounts_, spoiled>>
  PROVE  EnrollInv'
BY FreeIsOk, HandlerMoves DEF Work, Before

\* A state that is taken is with the one handler that fits, or spoiled.
LEMMA TakeKeeps ==
  ASSUME EnrollInv, NEW b \in Browsers, NEW s \in LiveFlows, NEW fits \in BOOLEAN, Take(b, s, fits),
         UNCHANGED <<started, outcomes, rowVars, accounts_>>
  PROVE  EnrollInv'
<1>1. LiveFlows \subseteq DOMAIN flows /\ DOMAIN flows' = LiveFlows \ {s}
  BY DEF LiveFlows, Take, Keeping, LeftAfter
<1>2. CASE fits
  <2> DEFINE rec == [Free EXCEPT !.at = "code", !.state = s, !.by = flows[s].by, !.binding = flows[s].binding]
  <2>1. browser' = [browser EXCEPT ![b] = rec] /\ spoiled' = spoiled
    BY <1>2 DEF Take, Now
  <2>2. rec.at = "code" /\ rec.state = s /\ rec.result = Gone /\ DOMAIN rec = Fields
    BY DEF Free, Fields
  <2>3. NewAccounts(s) = {} /\ s \in DOMAIN flows \ (LiveFlows \ {s}) /\ s \notin spoiled
    BY <1>1 DEF EnrollInv, FlowInv, AccountInv, NewAccounts
  <2> HIDE DEF rec
  <2>4. HandlerOk(rec)
    BY <2>2, <2>3 DEF HandlerOk, EnrollStages, Work, Before
  <2> QED
    BY <1>1, <2>1, <2>2, <2>3, <2>4, HandlerMoves
<1>3. CASE ~fits
  <2>1. browser' = [browser EXCEPT ![b] = Free] /\ spoiled' = spoiled \cup {s}
    BY <1>3 DEF Take, Now
  <2>2. spoiled' \subseteq spoiled \cup (DOMAIN flows \ (LiveFlows \ {s}))
    BY <1>1, <2>1
  <2> QED
    BY <1>1, <2>1, <2>2, FreeIsOk, HandlerMoves DEF Work, Before
<1> QED
  BY <1>2, <1>3

\* A flow that is started has a state of its own.
LEMMA StartKeeps ==
  ASSUME EnrollInv, NEW b \in Browsers, StartCreate(b)
  PROVE  EnrollInv'
<1>0. LiveFlows \subseteq DOMAIN flows
  BY DEF LiveFlows
<1> DEFINE goes == strategy # Gone /\ MayEnroll(browser[b].seen, strategy) /\ started < MaxFlows
<1>1. CASE ~goes
  BY <1>1, HandlerStops DEF StartCreate, Now
<1>2. CASE goes
  <2> DEFINE rec == [Free EXCEPT !.at = "begin", !.state = started + 1]
  <2>1. /\ started' = started + 1 /\ DOMAIN flows' = LiveFlows \cup {started + 1}
        /\ browser' = [browser EXCEPT ![b] = rec]
        /\ UNCHANGED <<outcomes, rowVars, accounts_, spoiled>>
    BY <1>2 DEF StartCreate, Now
  <2>2. rec.at = "begin" /\ rec.result = Gone /\ rec.by = Gone /\ DOMAIN rec = Fields
    BY DEF Free, Fields
  <2> HIDE DEF rec
  <2>3. HandlerOk(rec)
    BY <2>2 DEF HandlerOk, EnrollStages, Work, Before
  <2>4. /\ started' \in Nat /\ 1..started \subseteq 1..started' /\ started + 1 \in 1..started'
        /\ started + 1 \notin 1..started
    BY <2>1 DEF EnrollInv, FlowInv
  <2>5. \A q, result : Told(q, result)' <=> Told(q, result)
    BY <2>1 DEF Told, NewAccounts, rowVars
  <2>6. \A r : HandlerOk(r)' <=> HandlerOk(r)
    BY <2>1 DEF HandlerOk, Told, NewAccounts, rowVars
  <2>7. FlowInv'
    BY <1>0, <2>1, <2>4, <2>5 DEF EnrollInv, FlowInv, rowVars
  <2>8. AccountInv'
    BY <1>0, <2>1, <2>4 DEF EnrollInv, AccountInv
  <2>9. DOMAIN browser' = Browsers /\ browser'[b] = rec /\ \A c \in Browsers \ {b} : browser'[c] = browser[c]
    BY <2>1 DEF EnrollInv, HandlerInv
  <2>10. rec.at \notin Work
    BY <2>2 DEF Work, Before
  <2>11. HandlerInv'
    BY <1>0, <2>1, <2>3, <2>4, <2>6, <2>9, <2>10 DEF EnrollInv, HandlerInv
  <2> QED
    BY <2>7, <2>8, <2>11 DEF EnrollInv
<1> QED
  BY <1>1, <1>2

\* The one account of a state is added by the handler that has the state.
LEMMA InsertKeeps ==
  ASSUME EnrollInv, NEW b \in Browsers, InsertAccount(b)
  PROVE  EnrollInv'
<1>1. CASE provider = Gone
  BY <1>1, HandlerStops DEF InsertAccount, Fails, Now
<1>2. CASE provider # Gone
  <2> DEFINE r == browser[b]
             new == [state |-> r.state, priority |-> r.place, status |-> "healthy",
                     binding |-> r.binding, checked |-> r.seen]
             rec == [r EXCEPT !.at = "reload"]
  <2>1. /\ r.at = "insert" /\ accounts_' = accounts_ \cup {new} /\ browser' = [browser EXCEPT ![b] = rec]
        /\ UNCHANGED <<flows, started, outcomes, rowVars, spoiled>>
    BY <1>2 DEF InsertAccount, Goes, Now
  <2>2. /\ HandlerOk(r) /\ DOMAIN r = Fields /\ NewAccounts(r.state) = {}
        /\ r.seen.mode = "auth_flow" /\ r.seen.binding = r.binding
        /\ r.state \in 1..started /\ r.state \notin DOMAIN flows \cup spoiled \cup DOMAIN outcomes
    BY <2>1 DEF EnrollInv, HandlerInv, HandlerOk, Work, Before
  <2>3. /\ DOMAIN new = AccountFields /\ new.state = r.state /\ new.status = "healthy"
        /\ new.binding = r.binding /\ new.checked = r.seen
    BY DEF AccountFields
  <2>4. /\ DOMAIN rec = Fields /\ rec.at = "reload" /\ rec.state = r.state /\ rec.result = r.result
    BY <2>2 DEF Fields
  <2> HIDE DEF new, rec
  <2>5. \A s : NewAccounts(s)' = IF s = r.state THEN {new} ELSE NewAccounts(s)
    BY <2>1, <2>2, <2>3 DEF NewAccounts
  <2>6. \A s, result : s # r.state => (Told(s, result)' <=> Told(s, result))
    BY <2>1, <2>5 DEF Told, rowVars
  <2>7. FlowInv'
    BY <2>1, <2>2, <2>6 DEF EnrollInv, FlowInv, rowVars
  <2>8. AccountInv'
    <3>1. \A a \in accounts_ : a.state # r.state
      BY <2>2 DEF NewAccounts
    <3> QED
      BY <2>1, <2>2, <2>3, <3>1 DEF EnrollInv, AccountInv
  <2>9. DOMAIN browser' = Browsers /\ browser'[b] = rec /\ \A c \in Browsers \ {b} : browser'[c] = browser[c]
    BY <2>1 DEF EnrollInv, HandlerInv
  <2>10. HandlerOk(browser[b])'
    BY <2>2, <2>3, <2>4, <2>5, <2>9 DEF HandlerOk, EnrollStages, Work, Before
  <2>11. ASSUME NEW c \in Browsers \ {b} PROVE HandlerOk(browser[c])'
    <3>1. HandlerOk(browser[c]) /\ (browser[c].at \in Work => browser[c].state # r.state)
      BY <2>1 DEF EnrollInv, HandlerInv, Work, Before
    <3> QED
      BY <2>5, <2>6, <2>9, <3>1 DEF HandlerOk, Work
  <2>12. HandlerInv'
    BY <2>1, <2>4, <2>9, <2>10, <2>11 DEF EnrollInv, HandlerInv, Work, Before
  <2> QED
    BY <2>7, <2>8, <2>12 DEF EnrollInv
<1> QED
  BY <1>1, <1>2

\* An account whose credential is refused is disabled by the handler that added it.
LEMMA FinalizeKeeps ==
  ASSUME EnrollInv, NEW b \in Browsers, NEW answer \in Answers, Finalize(b, answer)
  PROVE  EnrollInv'
<1> DEFINE r == browser[b]
<1>1. /\ r.at = "finalize" /\ HandlerOk(r) /\ DOMAIN r = Fields
      /\ r.state \in 1..started /\ r.state \notin DOMAIN flows \cup spoiled \cup DOMAIN outcomes
      /\ \A a \in NewAccounts(r.state) : a.status = "healthy"
  BY DEF Finalize, EnrollInv, HandlerInv, HandlerOk, Work
<1>2. Own(b) = NewAccounts(r.state)
  BY DEF Own, NewAccounts
<1>3. ASSUME NEW result \in Ends
      PROVE  LET rec == [r EXCEPT !.at = "record", !.result = result]
             IN DOMAIN rec = Fields /\ rec.at = "record" /\ rec.result = result /\ rec.state = r.state
  BY <1>1 DEF Fields
<1>4. CASE Own(b) = {} \/ answer = "undisabled"
  BY <1>4, HandlerStops DEF Finalize, Fails, Now
<1>5. CASE Own(b) # {} /\ answer = "valid"
  <2> DEFINE rec == [r EXCEPT !.at = "record", !.result = "success"]
  <2>1. /\ browser' = [browser EXCEPT ![b] = rec]
        /\ UNCHANGED <<flows, started, outcomes, rowVars, accounts_, spoiled>>
    BY <1>5 DEF Finalize, Results, Now
  <2>2. DOMAIN rec = Fields /\ rec.at = "record" /\ rec.result = "success" /\ rec.state = r.state
    BY <1>3 DEF Ends
  <2>3. Told(r.state, "success")
    BY <1>1, <1>2, <1>5 DEF Told, Clear
  <2> HIDE DEF rec
  <2>4. HandlerOk(rec)
    BY <2>2, <2>3 DEF HandlerOk, EnrollStages, Work, Before, Ends
  <2> QED
    BY <1>1, <2>1, <2>2, <2>4, HandlerGoesOn DEF Work
<1>6. CASE Own(b) # {} /\ answer \in {"invalid", "unloaded"}
  <2> DEFINE refused == [r EXCEPT !.at = "record", !.result = "reauthorization_required"]
             rec == IF answer = "invalid" THEN refused ELSE Free
             off(a) == [a EXCEPT !.status = "disabled"]
             offs == {off(a) : a \in NewAccounts(r.state)}
  <2>1. /\ accounts_' = (accounts_ \ NewAccounts(r.state)) \cup offs
        /\ browser' = [browser EXCEPT ![b] = rec]
        /\ UNCHANGED <<flows, started, outcomes, rowVars, spoiled>>
    BY <1>2, <1>6 DEF Finalize, Results, Fails, Now, Disabled
  <2>2. /\ DOMAIN rec = Fields
        /\ \/ rec = Free
           \/ rec.at = "record" /\ rec.result = "reauthorization_required" /\ rec.state = r.state
    <3>1. /\ DOMAIN refused = Fields /\ refused.at = "record" /\ refused.result = "reauthorization_required"
          /\ refused.state = r.state
      BY <1>3 DEF Ends
    <3> QED
      BY <3>1, FreeIsOk DEF HandlerOk
  <2>3. \A a \in NewAccounts(r.state) :
          /\ DOMAIN off(a) = AccountFields /\ off(a).state = r.state /\ off(a).status = "disabled"
          /\ off(a).binding = a.binding /\ off(a).checked = a.checked
    BY DEF NewAccounts, EnrollInv, AccountInv, AccountFields
  <2> HIDE DEF rec, off
  <2>4. \A a \in offs :
          /\ DOMAIN a = AccountFields /\ a.state = r.state /\ a.status = "disabled"
          /\ a.checked.mode = "auth_flow" /\ a.checked.binding = a.binding
    BY <2>3 DEF NewAccounts, EnrollInv, AccountInv
  <2>5. \A a, c \in offs : a = c
    BY DEF NewAccounts, EnrollInv, AccountInv
  <2> HIDE DEF offs
  <2>6. \A s : NewAccounts(s)' = IF s = r.state THEN offs ELSE NewAccounts(s)
    BY <2>1, <2>4 DEF NewAccounts
  <2>7. \A s, result : s # r.state => (Told(s, result)' <=> Told(s, result))
    BY <2>1, <2>6 DEF Told, rowVars
  <2>8. FlowInv'
    BY <1>1, <2>1, <2>7 DEF EnrollInv, FlowInv, rowVars
  <2>9. AccountInv'
    BY <1>1, <2>1, <2>4, <2>5 DEF EnrollInv, AccountInv, NewAccounts
  <2>10. DOMAIN browser' = Browsers /\ browser'[b] = rec /\ \A c \in Browsers \ {b} : browser'[c] = browser[c]
    BY <2>1 DEF EnrollInv, HandlerInv
  <2>11. HandlerOk(browser[b])'
    <3>1. CASE rec = Free
      BY <2>10, <3>1 DEF HandlerOk, Free, Fields, EnrollStages, Work, Before
    <3>2. CASE rec # Free
      <4>1. Told(browser[b].state, browser[b].result)'
        BY <2>2, <2>4, <2>6, <2>10, <3>2 DEF Told, Clear
      <4> QED
        BY <2>2, <2>10, <3>2, <4>1 DEF HandlerOk, EnrollStages, Work, Before, Ends
    <3> QED
      BY <3>1, <3>2
  <2>12. ASSUME NEW c \in Browsers \ {b} PROVE HandlerOk(browser[c])'
    <3>1. HandlerOk(browser[c]) /\ (browser[c].at \in Work => browser[c].state # r.state)
      BY <1>1 DEF EnrollInv, HandlerInv, Work, Before
    <3> QED
      BY <2>6, <2>7, <2>10, <3>1 DEF HandlerOk, Work
  <2>13. HandlerInv'
    BY <1>1, <2>1, <2>2, <2>10, <2>11, <2>12, FreeIsOk DEF EnrollInv, HandlerInv, Work, Before
  <2> QED
    BY <2>8, <2>9, <2>13 DEF EnrollInv
<1> QED
  BY <1>4, <1>5, <1>6 DEF Answers

\* The end of a flow is recorded when it is true.
LEMMA RecordKeeps ==
  ASSUME EnrollInv, NEW b \in Browsers, RecordCompletion(b)
  PROVE  EnrollInv'
<1> DEFINE r == browser[b]
           new == [by |-> r.by, result |-> r.result, till |-> day + FlowTtl]
<1>1. /\ r.at = "record" /\ r.result \in Ends /\ Told(r.state, r.result)
      /\ r.state \in 1..started /\ r.state \notin DOMAIN flows \cup spoiled \cup DOMAIN outcomes
  BY DEF RecordCompletion, EnrollInv, HandlerInv, HandlerOk, Work
<1>2. /\ outcomes' = [s \in LiveOutcomes \cup {r.state} |-> IF s = r.state THEN new ELSE outcomes[s]]
      /\ browser' = [browser EXCEPT ![b] = Free]
      /\ UNCHANGED <<flows, started, rowVars, accounts_, spoiled>>
  BY DEF RecordCompletion, Now
<1>3. LiveOutcomes \subseteq DOMAIN outcomes /\ new.result = r.result
  BY DEF LiveOutcomes
<1> HIDE DEF new
<1>4. \A s, result : Told(s, result)' <=> Told(s, result)
  BY <1>2 DEF Told, NewAccounts, rowVars
<1>5. \A q : HandlerOk(q)' <=> HandlerOk(q)
  BY <1>2 DEF HandlerOk, Told, NewAccounts, rowVars
<1>6. FlowInv'
  BY <1>1, <1>2, <1>3, <1>4 DEF EnrollInv, FlowInv, rowVars
<1>7. AccountInv'
  BY <1>2 DEF EnrollInv, AccountInv
<1>8. DOMAIN browser' = Browsers /\ browser'[b] = Free /\ \A c \in Browsers \ {b} : browser'[c] = browser[c]
  BY <1>2 DEF EnrollInv, HandlerInv
<1>9. Free.at \notin Work
  BY FreeIsOk DEF Work, Before
<1>10. HandlerInv'
  <2>1. \A c \in Browsers \ {b} : browser[c].at \in Work => browser[c].state # r.state
    BY <1>1 DEF EnrollInv, HandlerInv, Work
  <2> QED
    BY <1>2, <1>3, <1>5, <1>8, <1>9, <2>1, FreeIsOk DEF EnrollInv, HandlerInv
<1> QED
  BY <1>6, <1>7, <1>10 DEF EnrollInv

\* What the administrators do, and flows that were too old; a provider that is deleted
\* takes its accounts with it.
LEMMA RowsChange ==
  ASSUME EnrollInv, provider' \in Rows \cup {Gone}, strategy' \in Bindings \cup {Gone},
         swaps' \in Nat, swaps' >= swaps,
         accounts_' = accounts_ \/ (accounts_' = {} /\ swaps' > 0),
         DOMAIN flows' \subseteq DOMAIN flows,
         UNCHANGED <<reviewed, started, outcomes, browser, spoiled>>
  PROVE  EnrollInv'
<1>0. swaps \in Nat
  BY DEF EnrollInv, FlowInv
<1>1. \A s : NewAccounts(s)' = NewAccounts(s) \/ (NewAccounts(s)' = {} /\ swaps' > 0)
  BY DEF NewAccounts
<1>2. \A s, result : Told(s, result) => Told(s, result)'
  BY <1>0, <1>1 DEF Told, Clear
<1>3. \A r : HandlerOk(r) => HandlerOk(r)'
  BY <1>1, <1>2 DEF HandlerOk
<1>4. FlowInv'
  BY <1>2 DEF EnrollInv, FlowInv
<1>5. AccountInv'
  BY DEF EnrollInv, AccountInv
<1>6. HandlerInv'
  BY <1>3 DEF EnrollInv, HandlerInv
<1> QED
  BY <1>4, <1>5, <1>6 DEF EnrollInv

\* A restart forgets the flows, their ends and whoever was at work on them.
LEMMA RestartKeeps == EnrollInv /\ EnrollRestart => EnrollInv'
<1> SUFFICES ASSUME EnrollInv, EnrollRestart PROVE EnrollInv'
  OBVIOUS
<1>1. /\ DOMAIN flows' = {} /\ DOMAIN outcomes' = {} /\ browser' = [b \in Browsers |-> Free]
      /\ UNCHANGED <<started, rowVars, accounts_, spoiled>>
  BY DEF EnrollRestart
<1>2. FlowInv'
  BY <1>1 DEF EnrollInv, FlowInv, rowVars
<1>3. AccountInv'
  BY <1>1 DEF EnrollInv, AccountInv
<1>4. HandlerOk(Free)' /\ Free.at \notin Work
  BY FreeIsOk DEF HandlerOk, Free, Fields, EnrollStages, Work, Before
<1>5. HandlerInv'
  BY <1>1, <1>4 DEF HandlerInv
<1> QED
  BY <1>2, <1>3, <1>5 DEF EnrollInv

\* The handlers of one browser, but for those above.
LEMMA HandlerStep ==
  ASSUME EnrollInv, NEW b \in Browsers,
         \/ StartRead(b) \/ (\E answer \in {"url", "refused", "unreadable"} : StartAnswer(b, answer))
         \/ (\E answer \in {"cancelled", "failed", "unusable", "ok"} : Exchange(b, answer))
         \/ RecheckPlugin(b) \/ RecheckProvider(b) \/ ListAccounts(b)
         \/ (\E ok \in BOOLEAN : Reload(b, ok))
  PROVE  EnrollInv'
<1> DEFINE r == browser[b]
<1>0. /\ HandlerOk(r) /\ DOMAIN r = Fields /\ r.result \in Ends \cup {Gone}
      /\ (r.at \in Before => NewAccounts(r.state) = {})
  BY DEF EnrollInv, HandlerInv, HandlerOk
<1>1. CASE StartRead(b)
  <2> DEFINE rec == [Free EXCEPT !.at = "start", !.seen = provider]
  <2>1. rec.at = "start" /\ rec.result = Gone /\ rec.by = Gone /\ DOMAIN rec = Fields
    BY DEF Free, Fields
  <2>2. browser' = [browser EXCEPT ![b] = rec] /\ UNCHANGED <<flows, started, outcomes, rowVars, accounts_, spoiled>>
    BY <1>1 DEF StartRead, Now
  <2> HIDE DEF rec
  <2>3. HandlerOk(rec) /\ rec.at \notin Work
    BY <2>1 DEF HandlerOk, EnrollStages, Work, Before
  <2> QED
    BY <2>2, <2>3, HandlerGoesOn
<1>2. ASSUME NEW answer \in {"url", "refused", "unreadable"}, StartAnswer(b, answer) PROVE EnrollInv'
  <2>1. DOMAIN flows' \subseteq DOMAIN flows
    BY <1>2 DEF StartAnswer, Keeping
  <2> QED
    BY <1>2, <2>1, HandlerStops DEF StartAnswer, Now
<1>3. ASSUME NEW result \in Clear, r.at \in Before, Results(b, result),
             UNCHANGED <<flows, started, outcomes, rowVars, accounts_, spoiled>>
      PROVE  EnrollInv'
  <2> DEFINE rec == [r EXCEPT !.at = "record", !.result = result]
  <2>1. DOMAIN rec = Fields /\ rec.at = "record" /\ rec.result = result /\ rec.state = r.state
    BY <1>0 DEF Fields
  <2>2. browser' = [browser EXCEPT ![b] = rec]
    BY <1>3 DEF Results, Now
  <2>3. Told(r.state, result)
    BY <1>0, <1>3 DEF Told, Clear
  <2> HIDE DEF rec
  <2>4. HandlerOk(rec)
    BY <2>1, <2>3 DEF HandlerOk, EnrollStages, Work, Before, Ends
  <2> QED
    BY <1>3, <2>1, <2>2, <2>4, HandlerGoesOn DEF Work
<1>4. ASSUME Fails(b), UNCHANGED <<flows, started, outcomes, rowVars, accounts_, spoiled>> PROVE EnrollInv'
  BY <1>4, HandlerStops DEF Fails, Now
<1>5. ASSUME NEW answer \in {"cancelled", "failed", "unusable", "ok"}, Exchange(b, answer) PROVE EnrollInv'
  <2>1. r.at = "code" /\ UNCHANGED <<flows, started, outcomes, rowVars, accounts_, spoiled>>
    BY <1>5, Zenon DEF Exchange
  <2>2. Results(b, "cancelled") \/ Results(b, "error") \/ Fails(b) \/ Goes(b, "plugin")
    BY <1>5, Zenon DEF Exchange
  <2>3. CASE Goes(b, "plugin")
    <3> DEFINE rec == [r EXCEPT !.at = "plugin"]
    <3>1. DOMAIN rec = Fields /\ rec.at = "plugin" /\ rec.result = r.result /\ rec.state = r.state
      BY <1>0 DEF Fields
    <3>2. browser' = [browser EXCEPT ![b] = rec]
      BY <2>3 DEF Goes, Now
    <3> HIDE DEF rec
    <3>3. HandlerOk(rec)
      BY <1>0, <2>1, <3>1 DEF HandlerOk, EnrollStages, Work, Before
    <3> QED
      BY <2>1, <3>1, <3>2, <3>3, HandlerGoesOn DEF Work, Before
  <2> QED
    BY <1>3, <1>4, <2>1, <2>2, <2>3 DEF Clear, Before
<1>6. CASE RecheckPlugin(b)
  <2>1. CASE strategy = Gone
    BY <1>4, <1>6, <2>1 DEF RecheckPlugin
  <2>2. CASE strategy # Gone
    <3> DEFINE rec == [r EXCEPT !.at = "provider", !.seen = strategy]
    <3>1. DOMAIN rec = Fields /\ rec.at = "provider" /\ rec.result = r.result /\ rec.state = r.state
      BY <1>0 DEF Fields
    <3>2. /\ browser' = [browser EXCEPT ![b] = rec] /\ r.at = "plugin"
          /\ UNCHANGED <<flows, started, outcomes, rowVars, accounts_, spoiled>>
      BY <1>6, <2>2 DEF RecheckPlugin, Now
    <3> HIDE DEF rec
    <3>3. HandlerOk(rec)
      BY <1>0, <3>1, <3>2 DEF HandlerOk, EnrollStages, Work, Before
    <3> QED
      BY <3>1, <3>2, <3>3, HandlerGoesOn DEF Work, Before
  <2> QED
    BY <2>1, <2>2
<1>7. CASE RecheckProvider(b)
  <2>0. r.at = "provider" /\ UNCHANGED <<flows, started, outcomes, rowVars, accounts_, spoiled>>
    BY <1>7 DEF RecheckProvider
  <2>1. Fails(b) \/ Results(b, "binding_changed")
        \/ (StillBound(b) /\ Now(b, [r EXCEPT !.at = "list", !.seen = provider]))
    BY <1>7 DEF RecheckProvider
  <2>2. CASE StillBound(b) /\ Now(b, [r EXCEPT !.at = "list", !.seen = provider])
    <3> DEFINE rec == [r EXCEPT !.at = "list", !.seen = provider]
    <3>1. /\ DOMAIN rec = Fields /\ rec.at = "list" /\ rec.result = r.result /\ rec.state = r.state
          /\ rec.seen = provider /\ rec.binding = r.binding
      BY <1>0 DEF Fields
    <3>2. browser' = [browser EXCEPT ![b] = rec] /\ provider.mode = "auth_flow" /\ provider.binding = r.binding
      BY <2>2 DEF Now, StillBound, MayEnroll
    <3> HIDE DEF rec
    <3>3. HandlerOk(rec)
      BY <1>0, <2>0, <3>1, <3>2 DEF HandlerOk, EnrollStages, Work, Before
    <3> QED
      BY <2>0, <3>1, <3>2, <3>3, HandlerGoesOn DEF Work, Before
  <2> QED
    BY <1>3, <1>4, <2>0, <2>1, <2>2 DEF Clear, Before
<1>8. CASE ListAccounts(b)
  <2> DEFINE place == IF Priorities = {} THEN 1 ELSE Max(Priorities) + 1
             rec == [r EXCEPT !.at = "insert", !.place = place]
  <2>1. /\ browser' = [browser EXCEPT ![b] = rec] /\ r.at = "list"
        /\ UNCHANGED <<flows, started, outcomes, rowVars, accounts_, spoiled>>
    BY <1>8 DEF ListAccounts, Now
  <2> HIDE DEF place
  <2>2. /\ DOMAIN rec = Fields /\ rec.at = "insert" /\ rec.result = r.result /\ rec.state = r.state
        /\ rec.seen = r.seen /\ rec.binding = r.binding
    BY <1>0 DEF Fields
  <2> HIDE DEF rec
  <2>3. HandlerOk(rec)
    BY <1>0, <2>1, <2>2 DEF HandlerOk, EnrollStages, Work, Before
  <2> QED
    BY <2>1, <2>2, <2>3, HandlerGoesOn DEF Work, Before
<1>9. ASSUME NEW ok \in BOOLEAN, Reload(b, ok) PROVE EnrollInv'
  <2>0. r.at = "reload" /\ UNCHANGED <<flows, started, outcomes, rowVars, accounts_, spoiled>>
    BY <1>9 DEF Reload
  <2>1. CASE Goes(b, "finalize")
    <3> DEFINE rec == [r EXCEPT !.at = "finalize"]
    <3>1. DOMAIN rec = Fields /\ rec.at = "finalize" /\ rec.result = r.result /\ rec.state = r.state
      BY <1>0 DEF Fields
    <3>2. browser' = [browser EXCEPT ![b] = rec]
      BY <2>1 DEF Goes, Now
    <3> HIDE DEF rec
    <3>3. HandlerOk(rec)
      BY <1>0, <2>0, <3>1 DEF HandlerOk, EnrollStages, Work, Before
    <3> QED
      BY <2>0, <3>1, <3>2, <3>3, HandlerGoesOn DEF Work, Before
  <2>2. CASE Fails(b)
    BY <1>4, <2>0, <2>2
  <2> QED
    BY <1>9, <2>1, <2>2 DEF Reload
<1> QED
  BY <1>1, <1>2, <1>5, <1>6, <1>7, <1>8, <1>9

\* Nothing is enrolled at the start.
LEMMA EnrollStart == EnrollInit => EnrollInv
<1> SUFFICES ASSUME EnrollInit PROVE EnrollInv
  OBVIOUS
<1>1. \E x : x \in Bindings
  <2>1. Bindings # {}
    BY EnrollBounds, FS_EmptySet
  <2> QED
    BY <2>1
<1>2. strategy \in Bindings /\ provider \in Rows
  BY <1>1 DEF EnrollInit, Rows
<1>3. HandlerOk(Free) /\ Free.at \notin Work
  BY FreeIsOk DEF Work, Before
<1>4. DOMAIN flows = {} /\ DOMAIN outcomes = {} /\ browser = [b \in Browsers |-> Free]
  BY DEF EnrollInit
<1> QED
  BY <1>2, <1>3, <1>4 DEF EnrollInit, EnrollInv, FlowInv, AccountInv, HandlerInv

\* No step breaks the invariant.
LEMMA EnrollStep == EnrollInv /\ [EnrollNext]_enrollVars => EnrollInv'
<1> SUFFICES ASSUME EnrollInv, [EnrollNext]_enrollVars PROVE EnrollInv'
  OBVIOUS
<1>1. ASSUME NEW b \in Browsers, NEW s \in 1..started, NEW cookie \in Browsers \cup {Gone}, Callback(b, s, cookie)
      PROVE  EnrollInv'
  <2> DEFINE fits == IF cookie = Gone THEN reviewed ELSE cookie = flows[s].by
  <2>1. s \in LiveFlows /\ Take(b, s, fits) /\ UNCHANGED <<started, outcomes, rowVars, accounts_>>
    BY <1>1 DEF Callback
  <2>2. reviewed \in BOOLEAN
    BY Zenon DEF EnrollInv, FlowInv
  <2>3. fits \in BOOLEAN
    BY <2>2, Zenon
  <2> HIDE DEF fits
  <2> QED
    BY <2>1, <2>3, TakeKeeps
<1>2. ASSUME NEW b \in Browsers, NEW s \in 1..started, CallbackUnknown(b, s) PROVE EnrollInv'
  <2>1. DOMAIN flows' \subseteq DOMAIN flows
    BY <1>2 DEF CallbackUnknown, Keeping, LiveFlows
  <2>2. provider \in Rows \cup {Gone} /\ strategy \in Bindings \cup {Gone} /\ swaps \in Nat /\ swaps >= swaps
    BY DEF EnrollInv, FlowInv
  <2> QED
    BY <1>2, <2>1, <2>2, RowsChange DEF CallbackUnknown, rowVars
<1>3. ASSUME NEW b \in Browsers, NEW s \in 1..started, ManualPeek(b, s) PROVE EnrollInv'
  <2> DEFINE rec == [Free EXCEPT !.at = "pasted", !.state = s]
  <2>1. DOMAIN flows' \subseteq DOMAIN flows /\ browser' = [browser EXCEPT ![b] = rec]
    BY <1>3 DEF ManualPeek, Keeping, LiveFlows, Now
  <2>2. rec.at = "pasted" /\ rec.result = Gone /\ rec.by = Gone /\ DOMAIN rec = Fields
    BY DEF Free, Fields
  <2> HIDE DEF rec
  <2>3. HandlerOk(rec) /\ rec.at \notin Work
    BY <2>2 DEF HandlerOk, EnrollStages, Work, Before
  <2> QED
    BY <1>3, <2>1, <2>3, HandlerMoves DEF ManualPeek
<1>4. ASSUME NEW b \in Browsers, ManualTake(b) PROVE EnrollInv'
  <2>1. CASE browser[b].state \in LiveFlows
    BY <1>4, <2>1, TakeKeeps DEF ManualTake
  <2>2. CASE browser[b].state \notin LiveFlows
    <3>1. DOMAIN flows' \subseteq DOMAIN flows
      BY <1>4, <2>2 DEF ManualTake, Keeping, LiveFlows
    <3> QED
      BY <1>4, <2>2, <3>1, HandlerStops DEF ManualTake, Now
  <2> QED
    BY <2>1, <2>2
<1>5. ASSUME NEW edited \in Rows, ProviderEdited(edited) PROVE EnrollInv'
  <2>1. strategy \in Bindings \cup {Gone} /\ swaps' \in Nat /\ swaps' >= swaps
    BY <1>5 DEF ProviderEdited, Swap, EnrollInv, FlowInv
  <2> QED
    BY <1>5, <2>1, RowsChange DEF ProviderEdited
<1>6. CASE ProviderDeleted
  <2>1. strategy \in Bindings \cup {Gone} /\ swaps' \in Nat /\ swaps' >= swaps /\ swaps' > 0
    BY <1>6 DEF ProviderDeleted, Swap, EnrollInv, FlowInv
  <2> QED
    BY <1>6, <2>1, RowsChange DEF ProviderDeleted
<1>7. ASSUME NEW new \in Bindings \cup {Gone}, PluginChanged(new) PROVE EnrollInv'
  <2>1. provider \in Rows \cup {Gone} /\ swaps' \in Nat /\ swaps' >= swaps
    BY <1>7 DEF PluginChanged, Swap, EnrollInv, FlowInv
  <2> QED
    BY <1>7, <2>1, RowsChange DEF PluginChanged
<1>8. CASE DayPasses \/ UNCHANGED enrollVars
  <2>1. provider \in Rows \cup {Gone} /\ strategy \in Bindings \cup {Gone} /\ swaps \in Nat /\ swaps >= swaps
    BY DEF EnrollInv, FlowInv
  <2> QED
    BY <1>8, <2>1, RowsChange DEF DayPasses, rowVars, enrollVars
<1> QED
  BY <1>1, <1>2, <1>3, <1>4, <1>5, <1>6, <1>7, <1>8, StartKeeps, InsertKeeps, FinalizeKeeps, RecordKeeps,
     RestartKeeps, HandlerStep DEF EnrollNext

\* The invariant implies that enrollment is sound.
LEMMA EnrollSuffices == EnrollInv => EnrollmentIsSound
<1> SUFFICES ASSUME EnrollInv PROVE EnrollmentIsSound
  OBVIOUS
<1>1. EnrollTypeOK
  BY DEF EnrollInv, FlowInv, HandlerInv, HandlerOk, EnrollTypeOK, Ends, Clear
<1>2. StateIsUsedOnce
  <2>1. ASSUME NEW s \in 1..started PROVE Cardinality({a \in accounts_ : a.state = s}) <= 1
    <3> DEFINE S == {a \in accounts_ : a.state = s}
    <3>1. \A a, c \in S : a = c
      BY DEF EnrollInv, AccountInv
    <3>2. S = {} \/ \E x : S = {x}
      BY <3>1
    <3>3. Cardinality({}) = 0 /\ \A x : Cardinality({x}) = 1
      BY FS_EmptySet, FS_Singleton
    <3> QED
      BY <3>2, <3>3
  <2>2. \A b \in Browsers : browser[b].by # Gone => browser[b].at \in Work
    BY DEF EnrollInv, HandlerInv, HandlerOk
  <2> QED
    BY <2>1, <2>2 DEF StateIsUsedOnce, EnrollInv, HandlerInv
<1>3. SpoiledIsDead /\ EnrolledAsBound
  BY DEF SpoiledIsDead, EnrolledAsBound, EnrollInv, AccountInv
<1>4. ResultIsTrue
  <2> SUFFICES ASSUME NEW b \in Browsers, NEW s \in 1..started
               PROVE  LET mine == {a \in accounts_ : a.state = s}
                      IN /\ FlowStatus(b, s) \in {"pending", "cancelled", "error", "binding_changed"} => mine = {}
                         /\ FlowStatus(b, s) = "reauthorization_required" => \A a \in mine : a.status = "disabled"
                         /\ FlowStatus(b, s) = "success" =>
                              IF mine = {} THEN swaps > 0 ELSE \A a \in mine : a.status = "healthy"
    BY DEF ResultIsTrue
  <2>1. FlowStatus(b, s) = "pending" => s \in DOMAIN flows \/ s \in DOMAIN outcomes
    BY DEF FlowStatus, LiveFlows, LiveOutcomes
  <2>2. s \in DOMAIN flows => NewAccounts(s) = {}
    BY DEF EnrollInv, AccountInv, NewAccounts
  <2>3. \/ FlowStatus(b, s) = "pending" /\ s \in DOMAIN flows
        \/ FlowStatus(b, s) = "unknown"
        \/ FlowStatus(b, s) \in Ends /\ Told(s, FlowStatus(b, s))
    BY DEF FlowStatus, LiveFlows, LiveOutcomes, EnrollInv, FlowInv
  <2> QED
    BY <2>2, <2>3 DEF NewAccounts, Told, Ends, Clear
<1> QED
  BY <1>1, <1>2, <1>3, <1>4 DEF EnrollmentIsSound

\* However callbacks, pasted URLs, edits and restarts interleave: a flow adds at most one
\* account, of the strategy its provider had, none when a foreign cookie came with it,
\* and the dashboard is told what happened (EnrollmentIsSound; admin.rs,
\* complete_plugin_auth; auth.rs, PluginAuthSessions).
THEOREM EnrollmentAlwaysSound == EnrollSpec => []EnrollmentIsSound
BY EnrollStart, EnrollStep, EnrollSuffices, PTL DEF EnrollSpec
-----------------------------------------------------------------------------
(* The configuration: what handlers' statements make of the tables, and the  *)
(* snapshot that requests are routed by.                                     *)

\* How many places of S come up to i.
RankOf(S, i) == Cardinality({j \in S : j <= i})

\* A later place has a higher rank (Kept).
LEMMA RankStrict ==
  ASSUME NEW S \in SUBSET Nat, IsFiniteSet(S), NEW i \in Nat, NEW j \in S, i < j
  PROVE  RankOf(S, i) < RankOf(S, j)
<1> DEFINE A == {l \in S : l <= i}
           B == {l \in S : l <= j}
<1>0. i \in Nat /\ j \in Nat /\ \A l \in S : l \in Nat
  OBVIOUS
<1>6. \A l \in S : l <= i => l <= j
  BY <1>0
<1>7. A \subseteq B
  BY <1>6
<1>8. j <= j /\ ~(j <= i)
  BY <1>0
<1>1. A \subseteq B /\ j \in B /\ j \notin A
  BY <1>7, <1>8
<1>2. IsFiniteSet(B) /\ IsFiniteSet(A)
  BY FS_Subset
<1>3. A # B /\ Cardinality(A) <= Cardinality(B)
  BY <1>1, <1>2, FS_Subset
<1>4. Cardinality(A) # Cardinality(B)
  BY <1>1, <1>2, FS_Subset
<1>5. Cardinality(A) \in Nat /\ Cardinality(B) \in Nat
  BY <1>2, FS_CardinalityType
<1> QED
  BY <1>3, <1>4, <1>5 DEF RankOf

\* The rank of a place is one of 1..Cardinality(S).
LEMMA RankType ==
  ASSUME NEW S \in SUBSET Nat, IsFiniteSet(S), NEW i \in S
  PROVE  RankOf(S, i) \in 1..Cardinality(S)
<1> DEFINE A == {l \in S : l <= i}
<1>1. IsFiniteSet(A) /\ Cardinality(A) <= Cardinality(S)
  BY FS_Subset
<1>2. i \in A
  OBVIOUS
<1>3. Cardinality(A) # 0
  BY <1>1, <1>2, FS_EmptySet
<1>4. Cardinality(A) \in Nat /\ Cardinality(S) \in Nat
  BY <1>1, FS_CardinalityType
<1> QED
  BY <1>1, <1>3, <1>4 DEF RankOf

\* The place of a rank (nth of Kept).
PlaceOf(S, n) == CHOOSE i \in S : RankOf(S, i) = n

\* There is a place of each rank (Kept).
LEMMA PlaceIs ==
  ASSUME NEW S \in SUBSET Nat, IsFiniteSet(S), NEW n \in 1..Cardinality(S)
  PROVE  PlaceOf(S, n) \in S /\ RankOf(S, PlaceOf(S, n)) = n
<1> DEFINE T == 1..Cardinality(S)
           f == [i \in S |-> RankOf(S, i)]
<1>1. Cardinality(S) \in Nat
  BY FS_CardinalityType
<1>2. IsFiniteSet(T) /\ Cardinality(T) = Cardinality(S)
  BY <1>1, FS_Interval
<1>3. f \in [S -> T]
  BY RankType
<1>4. \A i, j \in S : i # j => f[i] # f[j]
  <2> TAKE i, j \in S
  <2>1. CASE i < j
    BY <2>1, <1>3, RankStrict
  <2>2. CASE j < i
    BY <2>2, <1>3, RankStrict
  <2> QED
    BY <2>1, <2>2
<1>5. f \in Injection(S, T)
  BY <1>3, <1>4 DEF Injection, IsInjective
<1>6. f \in Surjection(S, T)
  BY <1>2, <1>5, FS_Injection
<1>7. \E i \in S : RankOf(S, i) = n
  BY <1>6 DEF Surjection
<1> QED
  BY <1>7 DEF PlaceOf

\* What is kept of a list is of the list, and of what is to be kept (Kept).
LEMMA KeptIs ==
  ASSUME NEW T, NEW s \in Seq(T), NEW R
  PROVE  /\ Kept(s, R) \in Seq(T)
         /\ \A k \in DOMAIN Kept(s, R) : \E i \in DOMAIN s : Kept(s, R)[k] = s[i] /\ s[i] \in R
<1> DEFINE at == {i \in DOMAIN s : s[i] \in R}
           n == Cardinality(at)
<1>1. DOMAIN s = 1..Len(s) /\ Len(s) \in Nat /\ at \in SUBSET Nat
  OBVIOUS
<1>2. IsFiniteSet(at) /\ n \in Nat
  <2>1. IsFiniteSet(1..Len(s))
    BY <1>1, FS_Interval
  <2>2. at \subseteq 1..Len(s)
    BY <1>1
  <2> QED
    BY <2>1, <2>2, FS_Subset, FS_CardinalityType
<1>3. Kept(s, R) = [k \in 1..n |-> s[PlaceOf(at, k)]]
  BY DEF Kept, PlaceOf, RankOf
<1>4. \A k \in 1..n : PlaceOf(at, k) \in at
  BY <1>1, <1>2, PlaceIs
<1> HIDE DEF at, n
<1>5. \A k \in 1..n : s[PlaceOf(at, k)] \in T
  BY <1>1, <1>4 DEF at
<1>6. Kept(s, R) \in Seq(T) /\ DOMAIN Kept(s, R) = 1..n
  BY <1>2, <1>3, <1>5
<1>7. \A k \in 1..n : \E i \in DOMAIN s : Kept(s, R)[k] = s[i] /\ s[i] \in R
  BY <1>3, <1>4 DEF at
<1> QED BY <1>6, <1>7

\* The rank of a place among all places is the place.
LEMMA RankInAll ==
  ASSUME NEW n \in Nat, NEW i \in 1..n
  PROVE  RankOf(1..n, i) = i
<1>1. {j \in 1..n : j <= i} = 1..i
  OBVIOUS
<1>2. Cardinality(1..i) = IF 1 > i THEN 0 ELSE i - 1 + 1
  BY FS_Interval
<1>3. RankOf(1..n, i) = Cardinality(1..i)
  BY <1>1 DEF RankOf
<1> QED BY <1>2, <1>3

\* Where all are to be kept, nothing goes (Kept).
LEMMA KeptAll ==
  ASSUME NEW T, NEW s \in Seq(T), NEW R, \A i \in DOMAIN s : s[i] \in R
  PROVE  Kept(s, R) = s
<1> DEFINE at == {i \in DOMAIN s : s[i] \in R}
           n == Len(s)
<1>1. at = 1..n /\ n \in Nat /\ DOMAIN s = 1..n
  OBVIOUS
<1>2. Kept(s, R) = [k \in 1..Cardinality(at) |-> s[PlaceOf(at, k)]]
  BY DEF Kept, PlaceOf, RankOf
<1>3. Cardinality(1..n) = n /\ IsFiniteSet(1..n)
  <2>1. Cardinality(1..n) = IF 1 > n THEN 0 ELSE n - 1 + 1
    BY <1>1, FS_Interval
  <2> QED BY <1>1, <2>1, FS_Interval
<1> HIDE DEF at, n
<1>4. ASSUME NEW k \in 1..n PROVE PlaceOf(1..n, k) = k
  <2>1. PlaceOf(1..n, k) \in 1..n /\ RankOf(1..n, PlaceOf(1..n, k)) = k
    BY <1>1, <1>3, PlaceIs
  <2> QED BY <1>1, <2>1, RankInAll
<1>5. Kept(s, R) = [k \in 1..n |-> s[k]]
  BY <1>1, <1>2, <1>3, <1>4
<1> QED BY <1>1, <1>5

-----------------------------------------------------------------------------
\* The tables hold rows of their types that name rows which are there, and each model
\* has the override that it was given last.
RowTypes ==
  /\ providers \in [1..MaxProviders -> ProviderRow \cup {None}]
  /\ accounts \in [1..MaxAccounts -> AccountRow \cup {None}]
  /\ models \in [1..MaxModels -> ModelRow \cup {None}]
  /\ routes \in [1..MaxRoutes -> RouteNames \cup {None}]
  /\ targets \in [1..MaxRoutes -> Seq(TargetRow)]
  /\ aliases \in [Aliases -> AliasRow \cup {None}]
  /\ made \in [providers : 0..MaxProviders, accounts : 0..MaxAccounts,
               models : 0..MaxModels, routes : 0..MaxRoutes]
  /\ given \in [1..MaxModels -> Transports \cup {None}]

Accounted == \A a \in 1..MaxAccounts : accounts[a] # None => providers[accounts[a].provider] # None

Modelled == \A m \in 1..MaxModels :
  models[m] # None => providers[models[m].provider] # None /\ models[m].override = given[m]

Targeted == \A r \in 1..MaxRoutes : \A i \in 1..Len(targets[r]) :
  /\ routes[r] # None /\ models[targets[r][i].model] # None
  /\ targets[r][i].account # None => accounts[targets[r][i].account] # None

\* Ids are handed out in turn.
InTurn ==
  /\ \A p \in 1..MaxProviders : providers[p] # None => p <= made.providers
  /\ \A a \in 1..MaxAccounts : accounts[a] # None => a <= made.accounts
  /\ \A m \in 1..MaxModels : models[m] # None => m <= made.models
  /\ \A r \in 1..MaxRoutes : routes[r] # None => r <= made.routes

RowInv == RowTypes /\ Accounted /\ Modelled /\ Targeted /\ InTurn

\* A list is a sequence of something.
IsList(s) == s \in Seq({s[k] : k \in DOMAIN s})

\* What the statements of a handler hold, by what they do.
Good(s) ==
  /\ s.do \in {"insert_provider", "import_provider"} => s.row \in ProviderRow
  /\ s.do = "update_provider" => s.row \in Names
  /\ s.do \in {"update_provider_credential_semantics", "reconcile", "provision"} => s.row \in Modes
  /\ s.do = "insert_account" =>
       \E p, l : l \in Labels /\ s.row = [provider |-> p, label |-> l, disabled |-> FALSE]
  /\ s.do = "update_account" => s.row.label \in Labels /\ s.row.disabled \in BOOLEAN
  /\ s.do = "insert_model" =>
       \E p, u, e : /\ u \in Upstreams /\ e \in BOOLEAN
                    /\ s.row = [provider |-> p, upstream |-> u, enabled |-> e, override |-> None,
                                gone |-> FALSE]
  /\ s.do = "update_model" => s.row \in BOOLEAN
  /\ s.do = "set_model_transport_override" => s.row \in Transports \cup {None}
  /\ s.do = "merge_model_discovery" => s.row.gone \in BOOLEAN
  /\ s.do = "insert_route" => s.row \in RouteNames
  /\ s.do = "insert_route_target" => \E a, m : s.row = [account |-> a, model |-> m]
  /\ s.do \in {"upsert_alias", "update_alias", "insert_alias"} => s.row \in AliasRow
  /\ s.do = "import_account" => s.row.label \in Labels
  /\ s.do = "import_model" =>
       s.row.key \in ModelKeys /\ s.row.enabled \in BOOLEAN /\ s.row.override \in Transports \cup {None}
  /\ s.do = "import_route" =>
       s.row.name \in RouteNames /\ \E T : s.row.targets \in Seq(T)
  /\ s.do = "import_alias" =>
       s.row.type \in {"model", "route"} /\ (s.row.type = "model" => s.row.target \in ModelKeys \cup {None})

GoodList(s) == IsList(s) /\ \A i \in DOMAIN s : Good(s[i])

Importing == {"import_provider", "import_account", "import_models", "import_model",
              "import_route", "import_alias"}

\* The rows of a document.
DocOf(d) ==
  /\ IsFiniteSet(d.providers) /\ d.providers \subseteq ProviderRow
  /\ IsFiniteSet(d.accounts) /\ \A entry \in d.accounts : entry.label \in Labels
  /\ IsFiniteSet(d.models)
  /\ \A entry \in d.models :
       entry.key \in ModelKeys /\ entry.enabled \in BOOLEAN /\ entry.override \in Transports \cup {None}
  /\ IsFiniteSet(d.routes)
  /\ \A entry \in d.routes : entry.name \in RouteNames /\ \E T : entry.targets \in Seq(T)
  /\ IsFiniteSet(d.aliases)
  /\ \A entry \in d.aliases :
       entry.type \in {"model", "route"} /\ (entry.type = "model" => entry.target \in ModelKeys \cup {None})

\* What a handler has before it, the names it knows and the rows it has read are sound; an
\* import has looked up the names before it applies the document's rows.
WorkOf(stmts, names, rows) ==
  /\ GoodList(stmts)
  /\ names = None /\ (\E i \in DOMAIN stmts : stmts[i].do \in Importing) =>
       stmts # <<>> /\ Head(stmts).do = "import_begin"
  /\ names = None \/ names \in Knowledge
  /\ rows = None \/ rows \in Configs

IsPerHandler(f) == f = [h \in Handlers |-> f[h]]

WorkInv ==
  /\ DocOf(doc)
  /\ IsPerHandler(todo) /\ IsPerHandler(known) /\ IsPerHandler(buf)
  /\ starts \in 0..MaxHandlers
  /\ \A h \in Handlers : WorkOf(todo[h], known[h], buf[h])

\* Whom the snapshot serves (registry.rs reload).
SnapInv == \A a \in Live(snap.accounts) : Allowed(snap, a)

RowWhole == Config \in Configs /\ Whole(Config) /\ OverrideIsKept

\* The tables are configurations, and whole.
LEMMA RowInvIs == RowInv => RowWhole
<1> USE DEF RowWhole
<1> SUFFICES ASSUME RowInv PROVE Config \in Configs /\ Whole(Config) /\ OverrideIsKept
  OBVIOUS
<1>1. Config \in Configs
  BY DEF RowInv, RowTypes, Config, Configs
<1>2. \A a \in Live(accounts) : providers[accounts[a].provider] # None
  BY DEF RowInv, RowTypes, Accounted, Live
<1>3. \A m \in Live(models) : providers[models[m].provider] # None /\ models[m].override = given[m]
  BY DEF RowInv, RowTypes, Modelled, Live
<1>4. \A r \in DOMAIN targets : \A t \in Range(targets[r]) :
        /\ routes[r] # None /\ models[t.model] # None
        /\ t.account # None => accounts[t.account] # None
  <2> TAKE r \in DOMAIN targets
  <2> TAKE t \in Range(targets[r])
  <2>1. r \in 1..MaxRoutes /\ targets[r] \in Seq(TargetRow)
    BY DEF RowInv, RowTypes
  <2>2. PICK i \in 1..Len(targets[r]) : t = targets[r][i]
    BY <2>1 DEF Range
  <2> QED BY <2>1, <2>2 DEF RowInv, Targeted
<1> QED BY <1>1, <1>2, <1>3, <1>4 DEF Whole, OverrideIsKept, Config

\* The same after a step.
LEMMA RowInvIsNext == RowInv' => RowWhole'
BY RowInvIs, PTL

\* Steps that leave the tables alone.
LEMMA RowsSame ==
  ASSUME RowInv, UNCHANGED <<tables, made, given>>
  PROVE  RowInv'
BY DEF RowInv, RowTypes, Accounted, Modelled, Targeted, InTurn, tables

\* A new provider gets an id that nothing names yet (insert_provider).
LEMMA InsertProviderRows ==
  ASSUME RowInv, NEW h \in Handlers, Good(Head(todo[h])), InsertProvider(h)
  PROVE  RowInv'
<1> DEFINE p == made.providers + 1
           entry == Head(todo[h]).row
<1>1. p \in 1..MaxProviders /\ entry \in ProviderRow /\ entry # None
  BY ConfigAssumption DEF InsertProvider, Ready, IsNext, Good, RowInv, RowTypes
<1>2. /\ providers' = [providers EXCEPT ![p] = entry] /\ made' = [made EXCEPT !.providers = p]
      /\ UNCHANGED <<accounts, models, routes, targets, aliases, given>>
  BY DEF InsertProvider
<1> HIDE DEF p, entry
<1>3. RowTypes'
  BY <1>1, <1>2 DEF RowInv, RowTypes
<1>4. \A q \in 1..MaxProviders : providers[q] # None => providers'[q] # None
  BY <1>1, <1>2 DEF RowInv, RowTypes
<1>5. Accounted'
  BY <1>2, <1>4 DEF RowInv, RowTypes, Accounted, AccountRow
<1>6. Modelled'
  BY <1>2, <1>4 DEF RowInv, RowTypes, Modelled, ModelRow
<1>7. Targeted'
  BY <1>2 DEF RowInv, Targeted
<1>8. InTurn'
  BY <1>1, <1>2 DEF RowInv, RowTypes, InTurn, p
<1> QED BY <1>3, <1>5, <1>6, <1>7, <1>8 DEF RowInv

\* A row that stays as it was, but for a name or a mode.
LEMMA ProviderRows ==
  ASSUME RowInv, providers' \in [1..MaxProviders -> ProviderRow \cup {None}],
         \A q \in 1..MaxProviders : providers'[q] # None <=> providers[q] # None,
         UNCHANGED <<accounts, models, routes, targets, aliases, made, given>>
  PROVE  RowInv'
<1>1. RowTypes'
  BY DEF RowInv, RowTypes
<1>2. Accounted'
  BY DEF RowInv, RowTypes, Accounted, AccountRow
<1>3. Modelled'
  BY DEF RowInv, RowTypes, Modelled, ModelRow
<1>4. Targeted'
  BY DEF RowInv, Targeted
<1>5. InTurn'
  BY DEF RowInv, RowTypes, InTurn
<1> QED BY <1>1, <1>2, <1>3, <1>4, <1>5 DEF RowInv

\* What is written over a provider keeps it one (update_provider, the credential semantics).
LEMMA UpdateProviderRows ==
  ASSUME RowInv, NEW h \in Handlers, Good(Head(todo[h])), UpdateProvider(h) \/ UpdateSemantics(h)
  PROVE  RowInv'
<1>1. CASE UpdateProvider(h)
  <2> DEFINE p == Head(todo[h]).id
             entry == Head(todo[h]).row
  <2>1. entry \in Names
    BY <1>1 DEF UpdateProvider, Ready, IsNext, Good
  <2>2. providers' = [providers EXCEPT ![p] = IF @ = None THEN None ELSE [@ EXCEPT !.name = entry]]
        /\ UNCHANGED <<accounts, models, routes, targets, aliases, made, given>>
    BY <1>1 DEF UpdateProvider
  <2> HIDE DEF p, entry
  <2>3. \A q \in 1..MaxProviders : providers[q] # None =>
          [providers[q] EXCEPT !.name = entry] \in ProviderRow /\ [providers[q] EXCEPT !.name = entry] # None
    BY <2>1, ConfigAssumption DEF RowInv, RowTypes, ProviderRow
  <2>4. \A q \in 1..MaxProviders :
          providers'[q] \in ProviderRow \cup {None} /\ (providers'[q] # None <=> providers[q] # None)
    BY <2>2, <2>3 DEF RowInv, RowTypes
  <2>5. providers' \in [1..MaxProviders -> ProviderRow \cup {None}]
    BY <2>2, <2>4 DEF RowInv, RowTypes
  <2> QED BY <2>2, <2>4, <2>5, ProviderRows
<1>2. CASE UpdateSemantics(h)
  <2> DEFINE p == Id(h, Head(todo[h]).id)
             entry == Head(todo[h]).row
  <2>1. entry \in Modes
    BY <1>2 DEF UpdateSemantics, Ready, IsNext, Good
  <2>2. providers' = [providers EXCEPT ![p] = IF @ = None THEN None ELSE [@ EXCEPT !.mode = entry]]
        /\ UNCHANGED <<accounts, models, routes, targets, aliases, made, given>>
    BY <1>2 DEF UpdateSemantics
  <2> HIDE DEF p, entry
  <2>3. \A q \in 1..MaxProviders : providers[q] # None =>
          [providers[q] EXCEPT !.mode = entry] \in ProviderRow /\ [providers[q] EXCEPT !.mode = entry] # None
    BY <2>1, ConfigAssumption DEF RowInv, RowTypes, ProviderRow
  <2>4. \A q \in 1..MaxProviders :
          providers'[q] \in ProviderRow \cup {None} /\ (providers'[q] # None <=> providers[q] # None)
    BY <2>2, <2>3 DEF RowInv, RowTypes
  <2>5. providers' \in [1..MaxProviders -> ProviderRow \cup {None}]
    BY <2>2, <2>4 DEF RowInv, RowTypes
  <2> QED BY <2>2, <2>4, <2>5, ProviderRows
<1> QED BY <1>1, <1>2

\* What a deletion takes along (ON DELETE CASCADE).
LEMMA CascadeRows ==
  ASSUME RowInv, NEW gone, NEW unserved, Cascade(gone, unserved),
         providers' \in [1..MaxProviders -> ProviderRow \cup {None}],
         \A q \in 1..MaxProviders : providers'[q] # None => providers[q] # None,
         \A a \in 1..MaxAccounts \ gone :
           accounts[a] # None => providers'[accounts[a].provider] # None,
         \A m \in 1..MaxModels \ unserved :
           models[m] # None => providers'[models[m].provider] # None,
         UNCHANGED <<routes, aliases, made, given>>
  PROVE  RowInv'
<1>1. /\ accounts' = [a \in 1..MaxAccounts |-> IF a \in gone THEN None ELSE accounts[a]]
      /\ models' = [m \in 1..MaxModels |-> IF m \in unserved THEN None ELSE models[m]]
  BY DEF Cascade, RowInv, RowTypes
<1>2. PICK R : /\ \A r \in 1..MaxRoutes :
                    R[r] = {t \in Range(targets[r]) : t.account \notin gone /\ t.model \notin unserved}
               /\ targets' = [r \in 1..MaxRoutes |-> Kept(targets[r], R[r])]
  <2> DEFINE S == [r \in 1..MaxRoutes |->
                 {t \in Range(targets[r]) : t.account \notin gone /\ t.model \notin unserved}]
  <2>1. DOMAIN targets = 1..MaxRoutes
    BY DEF RowInv, RowTypes
  <2>2. targets' = [r \in 1..MaxRoutes |-> Kept(targets[r], S[r])]
    BY <2>1 DEF Cascade
  <2>3. \A r \in 1..MaxRoutes :
          S[r] = {t \in Range(targets[r]) : t.account \notin gone /\ t.model \notin unserved}
    OBVIOUS
  <2> HIDE DEF S
  <2> QED BY <2>2, <2>3
<1>3. ASSUME NEW r \in 1..MaxRoutes
      PROVE  /\ targets'[r] \in Seq(TargetRow)
             /\ \A k \in 1..Len(targets'[r]) : \E i \in 1..Len(targets[r]) :
                  targets'[r][k] = targets[r][i] /\ targets[r][i] \in R[r]
  <2>1. targets[r] \in Seq(TargetRow)
    BY DEF RowInv, RowTypes
  <2>2. targets'[r] = Kept(targets[r], R[r])
    BY <1>2
  <2>3. PICK q : q = Kept(targets[r], R[r])
    OBVIOUS
  <2>4. q \in Seq(TargetRow) /\ \A k \in DOMAIN q : \E i \in DOMAIN targets[r] :
          q[k] = targets[r][i] /\ targets[r][i] \in R[r]
    BY <2>1, <2>3, KeptIs
  <2>5. DOMAIN q = 1..Len(q) /\ DOMAIN targets[r] = 1..Len(targets[r])
    BY <2>1, <2>4
  <2>6. targets'[r] = q
    BY <2>2, <2>3
  <2> QED BY <2>4, <2>5, <2>6
<1>4. RowTypes'
  BY <1>1, <1>2, <1>3 DEF RowInv, RowTypes
<1>5. Accounted'
  BY <1>1 DEF RowInv, RowTypes, Accounted, AccountRow
<1>6. Modelled'
  BY <1>1 DEF RowInv, RowTypes, Modelled, ModelRow
<1>7. Targeted'
  <2> SUFFICES ASSUME NEW r \in 1..MaxRoutes, NEW k \in 1..Len(targets'[r])
               PROVE  /\ routes[r] # None /\ models'[targets'[r][k].model] # None
                      /\ targets'[r][k].account # None => accounts'[targets'[r][k].account] # None
    BY DEF Targeted
  <2>1. PICK i \in 1..Len(targets[r]) : targets'[r][k] = targets[r][i] /\ targets[r][i] \in R[r]
    BY <1>3
  <2>2. PICK t : t = targets[r][i] /\ t \in TargetRow
    BY DEF RowInv, RowTypes
  <2>3. t.account \notin gone /\ t.model \notin unserved
    BY <1>2, <2>1, <2>2
  <2>4. /\ routes[r] # None /\ models[t.model] # None
        /\ t.account # None => accounts[t.account] # None
    BY <2>2 DEF RowInv, Targeted
  <2> QED BY <1>1, <2>1, <2>2, <2>3, <2>4 DEF TargetRow
<1>8. InTurn'
  BY <1>1 DEF RowInv, RowTypes, InTurn
<1> QED BY <1>4, <1>5, <1>6, <1>7, <1>8 DEF RowInv

\* With a provider go its accounts and models, and the targets that name them (ON DELETE CASCADE).
LEMMA DeleteProviderRows ==
  ASSUME RowInv, NEW h \in Handlers, DeleteProvider(h)
  PROVE  RowInv'
<1> DEFINE p == Head(todo[h]).id
           gone == {a \in Live(accounts) : accounts[a].provider = p}
           unserved == {m \in Live(models) : models[m].provider = p}
<1>1. /\ providers' = [providers EXCEPT ![p] = None] /\ Cascade(gone, unserved)
      /\ UNCHANGED <<routes, aliases, made, given>>
  BY DEF DeleteProvider
<1>2. gone = {a \in 1..MaxAccounts : accounts[a] # None /\ accounts[a].provider = p}
      /\ unserved = {m \in 1..MaxModels : models[m] # None /\ models[m].provider = p}
  BY DEF RowInv, RowTypes, Live
<1> HIDE DEF p, gone, unserved
<1>3. providers' \in [1..MaxProviders -> ProviderRow \cup {None}]
      /\ \A q \in 1..MaxProviders : providers'[q] # None => providers[q] # None
  BY <1>1 DEF RowInv, RowTypes
<1>4. \A a \in 1..MaxAccounts \ gone : accounts[a] # None => providers'[accounts[a].provider] # None
  BY <1>1, <1>2 DEF RowInv, RowTypes, Accounted, AccountRow
<1>5. \A m \in 1..MaxModels \ unserved : models[m] # None => providers'[models[m].provider] # None
  BY <1>1, <1>2 DEF RowInv, RowTypes, Modelled, ModelRow
<1> QED BY <1>1, <1>3, <1>4, <1>5, CascadeRows

\* A deletion of accounts, or of a model.
LEMMA DeletionRows ==
  ASSUME RowInv, NEW gone, NEW unserved, Cascade(gone, unserved),
         UNCHANGED <<providers, routes, aliases, made, given>>
  PROVE  RowInv'
<1>1. providers' \in [1..MaxProviders -> ProviderRow \cup {None}]
  BY DEF RowInv, RowTypes
<1>2. \A a \in 1..MaxAccounts \ gone : accounts[a] # None => providers'[accounts[a].provider] # None
  BY DEF RowInv, Accounted
<1>3. \A m \in 1..MaxModels \ unserved : models[m] # None => providers'[models[m].provider] # None
  BY DEF RowInv, Modelled
<1> QED BY <1>1, <1>2, <1>3, CascadeRows

\* An account is inserted for a provider that is there (insert_account).
LEMMA InsertAccountRows ==
  ASSUME RowInv, NEW h \in Handlers, Good(Head(todo[h])), InsertAccountRow(h)
  PROVE  RowInv'
<1> DEFINE a == made.accounts + 1
           p == Id(h, Head(todo[h]).row.provider)
           entry == [provider |-> p, label |-> Head(todo[h]).row.label,
                   disabled |-> Head(todo[h]).row.disabled]
<1>1. p \in Live(providers)
  BY DEF InsertAccountRow, Ready, IsNext, Satisfied
<1>2. PICK q, l : l \in Labels /\ Head(todo[h]).row = [provider |-> q, label |-> l, disabled |-> FALSE]
  BY DEF InsertAccountRow, Ready, IsNext, Good
<1>3. entry = [provider |-> p, label |-> l, disabled |-> FALSE]
  <2>1. Head(todo[h]).row.label = l /\ Head(todo[h]).row.disabled = FALSE
    BY <1>2
  <2> QED BY <2>1
<1>4. a \in 1..MaxAccounts
  BY ConfigAssumption DEF InsertAccountRow, RowInv, RowTypes
<1>5. /\ accounts' = [accounts EXCEPT ![a] = entry] /\ made' = [made EXCEPT !.accounts = a]
      /\ UNCHANGED <<providers, models, routes, targets, aliases, given>>
  BY DEF InsertAccountRow
<1>6. p \in 1..MaxProviders /\ providers[p] # None
  BY <1>1 DEF RowInv, RowTypes, Live
<1>7. entry \in AccountRow /\ entry # None /\ entry.provider = p
  <2>1. [provider |-> p, label |-> l, disabled |-> FALSE] \in AccountRow
    BY <1>2, <1>6 DEF AccountRow
  <2>2. None \notin AccountRow
    BY ConfigAssumption
  <2> QED BY <1>3, <2>1, <2>2
<1>8. made.accounts \in Nat
  BY DEF RowInv, RowTypes
<1>9. a = made.accounts + 1
  OBVIOUS
<1> HIDE DEF a, p, entry
<1>10. RowTypes'
  BY <1>4, <1>5, <1>7 DEF RowInv, RowTypes
<1>11. Accounted'
  BY <1>4, <1>5, <1>6, <1>7 DEF RowInv, RowTypes, Accounted
<1>12. Modelled'
  BY <1>5 DEF RowInv, Modelled
<1>13. Targeted'
  BY <1>4, <1>5, <1>7 DEF RowInv, RowTypes, Targeted, TargetRow
<1>14. InTurn'
  BY <1>4, <1>5, <1>8, <1>9 DEF RowInv, RowTypes, InTurn
<1> QED BY <1>10, <1>11, <1>12, <1>13, <1>14 DEF RowInv

\* Accounts that stay where they are.
LEMMA AccountRows ==
  ASSUME RowInv, accounts' \in [1..MaxAccounts -> AccountRow \cup {None}],
         \A a \in 1..MaxAccounts : (accounts'[a] # None <=> accounts[a] # None)
           /\ (accounts[a] # None => accounts'[a].provider = accounts[a].provider),
         UNCHANGED <<providers, models, routes, targets, aliases, made, given>>
  PROVE  RowInv'
<1>1. RowTypes'
  BY DEF RowInv, RowTypes
<1>2. Accounted'
  BY DEF RowInv, Accounted
<1>3. Modelled'
  BY DEF RowInv, Modelled
<1>4. Targeted'
  <2> SUFFICES ASSUME NEW r \in 1..MaxRoutes, NEW i \in 1..Len(targets[r])
               PROVE  /\ routes[r] # None /\ models[targets[r][i].model] # None
                      /\ targets[r][i].account # None => accounts'[targets[r][i].account] # None
    BY DEF Targeted
  <2>1. PICK t : t = targets[r][i] /\ t \in TargetRow
    BY DEF RowInv, RowTypes
  <2>2. /\ routes[r] # None /\ models[t.model] # None
        /\ t.account # None => accounts[t.account] # None
    BY <2>1 DEF RowInv, Targeted
  <2> QED BY <2>1, <2>2 DEF TargetRow
<1>5. InTurn'
  BY DEF RowInv, RowTypes, InTurn
<1> QED BY <1>1, <1>2, <1>3, <1>4, <1>5 DEF RowInv

\* An account keeps its provider (update_account).
LEMMA UpdateAccountRows ==
  ASSUME RowInv, NEW h \in Handlers, Good(Head(todo[h])), UpdateAccountRow(h)
  PROVE  RowInv'
<1> DEFINE i == Head(todo[h]).id
           entry == Head(todo[h]).row
<1>1. entry.label \in Labels /\ entry.disabled \in BOOLEAN
  BY DEF UpdateAccountRow, Ready, IsNext, Good
<1>2. /\ accounts' = [accounts EXCEPT ![i] =
            IF @ = None THEN None ELSE [@ EXCEPT !.label = entry.label, !.disabled = entry.disabled]]
      /\ UNCHANGED <<providers, models, routes, targets, aliases, made, given>>
  BY DEF UpdateAccountRow
<1> HIDE DEF i, entry
<1>3. \A a \in 1..MaxAccounts : accounts[a] # None =>
        /\ [accounts[a] EXCEPT !.label = entry.label, !.disabled = entry.disabled] \in AccountRow
        /\ [accounts[a] EXCEPT !.label = entry.label, !.disabled = entry.disabled] # None
        /\ [accounts[a] EXCEPT !.label = entry.label, !.disabled = entry.disabled].provider = accounts[a].provider
  BY <1>1, ConfigAssumption DEF RowInv, RowTypes, AccountRow
<1>4. \A a \in 1..MaxAccounts : accounts'[a] \in AccountRow \cup {None}
  BY <1>2, <1>3 DEF RowInv, RowTypes
<1>5. \A a \in 1..MaxAccounts :
        /\ accounts'[a] # None <=> accounts[a] # None
        /\ accounts[a] # None => accounts'[a].provider = accounts[a].provider
  BY <1>2, <1>3 DEF RowInv, RowTypes
<1>6. accounts' \in [1..MaxAccounts -> AccountRow \cup {None}]
  <2>1. accounts' = [a \in 1..MaxAccounts |-> accounts'[a]]
    BY <1>2 DEF RowInv, RowTypes
  <2> QED BY <1>4, <2>1
<1> QED BY <1>2, <1>5, <1>6, AccountRows

\* A synthetic account that is reset keeps its provider (reconcile_provider_account_mode).
LEMMA ResetNoAuthRows ==
  ASSUME RowInv, NEW h \in Handlers, ResetNoAuth(h)
  PROVE  RowInv'
<1> DEFINE S == Head(todo[h]).row \cap Live(accounts)
<1>1. /\ accounts' = [a \in 1..MaxAccounts |->
            IF a \in S THEN NoAuthRow(accounts[a].provider) ELSE accounts[a]]
      /\ UNCHANGED <<providers, models, routes, targets, aliases, made, given>>
  BY DEF ResetNoAuth, RowInv, RowTypes
<1>2. \A a \in S : a \in 1..MaxAccounts /\ accounts[a] # None
  BY DEF RowInv, RowTypes, Live
<1> HIDE DEF S
<1>3. \A a \in 1..MaxAccounts : accounts[a] # None =>
        /\ NoAuthRow(accounts[a].provider) \in AccountRow /\ NoAuthRow(accounts[a].provider) # None
        /\ NoAuthRow(accounts[a].provider).provider = accounts[a].provider
  <2> SUFFICES ASSUME NEW a \in 1..MaxAccounts, accounts[a] # None
               PROVE  /\ NoAuthRow(accounts[a].provider) \in AccountRow
                      /\ NoAuthRow(accounts[a].provider).provider = accounts[a].provider
    BY ConfigAssumption
  <2>1. accounts[a].provider \in 1..MaxProviders
    BY DEF RowInv, RowTypes, AccountRow
  <2>2. NoAuth \in Labels
    BY DEF Labels
  <2> QED BY <2>1, <2>2 DEF AccountRow, NoAuthRow
<1>4. \A a \in 1..MaxAccounts : accounts'[a] \in AccountRow \cup {None}
  BY <1>1, <1>2, <1>3 DEF RowInv, RowTypes
<1>5. \A a \in 1..MaxAccounts :
        /\ accounts'[a] # None <=> accounts[a] # None
        /\ accounts[a] # None => accounts'[a].provider = accounts[a].provider
  BY <1>1, <1>2, <1>3 DEF RowInv, RowTypes
<1>6. accounts' \in [1..MaxAccounts -> AccountRow \cup {None}]
  <2>1. accounts' = [a \in 1..MaxAccounts |-> accounts'[a]]
    BY <1>1 DEF RowInv, RowTypes
  <2> QED BY <1>4, <2>1
<1> QED BY <1>1, <1>5, <1>6, AccountRows

\* With accounts and models go the targets that name them (ON DELETE CASCADE).
LEMMA DeleteAccountRows ==
  ASSUME RowInv, NEW h \in Handlers, DeleteAccount(h) \/ DeleteAccounts(h) \/ DeleteModel(h)
  PROVE  RowInv'
<1>1. CASE DeleteAccount(h)
  <2> DEFINE gone == {Head(todo[h]).id}
  <2>1. Cascade(gone, {}) /\ UNCHANGED <<providers, routes, aliases, made, given>>
    BY <1>1 DEF DeleteAccount
  <2> QED BY <2>1, DeletionRows
<1>2. CASE DeleteAccounts(h)
  <2> DEFINE gone == AccountsOf(Head(todo[h]).id, Head(todo[h]).row)
  <2>1. Cascade(gone, {}) /\ UNCHANGED <<providers, routes, aliases, made, given>>
    BY <1>2 DEF DeleteAccounts
  <2> QED BY <2>1, DeletionRows
<1>3. CASE DeleteModel(h)
  <2> DEFINE unserved == {Head(todo[h]).id}
  <2>1. Cascade({}, unserved) /\ UNCHANGED <<providers, routes, aliases, made, given>>
    BY <1>3 DEF DeleteModel
  <2> QED BY <2>1, DeletionRows
<1> QED BY <1>1, <1>2, <1>3

\* A model is inserted for a provider that is there, without an override (insert_model).
LEMMA InsertModelRows ==
  ASSUME RowInv, NEW h \in Handlers, Good(Head(todo[h])), InsertModel(h)
  PROVE  RowInv'
<1> DEFINE m == made.models + 1
           entry == Head(todo[h]).row
<1>1. entry.provider \in Live(providers)
  BY DEF InsertModel, Ready, IsNext, Satisfied
<1>2. PICK p, u, e :
        /\ u \in Upstreams /\ e \in BOOLEAN
        /\ entry = [provider |-> p, upstream |-> u, enabled |-> e, override |-> None, gone |-> FALSE]
  BY DEF InsertModel, Ready, IsNext, Good
<1>3. m \in 1..MaxModels /\ made.models \in Nat
  BY ConfigAssumption DEF InsertModel, RowInv, RowTypes
<1>4. /\ models' = [models EXCEPT ![m] = entry] /\ made' = [made EXCEPT !.models = m]
      /\ given' = [given EXCEPT ![m] = entry.override]
      /\ UNCHANGED <<providers, accounts, routes, targets, aliases>>
  BY DEF InsertModel
<1>5. m = made.models + 1
  OBVIOUS
<1>6. entry.provider \in 1..MaxProviders /\ providers[entry.provider] # None
  BY <1>1 DEF RowInv, RowTypes, Live
<1> HIDE DEF m, entry
<1>7. entry \in ModelRow /\ entry # None /\ entry.override = None
  <2>1. entry.provider = p /\ entry.override = None
    BY <1>2
  <2>2. p \in 1..MaxProviders
    BY <1>6, <2>1
  <2>3. [provider |-> p, upstream |-> u, enabled |-> e, override |-> None, gone |-> FALSE] \in ModelRow
    BY <1>2, <2>2 DEF ModelRow
  <2>4. None \notin ModelRow
    BY ConfigAssumption
  <2> QED BY <1>2, <2>1, <2>3, <2>4
<1>10. RowTypes'
  BY <1>3, <1>4, <1>7 DEF RowInv, RowTypes
<1>11. Accounted'
  BY <1>4 DEF RowInv, Accounted
<1>12. Modelled'
  BY <1>3, <1>4, <1>6, <1>7 DEF RowInv, RowTypes, Modelled
<1>13. Targeted'
  <2> SUFFICES ASSUME NEW r \in 1..MaxRoutes, NEW i \in 1..Len(targets[r])
               PROVE  /\ routes[r] # None /\ models'[targets[r][i].model] # None
                      /\ targets[r][i].account # None => accounts[targets[r][i].account] # None
    BY <1>4 DEF Targeted
  <2>1. PICK t : t = targets[r][i] /\ t \in TargetRow
    BY DEF RowInv, RowTypes
  <2>2. /\ routes[r] # None /\ models[t.model] # None
        /\ t.account # None => accounts[t.account] # None
    BY <2>1 DEF RowInv, Targeted
  <2>3. t.model \in 1..MaxModels
    BY <2>1 DEF TargetRow
  <2> QED BY <1>3, <1>4, <1>7, <2>1, <2>2, <2>3 DEF RowInv, RowTypes
<1>14. InTurn'
  BY <1>3, <1>4, <1>5 DEF RowInv, RowTypes, InTurn
<1> QED BY <1>10, <1>11, <1>12, <1>13, <1>14 DEF RowInv

\* Models that stay where they are, each with the override that is given.
LEMMA ModelRows ==
  ASSUME RowInv, models' \in [1..MaxModels -> ModelRow \cup {None}],
         given' \in [1..MaxModels -> Transports \cup {None}],
         \A m \in 1..MaxModels :
           /\ models'[m] # None <=> models[m] # None
           /\ models[m] # None =>
                models'[m].provider = models[m].provider /\ models'[m].override = given'[m],
         UNCHANGED <<providers, accounts, routes, targets, aliases, made>>
  PROVE  RowInv'
<1>1. RowTypes'
  BY DEF RowInv, RowTypes
<1>2. Accounted'
  BY DEF RowInv, Accounted
<1>3. Modelled'
  BY DEF RowInv, RowTypes, Modelled
<1>4. Targeted'
  <2> SUFFICES ASSUME NEW r \in 1..MaxRoutes, NEW i \in 1..Len(targets[r])
               PROVE  /\ routes[r] # None /\ models'[targets[r][i].model] # None
                      /\ targets[r][i].account # None => accounts[targets[r][i].account] # None
    BY DEF Targeted
  <2>1. PICK t : t = targets[r][i] /\ t \in TargetRow
    BY DEF RowInv, RowTypes
  <2>2. /\ routes[r] # None /\ models[t.model] # None
        /\ t.account # None => accounts[t.account] # None
    BY <2>1 DEF RowInv, Targeted
  <2> QED BY <2>1, <2>2 DEF TargetRow
<1>5. InTurn'
  BY DEF RowInv, RowTypes, InTurn
<1> QED BY <1>1, <1>2, <1>3, <1>4, <1>5 DEF RowInv

\* What is written over a model leaves its override, or sets it as given (update_model,
\* set_model_transport_override, merge_model_discovery).
LEMMA UpdateModelRows ==
  ASSUME RowInv, NEW h \in Handlers, Good(Head(todo[h])),
         UpdateModel(h) \/ SetOverride(h) \/ MergeDiscovery(h)
  PROVE  RowInv'
<1>1. CASE UpdateModel(h)
  <2> DEFINE i == Head(todo[h]).id
             entry == Head(todo[h]).row
  <2>1. entry \in BOOLEAN
    BY <1>1 DEF UpdateModel, Ready, IsNext, Good
  <2>2. models' = [models EXCEPT ![i] = IF @ = None THEN None ELSE [@ EXCEPT !.enabled = entry]]
        /\ UNCHANGED <<providers, accounts, routes, targets, aliases, made, given>>
    BY <1>1 DEF UpdateModel
  <2> HIDE DEF i, entry
  <2>3. ASSUME NEW m \in 1..MaxModels
        PROVE  /\ models'[m] \in ModelRow \cup {None} /\ (models'[m] # None <=> models[m] # None)
               /\ models[m] # None =>
                    models'[m].provider = models[m].provider /\ models'[m].override = given'[m]
    <3>1. CASE models[m] = None
      BY <2>2, <3>1 DEF RowInv, RowTypes
    <3>2. CASE models[m] # None
      <4>1. PICK z : z = [models[m] EXCEPT !.enabled = entry] /\ models'[m] \in {z, models[m]}
        BY <2>2, <3>2 DEF RowInv, RowTypes
      <4>2. models[m] \in ModelRow /\ models[m].override = given[m]
        BY <3>2 DEF RowInv, RowTypes, Modelled
      <4>3. z \in ModelRow /\ z.provider = models[m].provider /\ z.override = models[m].override
        BY <2>1, <4>1, <4>2 DEF ModelRow
      <4> QED BY <2>2, <3>2, <4>1, <4>2, <4>3, ConfigAssumption
    <3> QED BY <3>1, <3>2
  <2>4. models' = [m \in 1..MaxModels |-> models'[m]]
    BY <2>2 DEF RowInv, RowTypes
  <2>5. models' \in [1..MaxModels -> ModelRow \cup {None}]
    BY <2>3, <2>4
  <2> QED BY <2>2, <2>3, <2>5, ModelRows DEF RowInv, RowTypes
<1>2. CASE SetOverride(h)
  <2> DEFINE i == Id(h, Head(todo[h]).id)
             entry == Head(todo[h]).row
  <2>1. entry \in Transports \cup {None}
    BY <1>2 DEF SetOverride, Ready, IsNext, Good
  <2>2. /\ models' = [models EXCEPT ![i] = IF @ = None THEN None ELSE [@ EXCEPT !.override = entry]]
        /\ given' = [given EXCEPT ![i] = entry]
        /\ UNCHANGED <<providers, accounts, routes, targets, aliases, made>>
    BY <1>2 DEF SetOverride
  <2> HIDE DEF i, entry
  <2>3. ASSUME NEW m \in 1..MaxModels
        PROVE  /\ models'[m] \in ModelRow \cup {None} /\ (models'[m] # None <=> models[m] # None)
               /\ models[m] # None =>
                    models'[m].provider = models[m].provider /\ models'[m].override = given'[m]
    <3>1. CASE models[m] = None
      BY <2>2, <3>1 DEF RowInv, RowTypes
    <3>2. CASE models[m] # None
      <4>1. PICK z : z = [models[m] EXCEPT !.override = entry] /\ models'[m] = IF m = i THEN z ELSE models[m]
        BY <2>2, <3>2 DEF RowInv, RowTypes
      <4>2. models[m] \in ModelRow /\ models[m].override = given[m]
        BY <3>2 DEF RowInv, RowTypes, Modelled
      <4>3. z \in ModelRow /\ z.provider = models[m].provider /\ z.override = entry
        BY <2>1, <4>1, <4>2 DEF ModelRow
      <4>4. given'[m] = IF m = i THEN entry ELSE given[m]
        BY <2>2 DEF RowInv, RowTypes
      <4> QED BY <3>2, <4>1, <4>2, <4>3, <4>4, ConfigAssumption
    <3> QED BY <3>1, <3>2
  <2>4. models' = [m \in 1..MaxModels |-> models'[m]]
    BY <2>2 DEF RowInv, RowTypes
  <2>5. models' \in [1..MaxModels -> ModelRow \cup {None}]
    BY <2>3, <2>4
  <2>6. given' \in [1..MaxModels -> Transports \cup {None}]
    BY <2>1, <2>2 DEF RowInv, RowTypes
  <2> QED BY <2>2, <2>3, <2>5, <2>6, ModelRows
<1>3. CASE MergeDiscovery(h)
  <2> DEFINE i == Head(todo[h]).id
             gone == Head(todo[h]).row.gone
  <2>1. gone \in BOOLEAN
    BY <1>3 DEF MergeDiscovery, Ready, IsNext, Good
  <2>2. models' = [models EXCEPT ![i] = IF @ = None THEN None ELSE [@ EXCEPT !.gone = gone]]
        /\ UNCHANGED <<providers, accounts, routes, targets, aliases, made, given>>
    BY <1>3 DEF MergeDiscovery
  <2> HIDE DEF i, gone
  <2>3. ASSUME NEW m \in 1..MaxModels
        PROVE  /\ models'[m] \in ModelRow \cup {None} /\ (models'[m] # None <=> models[m] # None)
               /\ models[m] # None =>
                    models'[m].provider = models[m].provider /\ models'[m].override = given'[m]
    <3>1. CASE models[m] = None
      BY <2>2, <3>1 DEF RowInv, RowTypes
    <3>2. CASE models[m] # None
      <4>1. PICK z : z = [models[m] EXCEPT !.gone = gone] /\ models'[m] \in {z, models[m]}
        BY <2>2, <3>2 DEF RowInv, RowTypes
      <4>2. models[m] \in ModelRow /\ models[m].override = given[m]
        BY <3>2 DEF RowInv, RowTypes, Modelled
      <4>3. z \in ModelRow /\ z.provider = models[m].provider /\ z.override = models[m].override
        BY <2>1, <4>1, <4>2 DEF ModelRow
      <4> QED BY <2>2, <3>2, <4>1, <4>2, <4>3, ConfigAssumption
    <3> QED BY <3>1, <3>2
  <2>4. models' = [m \in 1..MaxModels |-> models'[m]]
    BY <2>2 DEF RowInv, RowTypes
  <2>5. models' \in [1..MaxModels -> ModelRow \cup {None}]
    BY <2>3, <2>4
  <2> QED BY <2>2, <2>3, <2>5, ModelRows DEF RowInv, RowTypes
<1> QED BY <1>1, <1>2, <1>3

\* A new route has no targets yet (insert_route).
LEMMA InsertRouteRows ==
  ASSUME RowInv, NEW h \in Handlers, Good(Head(todo[h])), InsertRoute(h)
  PROVE  RowInv'
<1> DEFINE r == made.routes + 1
           entry == Head(todo[h]).row
<1>1. entry \in RouteNames /\ entry # None /\ r \in 1..MaxRoutes /\ made.routes \in Nat
  BY ConfigAssumption DEF InsertRoute, Ready, IsNext, Good, RowInv, RowTypes
<1>2. /\ routes' = [routes EXCEPT ![r] = entry] /\ made' = [made EXCEPT !.routes = r]
      /\ UNCHANGED <<providers, accounts, models, targets, aliases, given>>
  BY DEF InsertRoute
<1>3. r = made.routes + 1
  OBVIOUS
<1> HIDE DEF r, entry
<1>4. RowTypes'
  BY <1>1, <1>2 DEF RowInv, RowTypes
<1>5. Accounted' /\ Modelled'
  BY <1>2 DEF RowInv, Accounted, Modelled
<1>6. Targeted'
  BY <1>1, <1>2 DEF RowInv, RowTypes, Targeted
<1>7. InTurn'
  BY <1>1, <1>2, <1>3 DEF RowInv, RowTypes, InTurn
<1> QED BY <1>4, <1>5, <1>6, <1>7 DEF RowInv

\* Only a route's targets change, to ones whose rows are there.
LEMMA TargetRows ==
  ASSUME RowInv, targets' \in [1..MaxRoutes -> Seq(TargetRow)],
         Targeted', UNCHANGED <<providers, accounts, models, routes, aliases, made, given>>
  PROVE  RowInv'
<1>1. RowTypes'
  BY DEF RowInv, RowTypes
<1>2. Accounted' /\ Modelled' /\ InTurn'
  BY DEF RowInv, Accounted, Modelled, InTurn
<1> QED BY <1>1, <1>2 DEF RowInv

\* A target names a route, a model and an account that are there (insert_route_target).
LEMMA InsertTargetRows ==
  ASSUME RowInv, NEW h \in Handlers, Good(Head(todo[h])), InsertTarget(h)
  PROVE  RowInv'
<1> DEFINE i == Id(h, Head(todo[h]).id)
           entry == Head(todo[h]).row
<1>1. PICK a, m : entry = [account |-> a, model |-> m]
  BY DEF InsertTarget, Ready, IsNext, Good
<1>2. i \in Live(routes) /\ entry.model \in Live(models) /\ (entry.account # None => entry.account \in Live(accounts))
  BY DEF InsertTarget, Ready, IsNext, Satisfied
<1>3. /\ targets' = [targets EXCEPT ![i] = Append(@, entry)]
      /\ UNCHANGED <<providers, accounts, models, routes, aliases, made, given>>
  BY DEF InsertTarget
<1> HIDE DEF i, entry
<1>4. /\ i \in 1..MaxRoutes /\ routes[i] # None /\ entry.model \in 1..MaxModels /\ models[entry.model] # None
      /\ entry.account # None => entry.account \in 1..MaxAccounts /\ accounts[entry.account] # None
  BY <1>2 DEF RowInv, RowTypes, Live
<1>5. entry \in TargetRow
  <2>1. entry.account = a /\ entry.model = m
    BY <1>1
  <2>2. a \in 1..MaxAccounts \cup {None} /\ m \in 1..MaxModels
    BY <1>4, <2>1
  <2>3. [account |-> a, model |-> m] \in TargetRow
    BY <2>2 DEF TargetRow
  <2> QED BY <1>1, <2>3, Zenon
<1>6. targets' \in [1..MaxRoutes -> Seq(TargetRow)]
  <2>1. \A r \in 1..MaxRoutes : Append(targets[r], entry) \in Seq(TargetRow)
    BY <1>5 DEF RowInv, RowTypes
  <2>2. targets' = [r \in 1..MaxRoutes |-> IF r = i THEN Append(targets[r], entry) ELSE targets[r]]
    BY <1>3 DEF RowInv, RowTypes
  <2> QED BY <2>1, <2>2 DEF RowInv, RowTypes
<1>7. Targeted'
  <2> SUFFICES ASSUME NEW r \in 1..MaxRoutes, NEW k \in 1..Len(targets'[r])
               PROVE  /\ routes[r] # None /\ models[targets'[r][k].model] # None
                      /\ targets'[r][k].account # None => accounts[targets'[r][k].account] # None
    BY <1>3 DEF Targeted
  <2>1. targets[r] \in Seq(TargetRow) /\ targets'[r] = IF r = i THEN Append(targets[r], entry) ELSE targets[r]
    BY <1>3 DEF RowInv, RowTypes
  <2>2. CASE k \in 1..Len(targets[r])
    <3>1. targets'[r][k] = targets[r][k]
      BY <1>5, <2>1, <2>2
    <3> QED BY <2>2, <3>1 DEF RowInv, Targeted
  <2>3. CASE r = i /\ targets'[r][k] = entry
    BY <1>4, <2>3
  <2> QED BY <1>5, <2>1, <2>2, <2>3
<1> QED BY <1>3, <1>6, <1>7, TargetRows

\* A route without targets names nothing (clear_route_targets).
LEMMA ClearTargetsRows ==
  ASSUME RowInv, NEW h \in Handlers, ClearTargets(h)
  PROVE  RowInv'
<1> DEFINE i == Head(todo[h]).id
<1>1. /\ targets' = [targets EXCEPT ![i] = <<>>]
      /\ UNCHANGED <<providers, accounts, models, routes, aliases, made, given>>
  BY DEF ClearTargets
<1> HIDE DEF i
<1>2. targets' \in [1..MaxRoutes -> Seq(TargetRow)]
  <2>1. <<>> \in Seq(TargetRow)
    OBVIOUS
  <2> QED BY <1>1, <2>1 DEF RowInv, RowTypes
<1>3. \A r \in 1..MaxRoutes : targets'[r] = targets[r] \/ targets'[r] = <<>>
  BY <1>1 DEF RowInv, RowTypes
<1>4. Targeted'
  BY <1>1, <1>3 DEF RowInv, Targeted
<1> QED BY <1>1, <1>2, <1>4, TargetRows

\* With a route go its targets (delete_route).
LEMMA DeleteRouteRows ==
  ASSUME RowInv, NEW h \in Handlers, DeleteRoute(h)
  PROVE  RowInv'
<1> DEFINE i == Head(todo[h]).id
<1>1. /\ routes' = [routes EXCEPT ![i] = None] /\ targets' = [targets EXCEPT ![i] = <<>>]
      /\ UNCHANGED <<providers, accounts, models, aliases, made, given>>
  BY DEF DeleteRoute
<1> HIDE DEF i
<1>2. RowTypes'
  <2>1. <<>> \in Seq(TargetRow)
    OBVIOUS
  <2>2. targets' \in [1..MaxRoutes -> Seq(TargetRow)]
    BY <1>1, <2>1 DEF RowInv, RowTypes
  <2>3. routes' \in [1..MaxRoutes -> RouteNames \cup {None}]
    BY <1>1 DEF RowInv, RowTypes
  <2> QED BY <1>1, <2>2, <2>3 DEF RowInv, RowTypes
<1>3. Accounted' /\ Modelled'
  BY <1>1 DEF RowInv, Accounted, Modelled
<1>4. \A r \in 1..MaxRoutes : IF r = i THEN targets'[r] = <<>> ELSE targets'[r] = targets[r] /\ routes'[r] = routes[r]
  BY <1>1 DEF RowInv, RowTypes
<1>5. Targeted'
  BY <1>1, <1>4 DEF RowInv, Targeted
<1>6. InTurn'
  BY <1>1 DEF RowInv, RowTypes, InTurn
<1> QED BY <1>2, <1>3, <1>5, <1>6 DEF RowInv

\* A target that is unpinned names no account (reconcile_provider_account_mode).
LEMMA UnpinRows ==
  ASSUME RowInv, NEW h \in Handlers, Unpin(h)
  PROVE  RowInv'
<1> DEFINE gone == AccountsOf(Head(todo[h]).id, Head(todo[h]).row)
<1>1. /\ targets' = [r \in 1..MaxRoutes |-> [i \in DOMAIN targets[r] |->
            IF targets[r][i].account \in gone THEN [targets[r][i] EXCEPT !.account = None]
            ELSE targets[r][i]]]
      /\ UNCHANGED <<providers, accounts, models, routes, aliases, made, given>>
  BY DEF Unpin, RowInv, RowTypes
<1> HIDE DEF gone
<1>2. ASSUME NEW r \in 1..MaxRoutes
      PROVE  /\ targets'[r] \in Seq(TargetRow) /\ Len(targets'[r]) = Len(targets[r])
             /\ \A i \in 1..Len(targets[r]) :
                  /\ targets'[r][i].model = targets[r][i].model
                  /\ targets'[r][i].account \in {None, targets[r][i].account}
  <2> DEFINE s == targets[r]
             q == targets'[r]
  <2>1. s \in Seq(TargetRow) /\ DOMAIN s = 1..Len(s) /\ Len(s) \in Nat
    BY DEF RowInv, RowTypes
  <2>2. q = [i \in 1..Len(s) |-> IF s[i].account \in gone THEN [s[i] EXCEPT !.account = None] ELSE s[i]]
    BY <1>1, <2>1
  <2> HIDE DEF s, q
  <2>3. \A i \in 1..Len(s) : s[i] \in TargetRow
    BY <2>1
  <2>4. \A i \in 1..Len(s) : /\ q[i] \in TargetRow /\ q[i].model = s[i].model
                            /\ q[i].account \in {None, s[i].account}
    BY <2>2, <2>3 DEF TargetRow
  <2>5. q \in Seq(TargetRow) /\ Len(q) = Len(s)
    BY <2>1, <2>2, <2>4
  <2> QED BY <2>4, <2>5 DEF s, q
<1>3. targets' \in [1..MaxRoutes -> Seq(TargetRow)]
  BY <1>1, <1>2
<1>4. Targeted'
  BY <1>1, <1>2 DEF RowInv, Targeted
<1> QED BY <1>1, <1>3, <1>4, TargetRows

\* An alias is a row of its type (upsert_alias, delete_alias).
LEMMA AliasRows ==
  ASSUME RowInv, NEW h \in Handlers, Good(Head(todo[h])), WriteAlias(h) \/ DeleteAlias(h)
  PROVE  RowInv'
<1>1. UNCHANGED <<providers, accounts, models, routes, targets, made, given>>
  BY DEF WriteAlias, DeleteAlias
<1>2. aliases' \in [Aliases -> AliasRow \cup {None}]
  <2>1. CASE DeleteAlias(h)
    BY <2>1 DEF DeleteAlias, RowInv, RowTypes
  <2>2. CASE WriteAlias(h)
    <3>1. Head(todo[h]).row \in AliasRow
      BY <2>2 DEF WriteAlias, Ready, IsNext, Good
    <3> QED BY <2>2, <3>1 DEF WriteAlias, RowInv, RowTypes
  <2> QED BY <2>1, <2>2
<1>3. RowTypes'
  BY <1>1, <1>2 DEF RowInv, RowTypes
<1> QED BY <1>1, <1>3 DEF RowInv, Accounted, Modelled, Targeted, InTurn

-----------------------------------------------------------------------------
\* Lists of statements (Done, Expand).

\* A sequence of anything is a list, which is a function on its places.
LEMMA ListIs ==
  ASSUME NEW T, NEW s \in Seq(T)
  PROVE  IsList(s) /\ DOMAIN s = 1..Len(s) /\ Len(s) \in Nat
<1>1. DOMAIN s = 1..Len(s) /\ Len(s) \in Nat
  OBVIOUS
<1> DEFINE S == {s[k] : k \in DOMAIN s}
<1>2. \A k \in 1..Len(s) : s[k] \in S
  BY <1>1
<1> HIDE DEF S
<1>3. s \in Seq(S)
  BY <1>1, <1>2
<1> QED BY <1>1, <1>3 DEF IsList, S

\* So is what is given by its places.
LEMMA ListOf ==
  ASSUME NEW s, IsList(s)
  PROVE  DOMAIN s = 1..Len(s) /\ Len(s) \in Nat
<1> DEFINE S == {s[k] : k \in DOMAIN s}
<1>1. s \in Seq(S)
  BY DEF IsList
<1> HIDE DEF S
<1> QED BY <1>1, ListIs

\* A list that is given element by element.
LEMMA ListBy ==
  ASSUME NEW n \in Nat, NEW s, DOMAIN s = 1..n, s = [i \in 1..n |-> s[i]]
  PROVE  IsList(s) /\ Len(s) = n
<1> DEFINE S == {s[k] : k \in DOMAIN s}
<1>1. \A k \in 1..n : s[k] \in S
  OBVIOUS
<1> HIDE DEF S
<1>2. s \in Seq(S)
  BY <1>1
<1> QED BY <1>2, ListIs

\* The tail of a list has its places but the first.
LEMMA ListTail ==
  ASSUME NEW s, IsList(s), s # <<>>
  PROVE  /\ IsList(Tail(s)) /\ Len(Tail(s)) = Len(s) - 1 /\ Head(s) = s[1] /\ Len(s) >= 1
         /\ \A i \in 1..(Len(s) - 1) : Tail(s)[i] = s[i + 1]
<1> DEFINE S == {s[k] : k \in DOMAIN s}
<1>1. s \in Seq(S)
  BY DEF IsList
<1> HIDE DEF S
<1>2. Tail(s) \in Seq(S) /\ Len(s) >= 1 /\ Len(Tail(s)) = Len(s) - 1 /\ Head(s) = s[1]
  BY <1>1
<1>3. \A i \in 1..(Len(s) - 1) : Tail(s)[i] = s[i + 1]
  BY <1>1
<1>4. IsList(Tail(s))
  BY <1>2, ListIs
<1> QED BY <1>2, <1>3, <1>4

\* What is put in front of a list comes first.
LEMMA ListConcat ==
  ASSUME NEW s, IsList(s), NEW t, IsList(t)
  PROVE  /\ IsList(s \o t) /\ Len(s \o t) = Len(s) + Len(t)
         /\ \A i \in 1..Len(s) : (s \o t)[i] = s[i]
         /\ \A i \in 1..Len(t) : (s \o t)[Len(s) + i] = t[i]
         /\ \A i \in DOMAIN (s \o t) :
              \/ i \in DOMAIN s /\ (s \o t)[i] = s[i]
              \/ i - Len(s) \in DOMAIN t /\ (s \o t)[i] = t[i - Len(s)]
<1> DEFINE S == {s[k] : k \in DOMAIN s}
           T == {t[k] : k \in DOMAIN t}
           U == S \cup T
<1>1. s \in Seq(S) /\ t \in Seq(T)
  BY DEF IsList
<1> HIDE DEF S, T
<1>2. s \in Seq(U) /\ t \in Seq(U)
  BY <1>1
<1> HIDE DEF U
<1>3. s \o t \in Seq(U) /\ Len(s \o t) = Len(s) + Len(t)
  BY <1>2
<1> DEFINE u == s \o t
<1>4. /\ \A i \in 1..Len(s) : u[i] = s[i]
      /\ \A i \in 1..Len(t) : u[Len(s) + i] = t[i]
  BY <1>2
<1>5. \A i \in 1..(Len(s) + Len(t)) :
        \/ i \in 1..Len(s) /\ u[i] = s[i]
        \/ i - Len(s) \in 1..Len(t) /\ u[i] = t[i - Len(s)]
  BY <1>2, <1>4
<1>6. DOMAIN s = 1..Len(s) /\ DOMAIN t = 1..Len(t) /\ DOMAIN u = 1..Len(u) /\ IsList(u)
  BY <1>2, <1>3, ListIs
<1> QED BY <1>3, <1>4, <1>5, <1>6

\* What is left of good statements when the first has run.
LEMMA GoodTail ==
  ASSUME NEW s, GoodList(s), s # <<>>
  PROVE  GoodList(Tail(s)) /\ Good(Head(s))
<1>1. DOMAIN s = 1..Len(s) /\ Len(s) \in Nat /\ IsList(Tail(s))
  BY ListOf, ListTail DEF GoodList
<1>2. DOMAIN Tail(s) = 1..(Len(s) - 1)
  BY <1>1, ListTail, ListOf DEF GoodList
<1>3. \A i \in 1..(Len(s) - 1) : Good(Tail(s)[i])
  BY <1>1, ListTail DEF GoodList
<1>4. Good(Head(s))
  BY <1>1, ListTail DEF GoodList
<1> QED BY <1>1, <1>2, <1>3, <1>4 DEF GoodList

\* Good statements in front of good ones.
LEMMA GoodConcat ==
  ASSUME NEW s, NEW t, GoodList(s), GoodList(t)
  PROVE  GoodList(s \o t)
<1>1. IsList(s) /\ IsList(t) /\ IsList(s \o t)
  BY ListConcat DEF GoodList
<1>2. \A i \in DOMAIN (s \o t) :
        \/ i \in DOMAIN s /\ (s \o t)[i] = s[i]
        \/ i - Len(s) \in DOMAIN t /\ (s \o t)[i] = t[i - Len(s)]
  BY <1>1, ListConcat
<1>3. \A i \in DOMAIN (s \o t) : Good((s \o t)[i])
  BY <1>2 DEF GoodList
<1> QED BY <1>1, <1>3 DEF GoodList

\* A list of one good statement.
LEMMA GoodOne ==
  ASSUME NEW a, Good(a)
  PROVE  GoodList(<<a>>) /\ DOMAIN <<a>> = {1} /\ GoodList(<<>>) /\ DOMAIN <<>> = {}
<1>1. <<a>> \in Seq({a}) /\ DOMAIN <<a>> = {1} /\ <<a>>[1] = a
  OBVIOUS
<1>2. IsList(<<a>>)
  BY <1>1, ListIs
<1>3. <<>> \in Seq({}) /\ DOMAIN <<>> = {}
  OBVIOUS
<1>4. IsList(<<>>)
  BY <1>3, ListIs
<1> QED BY <1>1, <1>2, <1>3, <1>4 DEF GoodList

\* A list of two.
LEMMA GoodTwo ==
  ASSUME NEW a, NEW b, Good(a), Good(b)
  PROVE  GoodList(<<a, b>>)
<1>1. <<a, b>> \in Seq({a, b}) /\ DOMAIN <<a, b>> = {1, 2} /\ <<a, b>>[1] = a /\ <<a, b>>[2] = b
  OBVIOUS
<1>2. IsList(<<a, b>>)
  BY <1>1, ListIs
<1> QED BY <1>1, <1>2 DEF GoodList

\* A list of three.
LEMMA GoodThree ==
  ASSUME NEW a, NEW b, NEW c, Good(a), Good(b), Good(c)
  PROVE  GoodList(<<a, b, c>>)
<1>1. /\ <<a, b, c>> \in Seq({a, b, c}) /\ DOMAIN <<a, b, c>> = {1, 2, 3}
      /\ <<a, b, c>>[1] = a /\ <<a, b, c>>[2] = b /\ <<a, b, c>>[3] = c
  OBVIOUS
<1>2. IsList(<<a, b, c>>)
  BY <1>1, ListIs
<1> QED BY <1>1, <1>2 DEF GoodList

-----------------------------------------------------------------------------
\* Statements that are no rows of a document.
Plain(s) == GoodList(s) /\ \A i \in DOMAIN s : s[i].do \notin Importing

\* The same of lists without statements of an import.
LEMMA PlainOne ==
  ASSUME NEW a, Good(a), a.do \notin Importing
  PROVE  Plain(<<a>>) /\ Plain(<<>>)
<1>1. DOMAIN <<a>> = {1} /\ <<a>>[1] = a /\ DOMAIN <<>> = {}
  OBVIOUS
<1> QED BY <1>1, GoodOne DEF Plain

\* Plain lists make a plain list.
LEMMA PlainConcat ==
  ASSUME NEW s, NEW t, Plain(s), Plain(t)
  PROVE  Plain(s \o t)
<1>1. GoodList(s \o t) /\ IsList(s) /\ IsList(t)
  BY GoodConcat DEF Plain, GoodList
<1>2. \A i \in DOMAIN (s \o t) :
        \/ i \in DOMAIN s /\ (s \o t)[i] = s[i]
        \/ i - Len(s) \in DOMAIN t /\ (s \o t)[i] = t[i - Len(s)]
  BY <1>1, ListConcat
<1> QED BY <1>1, <1>2 DEF Plain

\* A plain list of two.
LEMMA PlainTwo ==
  ASSUME NEW a, NEW b, Plain(<<a>>), Plain(<<b>>)
  PROVE  Plain(<<a, b>>)
<1>1. Good(a) /\ Good(b) /\ a.do \notin Importing /\ b.do \notin Importing
  <2>1. DOMAIN <<a>> = {1} /\ <<a>>[1] = a /\ DOMAIN <<b>> = {1} /\ <<b>>[1] = b
    OBVIOUS
  <2> QED BY <2>1 DEF Plain, GoodList
<1>2. DOMAIN <<a, b>> = {1, 2} /\ <<a, b>>[1] = a /\ <<a, b>>[2] = b
  OBVIOUS
<1> QED BY <1>1, <1>2, GoodTwo DEF Plain

\* A plain list of three.
LEMMA PlainThree ==
  ASSUME NEW a, NEW b, NEW c, Plain(<<a>>), Plain(<<b>>), Plain(<<c>>)
  PROVE  Plain(<<a, b, c>>)
<1>1. Good(a) /\ Good(b) /\ Good(c)
      /\ a.do \notin Importing /\ b.do \notin Importing /\ c.do \notin Importing
  <2>1. DOMAIN <<a>> = {1} /\ <<a>>[1] = a /\ DOMAIN <<b>> = {1} /\ <<b>>[1] = b
        /\ DOMAIN <<c>> = {1} /\ <<c>>[1] = c
    OBVIOUS
  <2> QED BY <2>1 DEF Plain, GoodList
<1>2. DOMAIN <<a, b, c>> = {1, 2, 3} /\ <<a, b, c>>[1] = a /\ <<a, b, c>>[2] = b /\ <<a, b, c>>[3] = c
  OBVIOUS
<1> QED BY <1>1, <1>2, GoodThree DEF Plain

\* A statement that needs no row is good.
LEMMA PlainRun ==
  ASSUME NEW do \in {"read_providers", "read_accounts", "read_models", "read_aliases", "read_routes",
                     "store", "export_done"}
  PROVE  Plain(<<Run(do)>>)
<1>1. Run(do).do = do
  BY DEF Run, Stmt
<1>2. Good(Run(do)) /\ Run(do).do \notin Importing
  BY <1>1 DEF Good, Importing
<1> QED BY <1>2, PlainOne

\* The statements of a reload are plain.
LEMMA PlainReload == Plain(Reloading)
<1>1. Reloading = <<Run("read_providers"), Run("read_accounts"), Run("read_models")>>
                  \o <<Run("read_aliases"), Run("read_routes"), Run("store")>>
  BY DEF Reloading
<1> QED BY <1>1, PlainRun, PlainThree, PlainConcat

\* A list that is made for each of a sequence's elements.
LEMMA PlainBy ==
  ASSUME NEW n \in Nat, NEW s, DOMAIN s = 1..n, s = [i \in 1..n |-> s[i]],
         \A i \in 1..n : Good(s[i]) /\ s[i].do \notin Importing
  PROVE  Plain(s)
BY ListBy DEF Plain, GoodList

\* Statements that read nothing into a snapshot or a document either.
Reads == {"read_providers", "read_accounts", "read_models", "read_aliases", "read_routes",
          "read_targets", "store", "export_done"}

Writing(s) == Plain(s) /\ \A i \in DOMAIN s : s[i].do \notin Reads

\* A list of one statement that writes.
LEMMA WritingOne ==
  ASSUME NEW a, Good(a), a.do \notin Importing \cup Reads
  PROVE  Writing(<<a>>)
<1>1. DOMAIN <<a>> = {1} /\ <<a>>[1] = a
  OBVIOUS
<1> QED BY <1>1, PlainOne DEF Writing

\* Nothing to write.
LEMMA WritingNone == Writing(<<>>)
<1>1. Good(Run("store")) /\ Run("store").do \notin Importing /\ DOMAIN <<>> = {}
  BY DEF Good, Importing, Run, Stmt
<1> QED BY <1>1, PlainOne DEF Writing

\* Lists that write make one that writes.
LEMMA WritingConcat ==
  ASSUME NEW s, NEW t, Writing(s), Writing(t)
  PROVE  Writing(s \o t)
<1>1. Plain(s \o t) /\ IsList(s) /\ IsList(t)
  BY PlainConcat DEF Writing, Plain, GoodList
<1>2. \A i \in DOMAIN (s \o t) :
        \/ i \in DOMAIN s /\ (s \o t)[i] = s[i]
        \/ i - Len(s) \in DOMAIN t /\ (s \o t)[i] = t[i - Len(s)]
  BY <1>1, ListConcat
<1> QED BY <1>1, <1>2 DEF Writing

\* A list of two statements that write.
LEMMA WritingTwo ==
  ASSUME NEW a, NEW b, Writing(<<a>>), Writing(<<b>>)
  PROVE  Writing(<<a, b>>)
<1>1. DOMAIN <<a>> = {1} /\ <<a>>[1] = a /\ DOMAIN <<b>> = {1} /\ <<b>>[1] = b
  OBVIOUS
<1>2. DOMAIN <<a, b>> = {1, 2} /\ <<a, b>>[1] = a /\ <<a, b>>[2] = b
  OBVIOUS
<1>3. a.do \notin Reads /\ b.do \notin Reads
  BY <1>1 DEF Writing
<1>4. Plain(<<a, b>>)
  BY PlainTwo DEF Writing
<1> QED BY <1>2, <1>3, <1>4 DEF Writing

\* A list of three.
LEMMA WritingThree ==
  ASSUME NEW a, NEW b, NEW c, Writing(<<a>>), Writing(<<b>>), Writing(<<c>>)
  PROVE  Writing(<<a, b, c>>)
<1>1. DOMAIN <<a>> = {1} /\ <<a>>[1] = a /\ DOMAIN <<b>> = {1} /\ <<b>>[1] = b
      /\ DOMAIN <<c>> = {1} /\ <<c>>[1] = c
  OBVIOUS
<1>2. DOMAIN <<a, b, c>> = {1, 2, 3} /\ <<a, b, c>>[1] = a /\ <<a, b, c>>[2] = b /\ <<a, b, c>>[3] = c
  OBVIOUS
<1>3. a.do \notin Reads /\ b.do \notin Reads /\ c.do \notin Reads
  BY <1>1 DEF Writing
<1>4. Plain(<<a, b, c>>)
  BY PlainThree DEF Writing
<1> QED BY <1>2, <1>3, <1>4 DEF Writing

\* The targets of a route are written one by one (write_route_targets).
LEMMA WritingTargets ==
  ASSUME NEW r, NEW rows, NEW n \in Nat, DOMAIN rows = 1..n, Len(rows) = n,
         \A i \in 1..n : \E a, m : rows[i] = [account |-> a, model |-> m]
  PROVE  Writing(InsertTargets(r, rows))
<1> DEFINE s == InsertTargets(r, rows)
<1>1. s = [i \in 1..n |-> Stmt("insert_route_target", r, rows[i])]
  BY DEF InsertTargets
<1>2. DOMAIN s = 1..n /\ \A i \in 1..n : s[i] = Stmt("insert_route_target", r, rows[i])
  BY <1>1
<1>3. s = [i \in 1..n |-> s[i]]
  BY <1>1
<1> HIDE DEF s
<1>4. ASSUME NEW i \in 1..n PROVE Good(s[i]) /\ s[i].do \notin Importing \cup Reads
  <2>1. s[i].do = "insert_route_target" /\ s[i].row = rows[i]
    BY <1>2 DEF Stmt
  <2>2. \E a, m : s[i].row = [account |-> a, model |-> m]
    BY <2>1
  <2> QED BY <2>1, <2>2 DEF Good, Importing, Reads
<1>5. Plain(s)
  BY <1>1, <1>2, <1>3, <1>4, PlainBy
<1>6. Writing(s)
  BY <1>2, <1>4, <1>5 DEF Writing
<1> QED BY <1>6 DEF s

\* A step of handler h that leaves it sound work.
LEMMA WorkStep ==
  ASSUME WorkInv, NEW h \in Handlers, NEW S, NEW K, NEW B,
         todo' = [todo EXCEPT ![h] = S], known' = [known EXCEPT ![h] = K],
         buf' = [buf EXCEPT ![h] = B], WorkOf(S, K, B),
         DocOf(doc'), starts' \in 0..MaxHandlers
  PROVE  WorkInv'
<1>1. \A k \in Handlers : WorkOf(todo'[k], known'[k], buf'[k])
  <2> TAKE k \in Handlers
  <2>1. CASE k = h
    BY <2>1 DEF WorkInv, IsPerHandler
  <2>2. CASE k # h
    BY <2>2 DEF WorkInv, IsPerHandler
  <2> QED BY <2>1, <2>2
<1>2. IsPerHandler(todo)' /\ IsPerHandler(known)' /\ IsPerHandler(buf)'
  BY DEF WorkInv, IsPerHandler
<1>3. DocOf(doc)'
  OBVIOUS
<1> QED BY <1>1, <1>2, <1>3 DEF WorkInv

\* A handler that does a statement and leaves the others as they are keeps their types.
LEMMA RestWork ==
  ASSUME WorkInv, NEW h \in Handlers, todo[h] # <<>>, NEW s, Plain(s), NEW K, NEW B,
         K = None => known[h] = None /\ Head(todo[h]).do # "import_begin",
         K = None \/ K \in Knowledge, B = None \/ B \in Configs
  PROVE  WorkOf(Tail(todo[h]), K, B) /\ WorkOf(s \o Tail(todo[h]), K, B)
<1> DEFINE q == todo[h]
           t == Tail(q)
<1>1. WorkOf(q, known[h], buf[h]) /\ GoodList(q) /\ IsList(q) /\ q # <<>>
  BY DEF WorkInv, WorkOf, GoodList
<1>2. GoodList(t) /\ IsList(t)
  BY <1>1, GoodTail DEF GoodList
<1>3. K = None => \A i \in DOMAIN t : t[i].do \notin Importing
  <2> HAVE K = None
  <2>1. \A i \in DOMAIN q : q[i].do \notin Importing
    BY <1>1 DEF WorkOf
  <2> TAKE i \in DOMAIN t
  <2>2. DOMAIN q = 1..Len(q) /\ Len(q) \in Nat /\ DOMAIN t = 1..(Len(q) - 1) /\ t[i] = q[i + 1]
    BY <1>1, <1>2, ListTail, ListOf
  <2>3. i + 1 \in DOMAIN q
    BY <2>2
  <2> QED BY <2>1, <2>2, <2>3
<1>4. WorkOf(t, K, B)
  BY <1>2, <1>3 DEF WorkOf
<1>5. GoodList(s \o t) /\ IsList(s)
  BY <1>2, GoodConcat DEF Plain, GoodList
<1>6. K = None => \A i \in DOMAIN (s \o t) : (s \o t)[i].do \notin Importing
  <2>1. \A i \in DOMAIN (s \o t) :
          \/ i \in DOMAIN s /\ (s \o t)[i] = s[i]
          \/ i - Len(s) \in DOMAIN t /\ (s \o t)[i] = t[i - Len(s)]
    BY <1>2, <1>5, ListConcat
  <2> QED BY <1>3, <2>1 DEF Plain
<1>7. WorkOf(s \o t, K, B)
  BY <1>5, <1>6 DEF WorkOf
<1> QED BY <1>4, <1>7

\* Which handler's statements, names and rows a step changes.
LEMMA DoneWork ==
  ASSUME WorkInv, NEW h \in Handlers, todo[h] # <<>>, Head(todo[h]).do # "import_begin", Done(h),
         UNCHANGED <<known, buf, doc, starts>>
  PROVE  WorkInv'
<1>1. WorkOf(todo[h], known[h], buf[h]) /\ Plain(<<>>)
  <2>1. Plain(<<>>)
    BY PlainRun, PlainConcat, PlainOne DEF Good, Importing, Run, Stmt
  <2> QED BY <2>1 DEF WorkInv
<1>2. WorkOf(Tail(todo[h]), known[h], buf[h])
  BY <1>1, RestWork DEF WorkOf
<1>3. /\ todo' = [todo EXCEPT ![h] = Tail(todo[h])] /\ known' = [known EXCEPT ![h] = known[h]]
      /\ buf' = [buf EXCEPT ![h] = buf[h]] /\ DocOf(doc') /\ starts' \in 0..MaxHandlers
  BY DEF Done, WorkInv, IsPerHandler
<1> QED BY ONLY <1>2, <1>3, WorkStep, WorkInv, h \in Handlers

\* So does one that puts plain statements in front of what is left.
LEMMA ExpandWork ==
  ASSUME WorkInv, NEW h \in Handlers, todo[h] # <<>>, Head(todo[h]).do # "import_begin",
         NEW s, Plain(s), Expand(h, s), UNCHANGED <<known, buf, doc, starts>>
  PROVE  WorkInv'
<1>1. WorkOf(todo[h], known[h], buf[h])
  BY DEF WorkInv
<1>2. WorkOf(s \o Tail(todo[h]), known[h], buf[h])
  BY <1>1, RestWork DEF WorkOf
<1>3. /\ todo' = [todo EXCEPT ![h] = s \o Tail(todo[h])] /\ known' = [known EXCEPT ![h] = known[h]]
      /\ buf' = [buf EXCEPT ![h] = buf[h]] /\ DocOf(doc') /\ starts' \in 0..MaxHandlers
  BY DEF Expand, WorkInv, IsPerHandler
<1> QED BY ONLY <1>2, <1>3, WorkStep, WorkInv, h \in Handlers

\* So does one that reads rows.
LEMMA ReadWork ==
  ASSUME WorkInv, NEW h \in Handlers, todo[h] # <<>>, Head(todo[h]).do # "import_begin", Done(h),
         NEW B, B = None \/ B \in Configs, buf' = [buf EXCEPT ![h] = B],
         UNCHANGED known, DocOf(doc'), UNCHANGED starts
  PROVE  WorkInv'
<1>1. WorkOf(todo[h], known[h], buf[h]) /\ Plain(<<>>)
  <2>1. Plain(<<>>)
    BY PlainRun, PlainConcat, PlainOne DEF Good, Importing, Run, Stmt
  <2> QED BY <2>1 DEF WorkInv
<1>2. WorkOf(Tail(todo[h]), known[h], B)
  BY <1>1, RestWork DEF WorkOf
<1>3. /\ todo' = [todo EXCEPT ![h] = Tail(todo[h])] /\ known' = [known EXCEPT ![h] = known[h]]
      /\ starts' \in 0..MaxHandlers
  BY DEF Done, WorkInv, IsPerHandler
<1> QED BY <1>2, <1>3, WorkStep

\* So does one that notes ids by names.
LEMMA LearnWork ==
  ASSUME WorkInv, NEW h \in Handlers, todo[h] # <<>>, Done(h),
         NEW K, K \in Knowledge \/ (K = None /\ known[h] = None /\ Head(todo[h]).do # "import_begin"),
         known' = [known EXCEPT ![h] = K], UNCHANGED <<buf, doc, starts>>
  PROVE  WorkInv'
<1>0. None \notin Knowledge
  BY ConfigAssumption
<1>1. WorkOf(todo[h], known[h], buf[h]) /\ Plain(<<>>)
  <2>1. Plain(<<>>)
    BY PlainRun, PlainConcat, PlainOne DEF Good, Importing, Run, Stmt
  <2> QED BY <2>1 DEF WorkInv
<1>2. WorkOf(Tail(todo[h]), K, buf[h])
  BY <1>0, <1>1, RestWork DEF WorkOf
<1>3. /\ todo' = [todo EXCEPT ![h] = Tail(todo[h])] /\ buf' = [buf EXCEPT ![h] = buf[h]]
      /\ DocOf(doc') /\ starts' \in 0..MaxHandlers
  BY DEF Done, WorkInv, IsPerHandler
<1> QED BY <1>2, <1>3, WorkStep

\* A handler that ends has nothing left.
LEMMA EndWork ==
  ASSUME WorkInv, NEW h \in Handlers, End(h)
  PROVE  WorkInv'
<1>1. GoodList(<<>>) /\ DOMAIN <<>> = {}
  <2>1. Good(Run("store"))
    BY DEF Good, Run, Stmt
  <2> QED BY <2>1, GoodOne
<1>2. WorkOf(<<>>, None, None)
  BY <1>1 DEF WorkOf
<1>3. /\ todo' = [todo EXCEPT ![h] = <<>>] /\ known' = [known EXCEPT ![h] = None]
      /\ buf' = [buf EXCEPT ![h] = None] /\ DocOf(doc') /\ starts' \in 0..MaxHandlers
  BY DEF End, WorkInv, IsPerHandler
<1> QED BY <1>2, <1>3, WorkStep

\* A handler starts with what its list names.
LEMMA StartWork ==
  ASSUME WorkInv, NEW h \in Handlers, NEW what, NEW s, Start(h, what, s),
         Plain(s) \/ (GoodList(s) /\ s # <<>> /\ Head(s).do = "import_begin")
  PROVE  WorkInv'
<1>1. WorkOf(todo[h], known[h], buf[h])
  BY DEF WorkInv
<1>2. WorkOf(s, known[h], buf[h])
  BY <1>1 DEF WorkOf, Plain
<1>3. starts' \in 0..MaxHandlers
  BY ConfigAssumption DEF Start, WorkInv, Handlers
<1>4. /\ todo' = [todo EXCEPT ![h] = s] /\ known' = [known EXCEPT ![h] = known[h]]
      /\ buf' = [buf EXCEPT ![h] = buf[h]] /\ DocOf(doc')
  BY DEF Start, WorkInv, IsPerHandler, local
<1> QED BY <1>2, <1>3, <1>4, WorkStep

-----------------------------------------------------------------------------
\* Statements that are done when they have changed the tables.
LEMMA EditWork ==
  ASSUME WorkInv, NEW h \in Handlers,
         \/ UpdateProvider(h) \/ UpdateSemantics(h) \/ DeleteProvider(h)
         \/ InsertAccountRow(h) \/ UpdateAccountRow(h) \/ RotateKey(h) \/ DeleteAccount(h)
         \/ UpdateModel(h) \/ SetOverride(h) \/ MergeDiscovery(h) \/ DeleteModel(h)
         \/ InsertRoute(h) \/ InsertTarget(h) \/ ClearTargets(h) \/ DeleteRoute(h)
         \/ WriteAlias(h) \/ DeleteAlias(h) \/ ResetNoAuth(h) \/ Unpin(h) \/ DeleteAccounts(h)
  PROVE  WorkInv'
<1>1. /\ todo[h] # <<>> /\ Head(todo[h]).do # "import_begin" /\ Done(h)
      /\ UNCHANGED <<known, buf, doc, starts>>
  <2>1. CASE UpdateProvider(h) \/ UpdateSemantics(h) \/ DeleteProvider(h)
    BY <2>1 DEF UpdateProvider, UpdateSemantics, DeleteProvider, Ready, IsNext, local, seen
  <2>2. CASE InsertAccountRow(h) \/ UpdateAccountRow(h) \/ RotateKey(h) \/ DeleteAccount(h)
    BY <2>2 DEF InsertAccountRow, UpdateAccountRow, RotateKey, DeleteAccount, Ready, IsNext, local, seen
  <2>3. CASE UpdateModel(h) \/ SetOverride(h) \/ MergeDiscovery(h) \/ DeleteModel(h)
    BY <2>3 DEF UpdateModel, SetOverride, MergeDiscovery, DeleteModel, Ready, IsNext, local, seen
  <2>4. CASE InsertRoute(h) \/ InsertTarget(h) \/ ClearTargets(h) \/ DeleteRoute(h)
    BY <2>4 DEF InsertRoute, InsertTarget, ClearTargets, DeleteRoute, Ready, IsNext, local, seen
  <2>5. CASE WriteAlias(h) \/ DeleteAlias(h)
    BY <2>5 DEF WriteAlias, DeleteAlias, Ready, IsNext, local, seen
  <2>6. CASE ResetNoAuth(h) \/ Unpin(h) \/ DeleteAccounts(h)
    BY <2>6 DEF ResetNoAuth, Unpin, DeleteAccounts, Ready, IsNext, local, seen
  <2> QED BY <2>1, <2>2, <2>3, <2>4, <2>5, <2>6
<1> QED BY <1>1, DoneWork

\* Who applies the rows of a document has looked the names up.
LEMMA ImportKnows ==
  ASSUME WorkInv, NEW h \in Handlers, todo[h] # <<>>, Head(todo[h]).do \in Importing
  PROVE  known[h] \in Knowledge
<1>1. WorkOf(todo[h], known[h], buf[h]) /\ IsList(todo[h])
  BY DEF WorkInv, WorkOf, GoodList
<1>2. 1 \in DOMAIN todo[h] /\ Head(todo[h]) = todo[h][1]
  BY <1>1, ListOf, ListTail
<1>3. Head(todo[h]).do # "import_begin"
  BY DEF Importing
<1> QED BY <1>1, <1>2, <1>3 DEF WorkOf

\* The id of a new provider is noted by its name (import_config, provider_ids).
LEMMA InsertProviderWork ==
  ASSUME RowInv, WorkInv, NEW h \in Handlers, InsertProvider(h)
  PROVE  WorkInv'
<1> DEFINE p == made.providers + 1
           n == Head(todo[h]).row.name
           k == known[h]
           K == IF k = None THEN None ELSE [k EXCEPT !.providers[n] = p]
<1>1. /\ todo[h] # <<>> /\ Head(todo[h]).do = "insert_provider" /\ Done(h) /\ p <= MaxProviders
      /\ known' = IF k = None THEN known ELSE [known EXCEPT ![h].providers[n] = p]
      /\ UNCHANGED <<buf, doc, starts>>
  BY DEF InsertProvider, Ready, IsNext, seen
<1>2. k = None \/ k \in Knowledge
  BY DEF WorkInv, WorkOf
<1>3. p \in 1..MaxProviders
  BY <1>1, ConfigAssumption DEF RowInv, RowTypes
<1> HIDE DEF p, n
<1>4. k # None => K \in Knowledge
  BY <1>2, <1>3 DEF Knowledge
<1>5. known' = [known EXCEPT ![h] = K]
  BY <1>1 DEF WorkInv, IsPerHandler
<1> QED BY <1>1, <1>4, <1>5, LearnWork

\* The id of a new model is noted by its name (import_config, model_ids).
LEMMA InsertModelWork ==
  ASSUME RowInv, WorkInv, NEW h \in Handlers, InsertModel(h)
  PROVE  WorkInv'
<1> DEFINE m == made.models + 1
           n == <<Head(todo[h]).id, Head(todo[h]).row.upstream>>
           k == known[h]
           K == IF k = None THEN None ELSE [k EXCEPT !.models[n] = m]
<1>1. /\ todo[h] # <<>> /\ Head(todo[h]).do = "insert_model" /\ Done(h) /\ m <= MaxModels
      /\ known' = IF k = None THEN known ELSE [known EXCEPT ![h].models[n] = m]
      /\ UNCHANGED <<buf, doc, starts>>
  BY DEF InsertModel, Ready, IsNext, seen
<1>2. k = None \/ k \in Knowledge
  BY DEF WorkInv, WorkOf
<1>3. m \in 1..MaxModels
  BY <1>1, ConfigAssumption DEF RowInv, RowTypes
<1> HIDE DEF m, n
<1>4. k # None => K \in Knowledge
  BY <1>2, <1>3 DEF Knowledge
<1>5. known' = [known EXCEPT ![h] = K]
  BY <1>1 DEF WorkInv, IsPerHandler
<1> QED BY <1>1, <1>4, <1>5, LearnWork

\* The least of a set of naturals.
Below == OpToRel(<, Nat)

\* Numbers are well-founded by their order.
LEMMA BelowIsLess == \A x, y \in Nat : x < y => <<x, y>> \in Below
BY DEF Below, OpToRel

\* A set of numbers that is not empty has a least one.
LEMMA LeastIn ==
  ASSUME NEW T, T \subseteq Nat, T # {}
  PROVE  \E x \in T : \A y \in T : x <= y
<1>1. IsWellFoundedOn(Below, Nat)
  BY NatLessThanWellFounded DEF Below
<1>2. PICK x \in T : \A y \in T : ~ (<<y, x>> \in Below)
  BY <1>1, WFMin
<1>3. \A y \in T : y \in Nat /\ ~(y < x)
  BY <1>2, BelowIsLess
<1> QED BY <1>3

\* The first of some ids (Min), and the last (Max).
LEMMA MinIs ==
  ASSUME NEW S, S \subseteq Nat, S # {}
  PROVE  Min(S) \in S /\ \A x \in S : Min(S) <= x
BY LeastIn DEF Min

\* A set of numbers with a bound has a greatest one.
LEMMA MaxIs ==
  ASSUME NEW n \in Nat, NEW S, S \subseteq 0..n, S # {}
  PROVE  Max(S) \in S /\ \A x \in S : x <= Max(S)
<1> DEFINE T == {n - i : i \in S}
<1>0. \A i \in S : i \in Nat /\ n - i \in Nat
  OBVIOUS
<1>1. T # {} /\ T \subseteq Nat
  BY <1>0
<1>2. PICK t \in T : \A u \in T : t <= u
  <2> HIDE DEF T
  <2> QED BY <1>1, LeastIn
<1>3. PICK x \in S : t = n - x
  OBVIOUS
<1>4. \A y \in S : n - x <= n - y
  <2> TAKE y \in S
  <2>1. n - y \in T
    OBVIOUS
  <2> HIDE DEF T
  <2> QED BY <1>2, <1>3, <2>1
<1>5. \A y \in S : x >= y
  BY <1>0, <1>4
<1>6. \E z \in S : \A y \in S : z >= y
  BY <1>5
<1>7. Max(S) \in S /\ \A y \in S : Max(S) >= y
  BY <1>6 DEF Max
<1> QED BY <1>7

\* The last of the rows of one name (LastOf).
LEMMA LastOfIs ==
  ASSUME NEW n \in Nat, NEW S, S \subseteq 1..n
  PROVE  \/ LastOf(S) = None
         \/ LastOf(S) \in 1..n /\ LastOf(S) \in S /\ \A x \in S : x <= LastOf(S)
<1>1. CASE S = {}
  BY <1>1 DEF LastOf
<1>2. CASE S # {}
  <2>1. S \subseteq 0..n
    OBVIOUS
  <2> QED BY <1>2, <2>1, MaxIs DEF LastOf
<1> QED BY <1>1, <1>2

\* An import notes the providers that are there (import_config).
LEMMA ImportBeginWork ==
  ASSUME RowInv, WorkInv, NEW h \in Handlers, ImportBegin(h)
  PROVE  WorkInv'
<1> DEFINE P == [n \in Names |-> LastOf({p \in Live(providers) : providers[p].name = n})]
           M == [k \in ModelKeys |-> None]
           K == [providers |-> P, models |-> M]
<1>1. /\ todo[h] # <<>> /\ Done(h) /\ known' = [known EXCEPT ![h] = K] /\ UNCHANGED <<buf, doc, starts>>
  BY DEF ImportBegin, Ready, IsNext, seen
<1>2. Live(providers) \subseteq 1..MaxProviders /\ MaxProviders \in Nat
  BY ConfigAssumption DEF Live, RowInv, RowTypes
<1>3. \A n \in Names : P[n] \in 1..MaxProviders \cup {None}
  <2> TAKE n \in Names
  <2> DEFINE S == {p \in Live(providers) : providers[p].name = n}
  <2>1. S \subseteq 1..MaxProviders
    BY <1>2
  <2>2. P[n] = LastOf(S)
    OBVIOUS
  <2> HIDE DEF S, P
  <2> QED BY <1>2, <2>1, <2>2, LastOfIs
<1>4. K \in Knowledge
  BY <1>3 DEF Knowledge
<1> HIDE DEF K
<1> QED BY <1>1, <1>4, LearnWork

\* An import notes the models that are there (import_config).
LEMMA ImportModelsWork ==
  ASSUME RowInv, WorkInv, NEW h \in Handlers, ImportModels(h)
  PROVE  WorkInv'
<1> DEFINE M == [k \in ModelKeys |-> LastOf({m \in Live(models) : ModelKey(Config, m) = k})]
           k == known[h]
           K == [k EXCEPT !.models = M]
<1>1. /\ todo[h] # <<>> /\ Head(todo[h]).do = "import_models" /\ Done(h)
      /\ known' = [known EXCEPT ![h].models = M] /\ UNCHANGED <<buf, doc, starts>>
  BY DEF ImportModels, Ready, IsNext, seen
<1>2. Live(models) \subseteq 1..MaxModels /\ MaxModels \in Nat
  BY ConfigAssumption DEF Live, RowInv, RowTypes
<1>3. \A n \in ModelKeys : M[n] \in 1..MaxModels \cup {None}
  <2> TAKE n \in ModelKeys
  <2> DEFINE S == {m \in Live(models) : ModelKey(Config, m) = n}
  <2>1. S \subseteq 1..MaxModels
    BY <1>2
  <2>2. M[n] = LastOf(S)
    OBVIOUS
  <2> HIDE DEF S, M
  <2> QED BY <1>2, <2>1, <2>2, LastOfIs
<1>4. k \in Knowledge
  BY <1>1, ImportKnows DEF Importing
<1>5. M \in [ModelKeys -> 1..MaxModels \cup {None}]
  BY <1>3
<1> HIDE DEF M
<1>6. K \in Knowledge
  BY <1>4, <1>5 DEF Knowledge
<1>7. known' = [known EXCEPT ![h] = K]
  BY <1>1
<1> HIDE DEF K
<1> QED BY <1>1, <1>6, <1>7, LearnWork

-----------------------------------------------------------------------------
\* What is read, and the document made of it.
LEMMA FilledIs ==
  ASSUME WorkInv, NEW h \in Handlers
  PROVE  Filled(h) \in Configs
<1>1. EmptyConfig \in Configs
  <2>1. [r \in 1..MaxRoutes |-> <<>>] \in [1..MaxRoutes -> Seq(TargetRow)]
    OBVIOUS
  <2> QED BY <2>1 DEF EmptyConfig, Configs
<1>2. buf[h] = None \/ buf[h] \in Configs
  BY DEF WorkInv, WorkOf
<1> QED BY <1>1, <1>2 DEF Filled

\* What a reload or an export has read are rows of the tables.
LEMMA ReadingWork ==
  ASSUME RowInv, WorkInv, NEW h \in Handlers,
         \/ ReadProviders(h) \/ ReadAccounts(h) \/ ReadModels(h) \/ ReadAliases(h) \/ ReadTargets(h)
  PROVE  WorkInv'
<1> DEFINE b == Filled(h)
<1>1. b \in Configs
  BY FilledIs
<1> HIDE DEF b
<1>2. ASSUME NEW do, NEW rows \in Configs, do # "import_begin", ReadInto(h, do, rows)
      PROVE  WorkInv'
  <2>1. /\ todo[h] # <<>> /\ Head(todo[h]).do # "import_begin" /\ Done(h)
        /\ buf' = [buf EXCEPT ![h] = rows] /\ UNCHANGED <<known, doc, starts>>
    BY <1>2 DEF ReadInto, Ready, IsNext, seen
  <2>2. DocOf(doc')
    BY <2>1 DEF WorkInv
  <2> QED BY <1>2, <2>1, <2>2, ReadWork
<1>3. CASE ReadProviders(h)
  <2>1. [b EXCEPT !.providers = providers] \in Configs
    BY <1>1 DEF Configs, RowInv, RowTypes
  <2> QED BY <1>2, <1>3, <2>1 DEF ReadProviders, b
<1>4. CASE ReadAccounts(h)
  <2>1. [b EXCEPT !.accounts = accounts] \in Configs
    BY <1>1 DEF Configs, RowInv, RowTypes
  <2> QED BY <1>2, <1>4, <2>1 DEF ReadAccounts, b
<1>5. CASE ReadModels(h)
  <2>1. [b EXCEPT !.models = models] \in Configs
    BY <1>1 DEF Configs, RowInv, RowTypes
  <2> QED BY <1>2, <1>5, <2>1 DEF ReadModels, b
<1>6. CASE ReadAliases(h)
  <2>1. [b EXCEPT !.aliases = aliases] \in Configs
    BY <1>1 DEF Configs, RowInv, RowTypes
  <2> QED BY <1>2, <1>6, <2>1 DEF ReadAliases, b
<1>7. CASE ReadTargets(h)
  <2> DEFINE r == Head(todo[h]).id
             t == targets[r]
  <2>1. r \in 1..MaxRoutes => t \in Seq(TargetRow)
    BY DEF RowInv, RowTypes
  <2>2. ReadInto(h, "read_targets", [b EXCEPT !.targets[r] = t])
    BY <1>7 DEF ReadTargets, b
  <2> HIDE DEF r, t
  <2>3. [b.targets EXCEPT ![r] = t] \in [1..MaxRoutes -> Seq(TargetRow)]
    <3>1. b.targets \in [1..MaxRoutes -> Seq(TargetRow)]
      BY <1>1 DEF Configs
    <3> QED BY <2>1, <3>1
  <2>4. [b EXCEPT !.targets = [b.targets EXCEPT ![r] = t]] \in Configs
    BY <1>1, <2>3 DEF Configs
  <2>5. [b EXCEPT !.targets[r] = t] \in Configs
    BY <2>4
  <2> QED BY <1>2, <2>2, <2>5
<1> QED BY <1>3, <1>4, <1>5, <1>6, <1>7

\* The elements of a finite set in a sequence (SetToSeq).
LEMMA SequenceOf ==
  ASSUME NEW S, IsFiniteSet(S)
  PROVE  /\ Cardinality(S) \in Nat /\ DOMAIN SetToSeq(S) = 1..Cardinality(S)
         /\ Len(SetToSeq(S)) = Cardinality(S)
         /\ \A i \in 1..Cardinality(S) : SetToSeq(S)[i] \in S
         /\ \A x \in S : \E i \in 1..Cardinality(S) : SetToSeq(S)[i] = x
         /\ \A i, j \in 1..Cardinality(S) : SetToSeq(S)[i] = SetToSeq(S)[j] => i = j
<1> DEFINE n == Cardinality(S)
           q == SetToSeq(S)
<1>1. n \in Nat /\ ExistsBijection(1..n, S)
  BY FS_CardinalityType
<1>2. PICK g : g \in Injection(1..n, S)
  BY <1>1 DEF ExistsBijection, Bijection
<1>3. g \in [1..n -> S] /\ IsInjective(g)
  BY <1>2 DEF Injection
<1>4. q \in [1..n -> S] /\ IsInjective(q)
  BY <1>3 DEF SetToSeq
<1>5. q \in Injection(1..n, S)
  BY <1>4 DEF Injection
<1>6. Cardinality(1..n) = n
  <2> HIDE DEF n
  <2>1. Cardinality(1..n) = IF 1 > n THEN 0 ELSE n - 1 + 1
    BY <1>1, FS_Interval
  <2> QED BY <1>1, <2>1
<1>7. q \in Surjection(1..n, S)
  BY <1>5, <1>6, FS_Injection
<1> HIDE DEF n, q
<1>8. Len(q) = n
  BY <1>1, <1>4
<1>9. /\ \A i \in 1..n : q[i] \in S
      /\ \A x \in S : \E i \in 1..n : q[i] = x
      /\ \A i, j \in 1..n : q[i] = q[j] => i = j
  BY <1>4, <1>7 DEF Surjection, IsInjective
<1> QED BY <1>1, <1>4, <1>8, <1>9 DEF n, q

\* There are finitely many routes.
LEMMA LiveFinite ==
  ASSUME NEW b \in Configs
  PROVE  /\ IsFiniteSet(Live(b.providers)) /\ IsFiniteSet(Live(b.accounts))
         /\ IsFiniteSet(Live(b.models)) /\ IsFiniteSet(Live(b.routes)) /\ IsFiniteSet(Live(b.aliases))
<1>1. /\ Live(b.providers) \subseteq 1..MaxProviders /\ Live(b.accounts) \subseteq 1..MaxAccounts
      /\ Live(b.models) \subseteq 1..MaxModels /\ Live(b.routes) \subseteq 1..MaxRoutes
      /\ Live(b.aliases) \subseteq Aliases
  BY DEF Configs, Live
<1>2. /\ IsFiniteSet(1..MaxProviders) /\ IsFiniteSet(1..MaxAccounts) /\ IsFiniteSet(1..MaxModels)
      /\ IsFiniteSet(1..MaxRoutes) /\ IsFiniteSet(Aliases)
  BY ConfigAssumption, FS_Interval
<1> QED BY <1>1, <1>2, FS_Subset

\* After the routes come the targets of each of them (list_routes).
LEMMA ReadRoutesWork ==
  ASSUME RowInv, WorkInv, NEW h \in Handlers, ReadRoutes(h)
  PROVE  WorkInv'
<1> DEFINE n == Cardinality(Live(routes))
           s == [i \in 1..n |-> Stmt("read_targets", SetToSeq(Live(routes))[i], None)]
           b == Filled(h)
           B == [b EXCEPT !.routes = routes]
<1>1. n \in Nat
  <2>1. Config \in Configs /\ Config.routes = routes
    BY RowInvIs DEF RowWhole, Config
  <2> QED BY <2>1, LiveFinite, FS_CardinalityType
<1>2. /\ todo[h] # <<>> /\ Head(todo[h]).do # "import_begin" /\ Expand(h, s)
      /\ buf' = [buf EXCEPT ![h] = B] /\ UNCHANGED <<known, doc, starts>>
  BY DEF ReadRoutes, Ready, IsNext, seen
<1>3. Plain(s)
  <2> HIDE DEF n
  <2>1. \A i \in 1..n : Good(s[i]) /\ s[i].do \notin Importing
    BY DEF Stmt, Good, Importing
  <2>2. DOMAIN s = 1..n /\ s = [i \in 1..n |-> s[i]]
    OBVIOUS
  <2> HIDE DEF s
  <2> QED BY <1>1, <2>1, <2>2, PlainBy
<1>4. B \in Configs
  <2>1. b \in Configs
    BY FilledIs
  <2> HIDE DEF b
  <2> QED BY <2>1 DEF Configs, RowInv, RowTypes
<1> HIDE DEF s, B
<1>5. WorkOf(todo[h], known[h], buf[h])
  BY DEF WorkInv
<1>6. WorkOf(s \o Tail(todo[h]), known[h], B)
  BY <1>2, <1>3, <1>4, <1>5, RestWork DEF WorkOf
<1>7. /\ todo' = [todo EXCEPT ![h] = s \o Tail(todo[h])] /\ known' = [known EXCEPT ![h] = known[h]]
      /\ DocOf(doc') /\ starts' \in 0..MaxHandlers
  BY <1>2 DEF Expand, WorkInv, IsPerHandler
<1> QED BY ONLY <1>2, <1>6, <1>7, WorkStep, WorkInv, h \in Handlers

\* A reload that is done keeps nothing it has read (Registry::reload).
LEMMA StoreWork ==
  ASSUME WorkInv, NEW h \in Handlers, Store(h)
  PROVE  WorkInv'
<1>1. /\ todo[h] # <<>> /\ Head(todo[h]).do # "import_begin" /\ Done(h)
      /\ buf' = [buf EXCEPT ![h] = None] /\ UNCHANGED <<known, doc, starts>>
  BY DEF Store, Ready, IsNext, seen
<1>2. DocOf(doc')
  BY <1>1 DEF WorkInv
<1> QED BY <1>1, <1>2, ReadWork

\* Finitely many things have finitely many images.
LEMMA ImageFinite ==
  ASSUME NEW S, IsFiniteSet(S), NEW f, f = [x \in S |-> f[x]]
  PROVE  IsFiniteSet({f[x] : x \in S})
<1> DEFINE T == {f[x] : x \in S}
<1>1. f \in [S -> T] /\ \A t \in T : \E x \in S : f[x] = t
  OBVIOUS
<1> HIDE DEF T
<1>2. f \in Surjection(S, T)
  BY <1>1 DEF Surjection
<1>3. IsFiniteSet(T)
  BY <1>2, FS_Surjection
<1> QED BY <1>3 DEF T

\* A model is known by the name of its provider and its own (export_config).
LEMMA ModelKeyType ==
  ASSUME NEW b \in Configs, NEW m
  PROVE  ModelKey(b, m) \in ModelKeys \cup {None}
<1>1. CASE m \in Live(b.models) /\ b.providers[b.models[m].provider] # None
  <2>1. b.models[m] \in ModelRow
    BY <1>1 DEF Live, Configs
  <2>2. b.models[m].upstream \in Upstreams /\ b.models[m].provider \in 1..MaxProviders
    BY <2>1 DEF ModelRow
  <2>3. b.providers[b.models[m].provider] \in ProviderRow
    BY <1>1, <2>2 DEF Configs
  <2>4. b.providers[b.models[m].provider].name \in Names
    BY <2>3 DEF ProviderRow
  <2> QED BY <1>1, <2>2, <2>4 DEF ModelKey, ModelKeys
<1>2. CASE ~(m \in Live(b.models) /\ b.providers[b.models[m].provider] # None)
  BY <1>2 DEF ModelKey
<1> QED BY <1>1, <1>2

\* A document is one of rows of their types (Export).
LEMMA ExportIs ==
  ASSUME NEW b \in Configs
  PROVE  DocOf(Export(b))
<1> DEFINE d == Export(b)
           A == {a \in Live(b.accounts) : /\ b.providers[b.accounts[a].provider] # None
                                          /\ b.accounts[a].label # NoAuth /\ ~b.accounts[a].disabled}
           M == {m \in Live(b.models) : ModelKey(b, m) # None}
           fp == [p \in Live(b.providers) |->
                    [name |-> b.providers[p].name, mode |-> b.providers[p].mode,
                     bound |-> b.providers[p].bound]]
           fa == [a \in A |-> [provider |-> b.providers[b.accounts[a].provider].name,
                               label |-> b.accounts[a].label]]
           fm == [m \in M |-> [key |-> ModelKey(b, m), enabled |-> b.models[m].enabled,
                               override |-> b.models[m].override]]
           ts(r) == [i \in DOMAIN b.targets[r] |->
                       [account |-> b.targets[r][i].account, key |-> ModelKey(b, b.targets[r][i].model)]]
           fr == [r \in Live(b.routes) |-> [name |-> b.routes[r], targets |-> ts(r)]]
           fn == [n \in Live(b.aliases) |->
                    [alias |-> n, type |-> b.aliases[n].type,
                     target |-> IF b.aliases[n].type = "model" THEN ModelKey(b, b.aliases[n].id)
                                ELSE b.routes[b.aliases[n].id]]]
<1>1. /\ d.providers = {fp[p] : p \in Live(b.providers)} /\ d.accounts = {fa[a] : a \in A}
      /\ d.models = {fm[m] : m \in M} /\ d.routes = {fr[r] : r \in Live(b.routes)}
      /\ d.aliases = {fn[n] : n \in Live(b.aliases)}
  BY DEF Export
<1>2. /\ IsFiniteSet(Live(b.providers)) /\ IsFiniteSet(Live(b.routes)) /\ IsFiniteSet(Live(b.aliases))
      /\ IsFiniteSet(A) /\ IsFiniteSet(M)
  <2>1. A \subseteq Live(b.accounts) /\ M \subseteq Live(b.models)
    OBVIOUS
  <2> HIDE DEF A, M
  <2> QED BY <2>1, LiveFinite, FS_Subset
<1>3. \A p \in Live(b.providers) : fp[p] \in ProviderRow
  BY DEF Live, Configs, ProviderRow
<1>4. \A a \in A : fa[a].label \in Labels
  BY DEF Live, Configs, AccountRow
<1>5. \A m \in M : /\ fm[m].key \in ModelKeys /\ fm[m].enabled \in BOOLEAN
                   /\ fm[m].override \in Transports \cup {None}
  <2> TAKE m \in M
  <2>1. fm[m].key = ModelKey(b, m) /\ fm[m].enabled = b.models[m].enabled
        /\ fm[m].override = b.models[m].override
    OBVIOUS
  <2>2. ModelKey(b, m) \in ModelKeys
    BY ModelKeyType
  <2>3. b.models[m] \in ModelRow
    BY DEF Live, Configs
  <2> HIDE DEF fm
  <2> QED BY <2>1, <2>2, <2>3 DEF ModelRow
<1>6. \A r \in Live(b.routes) : fr[r].name \in RouteNames /\ \E T : fr[r].targets \in Seq(T)
  <2> TAKE r \in Live(b.routes)
  <2>1. b.targets[r] \in Seq(TargetRow) /\ b.routes[r] \in RouteNames
    BY DEF Live, Configs
  <2>2. Len(b.targets[r]) \in Nat /\ DOMAIN b.targets[r] = 1..Len(b.targets[r])
    BY <2>1
  <2>3. DOMAIN ts(r) = 1..Len(b.targets[r]) /\ ts(r) = [i \in 1..Len(b.targets[r]) |-> ts(r)[i]]
    BY <2>2
  <2>4. fr[r].targets = ts(r) /\ fr[r].name = b.routes[r]
    OBVIOUS
  <2>5. IsList(ts(r))
    <3> DEFINE q == ts(r)
    <3>1. DOMAIN q = 1..Len(b.targets[r]) /\ q = [i \in 1..Len(b.targets[r]) |-> q[i]]
      BY <2>3
    <3> HIDE DEF q
    <3>2. IsList(q)
      BY <2>2, <3>1, ListBy
    <3> QED BY <3>2 DEF q
  <2> QED BY <2>1, <2>4, <2>5 DEF IsList
<1>7. \A n \in Live(b.aliases) :
        /\ fn[n].type \in {"model", "route"}
        /\ fn[n].type = "model" => fn[n].target \in ModelKeys \cup {None}
  <2> TAKE n \in Live(b.aliases)
  <2>1. b.aliases[n] \in AliasRow
    BY DEF Live, Configs
  <2>2. fn[n].type = b.aliases[n].type
        /\ fn[n].target = IF b.aliases[n].type = "model" THEN ModelKey(b, b.aliases[n].id)
                          ELSE b.routes[b.aliases[n].id]
    OBVIOUS
  <2> HIDE DEF fn
  <2> QED BY <2>1, <2>2, ModelKeyType DEF AliasRow
<1>8. /\ fp = [p \in Live(b.providers) |-> fp[p]] /\ fa = [a \in A |-> fa[a]] /\ fm = [m \in M |-> fm[m]]
      /\ fr = [r \in Live(b.routes) |-> fr[r]] /\ fn = [n \in Live(b.aliases) |-> fn[n]]
  OBVIOUS
<1> HIDE DEF d, A, M, fp, fa, fm, fr, fn
<1>9. IsFiniteSet(d.providers) /\ IsFiniteSet(d.accounts) /\ IsFiniteSet(d.models)
      /\ IsFiniteSet(d.routes) /\ IsFiniteSet(d.aliases)
  <2>1. IsFiniteSet(d.providers)
    BY <1>1, <1>2, <1>8, ImageFinite
  <2>2. IsFiniteSet(d.accounts)
    BY <1>1, <1>2, <1>8, ImageFinite
  <2>3. IsFiniteSet(d.models)
    BY <1>1, <1>2, <1>8, ImageFinite
  <2>4. IsFiniteSet(d.routes)
    BY <1>1, <1>2, <1>8, ImageFinite
  <2>5. IsFiniteSet(d.aliases)
    BY <1>1, <1>2, <1>8, ImageFinite
  <2> QED BY <2>1, <2>2, <2>3, <2>4, <2>5
<1>10. DocOf(d)
  BY <1>1, <1>3, <1>4, <1>5, <1>6, <1>7, <1>9 DEF DocOf
<1> QED BY <1>10 DEF d

\* The document of an export is one that an import can work through (export_config).
LEMMA ExportDoneWork ==
  ASSUME WorkInv, NEW h \in Handlers, ExportDone(h)
  PROVE  WorkInv'
<1>1. /\ todo[h] # <<>> /\ Head(todo[h]).do # "import_begin" /\ Done(h) /\ doc' = Export(Filled(h))
      /\ buf' = [buf EXCEPT ![h] = buf[h]] /\ UNCHANGED <<known, starts>>
  BY DEF ExportDone, Ready, IsNext, local, seen, WorkInv, IsPerHandler
<1>2. DocOf(doc') /\ (buf[h] = None \/ buf[h] \in Configs)
  BY <1>1, FilledIs, ExportIs DEF WorkInv, WorkOf
<1> QED BY <1>1, <1>2, ReadWork

-----------------------------------------------------------------------------
(* Statements that put others in their place (Expand). *)

\* The first statement that is left is good.
LEMMA HeadGood ==
  ASSUME WorkInv, NEW h \in Handlers, todo[h] # <<>>
  PROVE  Good(Head(todo[h]))
BY GoodTail DEF WorkInv, WorkOf

Expands(h) ==
  /\ todo[h] # <<>> /\ Head(todo[h]).do \notin Reads \cup {"import_begin"}
  /\ \E s : Writing(s) /\ Expand(h, s)
  /\ UNCHANGED <<tables, made, snap, doc, local, seen, given>>

\* An alias is updated or inserted (upsert_alias).
LEMMA UpsertAliasExpands ==
  ASSUME WorkInv, NEW h \in Handlers, UpsertAlias(h)
  PROVE  Expands(h)
<1> DEFINE s == Head(todo[h])
           do == IF aliases[s.id] # None THEN "update_alias" ELSE "insert_alias"
<1>1. /\ todo[h] # <<>> /\ s.do = "upsert_alias" /\ Expand(h, <<Stmt(do, s.id, s.row)>>)
      /\ UNCHANGED <<tables, made, snap, doc, local, seen, given>>
  BY DEF UpsertAlias, Ready, IsNext
<1>2. s.row \in AliasRow
  BY <1>1, HeadGood DEF Good
<1>3. do \in {"update_alias", "insert_alias"}
  OBVIOUS
<1> HIDE DEF do
<1>4. Writing(<<Stmt(do, s.id, s.row)>>)
  <2>1. Good(Stmt(do, s.id, s.row)) /\ Stmt(do, s.id, s.row).do \notin Importing \cup Reads
    BY <1>2, <1>3 DEF Good, Importing, Reads, Stmt
  <2> QED BY <2>1, WritingOne
<1> QED BY <1>1, <1>4 DEF Expands, Reads

\* What brings a provider's accounts in line with a mode (Reconciliation).
LEMMA WritingReconciliation ==
  ASSUME NEW p, NEW mode
  PROVE  Writing(Reconciliation(p, mode))
<1> DEFINE s1 == Stmt("reset_noauth", p, AccountsOf(p, Synthetic))
           s2 == Stmt("unpin", p, Labels)
           s3 == Stmt("delete_accounts", p, Labels)
           s4 == Stmt("insert_account", None, NoAuthRow(p))
           s5 == Stmt("unpin", p, Synthetic)
           s6 == Stmt("delete_accounts", p, Synthetic)
<1>1. Writing(<<s1>>) /\ Writing(<<s2>>) /\ Writing(<<s3>>) /\ Writing(<<s5>>) /\ Writing(<<s6>>)
  <2>1. Good(s1) /\ Good(s2) /\ Good(s3) /\ Good(s5) /\ Good(s6)
    BY DEF Good, Stmt
  <2>2. /\ s1.do \notin Importing \cup Reads /\ s2.do \notin Importing \cup Reads /\ s3.do \notin Importing \cup Reads
        /\ s5.do \notin Importing \cup Reads /\ s6.do \notin Importing \cup Reads
    BY DEF Importing, Reads, Stmt
  <2> HIDE DEF s1, s2, s3, s5, s6
  <2> QED BY <2>1, <2>2, WritingOne
<1>2. Writing(<<s4>>)
  <2>1. s4.do = "insert_account" /\ s4.row = [provider |-> p, label |-> NoAuth, disabled |-> FALSE]
    BY DEF Stmt, NoAuthRow
  <2>2. NoAuth \in Labels
    BY DEF Labels
  <2> HIDE DEF s4
  <2>3. \E q, l : l \in Labels /\ s4.row = [provider |-> q, label |-> l, disabled |-> FALSE]
    BY <2>1, <2>2
  <2>4. Good(s4) /\ s4.do \notin Importing \cup Reads
    BY <2>1, <2>3 DEF Good, Importing, Reads
  <2> QED BY <2>4, WritingOne
<1>3. /\ Reconciliation(p, mode) \in {<<s1>>, <<s2, s3, s4>>, <<s5, s6>>}
  BY DEF Reconciliation
<1> HIDE DEF s1, s2, s3, s4, s5, s6
<1>4. Writing(<<s2, s3, s4>>) /\ Writing(<<s5, s6>>)
  BY <1>1, <1>2, WritingTwo, WritingThree
<1> QED BY <1>1, <1>3, <1>4

\* The accounts of a provider are made those of its mode (reconcile_provider_account_mode).
LEMMA ReconcileExpands ==
  ASSUME WorkInv, NEW h \in Handlers, Reconcile(h)
  PROVE  Expands(h)
<1>1. /\ todo[h] # <<>> /\ Head(todo[h]).do = "reconcile"
      /\ Expand(h, Reconciliation(Id(h, Head(todo[h]).id), Head(todo[h]).row))
      /\ UNCHANGED <<tables, made, snap, doc, local, seen, given>>
  BY DEF Reconcile, Ready, IsNext
<1> QED BY <1>1, WritingReconciliation DEF Expands, Reads

\* To change the mode of a provider writes.
LEMMA WritingModes ==
  ASSUME NEW p, NEW mode \in Modes
  PROVE  /\ Writing(<<Stmt("update_provider_credential_semantics", p, mode)>>)
         /\ Writing(<<Stmt("reconcile", p, mode)>>)
<1> DEFINE a == Stmt("update_provider_credential_semantics", p, mode)
           b == Stmt("reconcile", p, mode)
<1>1. Good(a) /\ a.do \notin Importing \cup Reads /\ Good(b) /\ b.do \notin Importing \cup Reads
  BY DEF Good, Importing, Reads, Stmt
<1> HIDE DEF a, b
<1>2. Writing(<<a>>) /\ Writing(<<b>>)
  BY <1>1, WritingOne
<1> QED BY <1>2 DEF a, b

\* To insert a provider writes.
LEMMA WritingProvider ==
  ASSUME NEW entry \in ProviderRow
  PROVE  Writing(<<Stmt("insert_provider", None, entry)>>) /\ Writing(<<>>)
<1> DEFINE a == Stmt("insert_provider", None, entry)
<1>1. Good(a) /\ a.do \notin Importing \cup Reads
  BY DEF Good, Importing, Reads, Stmt
<1> HIDE DEF a
<1>2. Writing(<<a>>) /\ Writing(<<>>)
  BY <1>1, WritingOne, WritingNone
<1> QED BY <1>2 DEF a

\* The provider of a plugin is inserted, or changed (setup_plugin_integration_provider).
LEMMA ProvisionExpands ==
  ASSUME WorkInv, NEW h \in Handlers, Provision(h)
  PROVE  Expands(h)
<1> DEFINE mode == Head(todo[h]).row
           own == {p \in Live(providers) : providers[p].bound}
           p == IF own = {} THEN New ELSE Min(own)
           entry == [name |-> CHOOSE n \in Names : TRUE, mode |-> mode, bound |-> TRUE]
           first == IF own = {} THEN <<Stmt("insert_provider", None, entry)>> ELSE <<>>
           a == Stmt("update_provider_credential_semantics", p, mode)
           b == Stmt("reconcile", p, mode)
<1>1. /\ todo[h] # <<>> /\ Head(todo[h]).do = "provision" /\ Expand(h, first \o <<a, b>>)
      /\ UNCHANGED <<tables, made, snap, doc, local, seen, given>>
  BY DEF Provision, Ready, IsNext
<1>2. mode \in Modes
  BY <1>1, HeadGood DEF Good
<1>3. entry \in ProviderRow
  <2>1. (CHOOSE n \in Names : TRUE) \in Names
    BY ConfigAssumption
  <2> QED BY <1>2, <2>1 DEF ProviderRow
<1> HIDE DEF mode, p, entry, own
<1>4. Writing(first)
  BY <1>3, WritingProvider
<1>5. Writing(<<a>>) /\ Writing(<<b>>)
  BY <1>2, WritingModes
<1> HIDE DEF first, a, b
<1>6. Writing(<<a, b>>)
  BY <1>5, WritingTwo
<1>7. Writing(first \o <<a, b>>)
  BY <1>4, <1>6, WritingConcat
<1> QED BY <1>1, <1>7 DEF Expands, Reads

-----------------------------------------------------------------------------
\* The rows of a document.
LEMMA ImportProviderExpands ==
  ASSUME WorkInv, NEW h \in Handlers, ImportProvider(h)
  PROVE  Expands(h)
<1> DEFINE entry == Head(todo[h]).row
           p == known[h].providers[entry.name]
           u == Stmt("update_provider", p, entry.name)
           a == Stmt("update_provider_credential_semantics", p, entry.mode)
           b == Stmt("reconcile", p, entry.mode)
           i == Stmt("insert_provider", None, entry)
           c == Stmt("reconcile", New, entry.mode)
           s == IF p # None THEN <<u, a, b>> ELSE <<i, c>>
<1>1. /\ todo[h] # <<>> /\ Head(todo[h]).do = "import_provider" /\ Expand(h, s)
      /\ UNCHANGED <<tables, made, snap, doc, local, seen, given>>
  BY DEF ImportProvider, Ready, IsNext
<1>2. entry \in ProviderRow
  BY <1>1, HeadGood DEF Good
<1>3. entry.mode \in Modes /\ entry.name \in Names
  BY <1>2 DEF ProviderRow
<1>4. Writing(<<u>>)
  <2>1. Good(u) /\ u.do \notin Importing \cup Reads
    BY <1>3 DEF Good, Importing, Reads, Stmt
  <2> HIDE DEF u
  <2> QED BY <2>1, WritingOne
<1>5. Writing(<<a>>) /\ Writing(<<b>>) /\ Writing(<<c>>) /\ Writing(<<i>>)
  BY <1>2, <1>3, WritingModes, WritingProvider
<1> HIDE DEF u, a, b, c, i
<1>6. Writing(s)
  BY <1>4, <1>5, WritingTwo, WritingThree
<1> QED BY <1>1, <1>6 DEF Expands, Reads

\* To insert an account writes.
LEMMA WritingAccount ==
  ASSUME NEW p, NEW l \in Labels
  PROVE  /\ Writing(<<Stmt("insert_account", None, [provider |-> p, label |-> l, disabled |-> FALSE])>>)
         /\ Writing(<<>>)
<1> DEFINE a == Stmt("insert_account", None, [provider |-> p, label |-> l, disabled |-> FALSE])
<1>1. a.do = "insert_account" /\ a.row = [provider |-> p, label |-> l, disabled |-> FALSE]
  BY DEF Stmt
<1> HIDE DEF a
<1>2. \E q, k : k \in Labels /\ a.row = [provider |-> q, label |-> k, disabled |-> FALSE]
  BY <1>1
<1>3. Good(a) /\ a.do \notin Importing \cup Reads
  BY <1>1, <1>2 DEF Good, Importing, Reads
<1>4. Writing(<<a>>) /\ Writing(<<>>)
  BY <1>3, WritingOne, WritingNone
<1> QED BY <1>4 DEF a

\* An account of a document is inserted, or left out (import_config).
LEMMA ImportAccountExpands ==
  ASSUME WorkInv, NEW h \in Handlers, ImportAccount(h)
  PROVE  Expands(h)
<1> DEFINE entry == Head(todo[h]).row
           p == known[h].providers[entry.provider]
           a == <<Stmt("insert_account", None, [provider |-> p, label |-> entry.label, disabled |-> FALSE])>>
<1>1. /\ todo[h] # <<>> /\ Head(todo[h]).do = "import_account" /\ (Expand(h, <<>>) \/ Expand(h, a))
      /\ UNCHANGED <<tables, made, snap, doc, local, seen, given>>
  BY DEF ImportAccount, Ready, IsNext
<1>2. entry.label \in Labels
  BY <1>1, HeadGood DEF Good
<1>3. Writing(a) /\ Writing(<<>>)
  BY <1>2, WritingAccount
<1> HIDE DEF a
<1> QED BY <1>1, <1>3 DEF Expands, Reads

\* To insert a model, or to update one, writes.
LEMMA WritingModel ==
  ASSUME NEW i, NEW p, NEW u \in Upstreams, NEW e \in BOOLEAN, NEW m, NEW t \in Transports \cup {None}
  PROVE  /\ Writing(<<Stmt("insert_model", i, [provider |-> p, upstream |-> u, enabled |-> e,
                                             override |-> None, gone |-> FALSE])>>)
         /\ Writing(<<Stmt("update_model", i, e)>>)
         /\ Writing(<<Stmt("set_model_transport_override", m, t)>>)
<1> DEFINE r == [provider |-> p, upstream |-> u, enabled |-> e, override |-> None, gone |-> FALSE]
           a == Stmt("insert_model", i, r)
           b == Stmt("update_model", i, e)
           c == Stmt("set_model_transport_override", m, t)
<1>1. a.do = "insert_model" /\ a.row = r
  BY DEF Stmt
<1>2. Good(b) /\ b.do \notin Importing \cup Reads /\ Good(c) /\ c.do \notin Importing \cup Reads
  BY DEF Good, Importing, Reads, Stmt
<1> HIDE DEF a, b, c
<1>3. \E q, v, f : /\ v \in Upstreams /\ f \in BOOLEAN
                   /\ a.row = [provider |-> q, upstream |-> v, enabled |-> f, override |-> None,
                               gone |-> FALSE]
  BY <1>1
<1>4. Good(a) /\ a.do \notin Importing \cup Reads
  BY <1>1, <1>3 DEF Good, Importing, Reads
<1>5. Writing(<<a>>) /\ Writing(<<b>>) /\ Writing(<<c>>)
  BY <1>2, <1>4, WritingOne
<1> QED BY <1>5 DEF a, b, c

\* A model of a document is inserted, or updated (import_config).
LEMMA ImportModelExpands ==
  ASSUME WorkInv, NEW h \in Handlers, ImportModel(h)
  PROVE  Expands(h)
<1> DEFINE entry == Head(todo[h]).row
           p == known[h].providers[entry.key[1]]
           m == known[h].models[entry.key]
           u == Stmt("update_model", m, entry.enabled)
           o == Stmt("set_model_transport_override", m, entry.override)
           i == Stmt("insert_model", entry.key[1],
                     [provider |-> p, upstream |-> entry.key[2], enabled |-> entry.enabled,
                      override |-> None, gone |-> FALSE])
           q == Stmt("set_model_transport_override", New, entry.override)
<1>1. /\ todo[h] # <<>> /\ Head(todo[h]).do = "import_model"
      /\ \E s \in {<<>>, <<u, o>>, <<i, q>>} : Expand(h, s)
      /\ UNCHANGED <<tables, made, snap, doc, local, seen, given>>
  BY DEF ImportModel, Ready, IsNext
<1>2. entry.key \in ModelKeys /\ entry.enabled \in BOOLEAN /\ entry.override \in Transports \cup {None}
  BY <1>1, HeadGood DEF Good
<1>3. entry.key[2] \in Upstreams
  BY <1>2 DEF ModelKeys
<1>4. Writing(<<u>>) /\ Writing(<<o>>) /\ Writing(<<i>>) /\ Writing(<<q>>)
  BY <1>2, <1>3, WritingModel
<1> HIDE DEF u, o, i, q
<1>5. Writing(<<u, o>>) /\ Writing(<<i, q>>) /\ Writing(<<>>)
  BY <1>4, WritingTwo, WritingNone
<1> QED BY <1>1, <1>5 DEF Expands, Reads

\* To insert a route, or to clear one, writes.
LEMMA WritingRoute ==
  ASSUME NEW n \in RouteNames, NEW r
  PROVE  Writing(<<Stmt("insert_route", None, n)>>) /\ Writing(<<Stmt("clear_route_targets", r, None)>>)
<1> DEFINE a == Stmt("insert_route", None, n)
           b == Stmt("clear_route_targets", r, None)
<1>1. Good(a) /\ a.do \notin Importing \cup Reads /\ Good(b) /\ b.do \notin Importing \cup Reads
  BY DEF Good, Importing, Reads, Stmt
<1> HIDE DEF a, b
<1>2. Writing(<<a>>) /\ Writing(<<b>>)
  BY <1>1, WritingOne
<1> QED BY <1>2 DEF a, b

\* A route of a document gets the targets whose models are known (import_config).
LEMMA ImportRouteExpands ==
  ASSUME WorkInv, NEW h \in Handlers, ImportRoute(h)
  PROVE  Expands(h)
<1> DEFINE entry == Head(todo[h]).row
           R == {t \in Range(entry.targets) : t.key # None /\ known[h].models[t.key] # None}
           usable == Kept(entry.targets, R)
           n == Len(usable)
           rows == [i \in 1..n |->
                     [account |-> usable[i].account, model |-> known[h].models[usable[i].key]]]
           same == {r \in Live(routes) : routes[r] = entry.name}
           x == Stmt("clear_route_targets", Min(same), None)
           y == Stmt("insert_route", None, entry.name)
<1>1. /\ todo[h] # <<>> /\ Head(todo[h]).do = "import_route"
      /\ \/ Expand(h, <<x>> \o InsertTargets(Min(same), rows))
         \/ Expand(h, <<y>> \o InsertTargets(New, rows))
      /\ UNCHANGED <<tables, made, snap, doc, local, seen, given>>
  BY DEF ImportRoute, Ready, IsNext
<1>2. PICK T : entry.name \in RouteNames /\ entry.targets \in Seq(T)
  BY <1>1, HeadGood DEF Good
<1>3. n \in Nat
  <2> HIDE DEF R
  <2>1. usable \in Seq(T)
    BY <1>2, KeptIs
  <2> HIDE DEF usable
  <2> QED BY <2>1
<1> HIDE DEF n
<1>4. DOMAIN rows = 1..n /\ Len(rows) = n /\ \A i \in 1..n : \E a, m : rows[i] = [account |-> a, model |-> m]
  <2> HIDE DEF usable
  <2>1. DOMAIN rows = 1..n
    OBVIOUS
  <2>2. Len(rows) = n
    BY <1>3, <2>1
  <2>3. ASSUME NEW i \in 1..n PROVE \E a, m : rows[i] = [account |-> a, model |-> m]
    <3>1. rows[i] = [account |-> usable[i].account, model |-> known[h].models[usable[i].key]]
      OBVIOUS
    <3> HIDE DEF rows
    <3> QED BY <3>1
  <2> HIDE DEF rows
  <2> QED BY <2>1, <2>2, <2>3
<1> HIDE DEF rows
<1>5. Writing(InsertTargets(Min(same), rows)) /\ Writing(InsertTargets(New, rows))
  BY <1>3, <1>4, WritingTargets
<1>6. Writing(<<x>>) /\ Writing(<<y>>)
  BY <1>2, WritingRoute
<1> HIDE DEF x, y, same
<1>7. Writing(<<x>> \o InsertTargets(Min(same), rows)) /\ Writing(<<y>> \o InsertTargets(New, rows))
  BY <1>5, <1>6, WritingConcat
<1> QED BY <1>1, <1>7 DEF Expands, Reads

\* To put an alias writes.
LEMMA WritingAlias ==
  ASSUME NEW n, NEW entry \in AliasRow
  PROVE  Writing(<<Stmt("upsert_alias", n, entry)>>) /\ Writing(<<>>)
<1> DEFINE a == Stmt("upsert_alias", n, entry)
<1>1. Good(a) /\ a.do \notin Importing \cup Reads
  BY DEF Good, Importing, Reads, Stmt
<1> HIDE DEF a
<1>2. Writing(<<a>>) /\ Writing(<<>>)
  BY <1>1, WritingOne, WritingNone
<1> QED BY <1>2 DEF a

\* An alias of a document is put if what it stands for is known (import_config).
LEMMA ImportAliasExpands ==
  ASSUME RowInv, WorkInv, NEW h \in Handlers, ImportAlias(h)
  PROVE  Expands(h)
<1> DEFINE entry == Head(todo[h]).row
           S == {r \in Live(routes) : routes[r] = entry.target}
           id == IF entry.target = None THEN None
                 ELSE IF entry.type = "model" THEN known[h].models[entry.target]
                 ELSE LastOf(S)
           s == IF id = None THEN <<>> ELSE <<Stmt("upsert_alias", entry.alias, [type |-> entry.type, id |-> id])>>
<1>1. /\ todo[h] # <<>> /\ Head(todo[h]).do = "import_alias" /\ Expand(h, s)
      /\ UNCHANGED <<tables, made, snap, doc, local, seen, given>>
  BY DEF ImportAlias, Ready, IsNext
<1>2. entry.type \in {"model", "route"} /\ (entry.type = "model" => entry.target \in ModelKeys \cup {None})
  BY <1>1, HeadGood DEF Good
<1>3. known[h] \in Knowledge
  BY <1>1, ImportKnows DEF Importing
<1>4. LastOf(S) \in 1..MaxRoutes \cup {None}
  <2>1. S \subseteq 1..MaxRoutes /\ MaxRoutes \in Nat
    BY ConfigAssumption DEF Live, RowInv, RowTypes
  <2> HIDE DEF S
  <2> QED BY <2>1, LastOfIs
<1> HIDE DEF S
<1>5. id # None => [type |-> entry.type, id |-> id] \in AliasRow
  <2> HAVE id # None
  <2>1. CASE entry.type = "model"
    <3>1. id = known[h].models[entry.target] /\ entry.target \in ModelKeys
      BY <1>2, <2>1
    <3>2. id \in 1..MaxModels
      BY <1>3, <3>1 DEF Knowledge
    <3> QED BY <2>1, <3>2 DEF AliasRow
  <2>2. CASE entry.type = "route"
    <3>1. id \in 1..MaxRoutes
      BY <1>4, <2>2
    <3> QED BY <2>2, <3>1 DEF AliasRow
  <2> QED BY <1>2, <2>1, <2>2
<1> HIDE DEF id
<1>6. Writing(<<>>)
  BY WritingNone
<1>7. Writing(s)
  BY <1>5, <1>6, WritingAlias
<1> QED BY <1>1, <1>7 DEF Expands, Reads

-----------------------------------------------------------------------------
\* What the handlers of admin.rs set out to do.
Begins(h) ==
  \/ \E w, what : Writing(w) /\ what \in {"edit", "reload"} /\ Start(h, what, w \o Reloading)
  \/ \E mode, what : /\ mode \in Modes /\ what \in {"provision", "auto_provision"}
                     /\ Start(h, what, <<Stmt("provision", None, mode)>> \o Reloading)
  \/ \E s, what : Plain(s) /\ what \in {"discover", "export"} /\ Start(h, what, s)
  \/ Start(h, "import", Import(doc))

\* The handlers of providers begin with statements that write, then reload.
LEMMA ProviderHandlersBegin ==
  ASSUME WorkInv, NEW h \in Handlers, create_provider(h) \/ update_provider(h) \/ delete_provider(h)
  PROVE  Begins(h)
<1>0. /\ \A p : Writing(<<UserKey(p)>>) /\ Writing(<<>>)
  <2> SUFFICES ASSUME NEW p PROVE Writing(<<UserKey(p)>>) /\ Writing(<<>>)
    OBVIOUS
  <2>1. "key" \in Labels
    BY DEF Labels
  <2> QED BY <2>1, WritingAccount DEF UserKey
<1>1. CASE create_provider(h)
  <2> DEFINE entry(n) == [name |-> n, mode |-> "manual", bound |-> FALSE]
             key(k) == IF k THEN <<UserKey(New)>> ELSE <<>>
  <2>1. PICK n \in NewNames, k \in BOOLEAN :
          Start(h, "edit", <<Stmt("insert_provider", None, entry(n))>> \o key(k) \o Reloading)
    BY <1>1 DEF create_provider
  <2>2. entry(n) \in ProviderRow
    BY ConfigAssumption DEF ProviderRow, Modes
  <2>3. Writing(key(k))
    BY <1>0
  <2> HIDE DEF entry, key
  <2>4. Writing(<<Stmt("insert_provider", None, entry(n))>>)
    BY <2>2, WritingProvider
  <2>5. Writing(<<Stmt("insert_provider", None, entry(n))>> \o key(k))
    BY <2>3, <2>4, WritingConcat
  <2> QED BY <2>1, <2>5 DEF Begins
<1>2. CASE update_provider(h)
  <2> DEFINE key(p, k) == IF k THEN <<UserKey(p)>> ELSE <<>>
  <2>1. PICK p \in Live(providers), n \in NewNames, k \in BOOLEAN :
          Start(h, "edit", <<Stmt("update_provider", p, n)>> \o key(p, k) \o Reloading)
    BY <1>2 DEF update_provider
  <2> DEFINE a == Stmt("update_provider", p, n)
  <2>2. Good(a) /\ a.do \notin Importing \cup Reads
    BY ConfigAssumption DEF Good, Importing, Reads, Stmt
  <2>3. Writing(key(p, k))
    BY <1>0
  <2> HIDE DEF key, a
  <2>4. Writing(<<a>>)
    BY <2>2, WritingOne
  <2>5. Writing(<<a>> \o key(p, k))
    BY <2>3, <2>4, WritingConcat
  <2> QED BY <2>1, <2>5 DEF Begins, a
<1>3. CASE delete_provider(h)
  <2>1. PICK p \in Live(providers) : Start(h, "edit", <<Stmt("delete_provider", p, None)>> \o Reloading)
    BY <1>3 DEF delete_provider
  <2> DEFINE a == Stmt("delete_provider", p, None)
  <2>2. Good(a) /\ a.do \notin Importing \cup Reads
    BY DEF Good, Importing, Reads, Stmt
  <2> HIDE DEF a
  <2>3. Writing(<<a>>)
    BY <2>2, WritingOne
  <2> QED BY <2>1, <2>3 DEF Begins, a
<1> QED BY <1>1, <1>2, <1>3

\* So do those of accounts.
LEMMA AccountHandlersBegin ==
  ASSUME WorkInv, NEW h \in Handlers, create_account(h) \/ update_account(h) \/ delete_account(h)
  PROVE  Begins(h)
<1>0. /\ \A p : Writing(<<UserKey(p)>>) /\ Writing(<<>>)
  <2> SUFFICES ASSUME NEW p PROVE Writing(<<UserKey(p)>>) /\ Writing(<<>>)
    OBVIOUS
  <2>1. "key" \in Labels
    BY DEF Labels
  <2> QED BY <2>1, WritingAccount DEF UserKey
<1>1. CASE create_account(h)
  <2>1. PICK p \in Live(providers) : Start(h, "edit", <<UserKey(p)>> \o Reloading)
    BY <1>1 DEF create_account
  <2> QED BY <2>1, <1>0 DEF Begins
<1>2. CASE update_account(h)
  <2> DEFINE key(a, e) == IF e.key THEN <<Stmt("manual_only", a, None)>> ELSE <<>>
  <2>1. PICK i \in Live(accounts), e \in AccountEdits :
          Start(h, "edit", <<Stmt("update_account", i, e)>> \o key(i, e) \o Reloading)
    BY <1>2 DEF update_account
  <2> DEFINE a == Stmt("update_account", i, e)
             b == Stmt("manual_only", i, None)
  <2>2. Good(a) /\ a.do \notin Importing \cup Reads
    BY ConfigAssumption DEF Good, Importing, Reads, Stmt
  <2>3. Good(b) /\ b.do \notin Importing \cup Reads
    BY DEF Good, Importing, Reads, Stmt
  <2>4. key(i, e) \in {<<b>>, <<>>}
    OBVIOUS
  <2> HIDE DEF key, a, b
  <2>5. Writing(<<a>>) /\ Writing(key(i, e))
    BY <2>2, <2>3, <2>4, WritingOne, WritingNone
  <2>6. Writing(<<a>> \o key(i, e))
    BY <2>5, WritingConcat
  <2> QED BY <2>1, <2>6 DEF Begins, a
<1>3. CASE delete_account(h)
  <2>1. PICK p \in Live(accounts) : Start(h, "edit", <<Stmt("delete_account", p, None)>> \o Reloading)
    BY <1>3 DEF delete_account
  <2> DEFINE a == Stmt("delete_account", p, None)
  <2>2. Good(a) /\ a.do \notin Importing \cup Reads
    BY DEF Good, Importing, Reads, Stmt
  <2> HIDE DEF a
  <2>3. Writing(<<a>>)
    BY <2>2, WritingOne
  <2> QED BY <2>1, <2>3 DEF Begins, a
<1> QED BY <1>1, <1>2, <1>3

\* So do those of models; a discovery writes and does not reload.
LEMMA ModelHandlersBegin ==
  ASSUME RowInv, WorkInv, NEW h \in Handlers,
         create_model(h) \/ update_model(h) \/ delete_model(h) \/ discover_models(h)
  PROVE  Begins(h)
<1>1. CASE create_model(h)
  <2> DEFINE entry(p, u) == [provider |-> p, upstream |-> u, enabled |-> TRUE, override |-> None,
                           gone |-> FALSE]
  <2>1. PICK p \in Live(providers), u \in Upstreams, t \in Transports \cup {None} :
          Start(h, "edit", <<Stmt("insert_model", None, entry(p, u)),
                             Stmt("set_model_transport_override", New, t)>> \o Reloading)
    BY <1>1 DEF create_model
  <2> DEFINE a == Stmt("insert_model", None, entry(p, u))
             b == Stmt("set_model_transport_override", New, t)
  <2>2. Writing(<<a>>) /\ Writing(<<b>>)
    BY WritingModel
  <2> HIDE DEF a, b, entry
  <2>3. Writing(<<a, b>>)
    BY <2>2, WritingTwo
  <2> QED BY <2>1, <2>3 DEF Begins, a, b
<1>2. CASE update_model(h)
  <2>1. PICK m \in Live(models), e \in BOOLEAN, t \in Transports \cup {None} :
          Start(h, "edit", <<Stmt("update_model", m, e),
                             Stmt("set_model_transport_override", m, t)>> \o Reloading)
    BY <1>2 DEF update_model
  <2> DEFINE a == Stmt("update_model", m, e)
             b == Stmt("set_model_transport_override", m, t)
  <2>2. Good(a) /\ a.do \notin Importing \cup Reads /\ Good(b) /\ b.do \notin Importing \cup Reads
    BY DEF Good, Importing, Reads, Stmt
  <2> HIDE DEF a, b
  <2>3. Writing(<<a>>) /\ Writing(<<b>>)
    BY <2>2, WritingOne
  <2>4. Writing(<<a, b>>)
    BY <2>3, WritingTwo
  <2> QED BY <2>1, <2>4 DEF Begins, a, b
<1>3. CASE delete_model(h)
  <2>1. PICK p \in Live(models) : Start(h, "edit", <<Stmt("delete_model", p, None)>> \o Reloading)
    BY <1>3 DEF delete_model
  <2> DEFINE a == Stmt("delete_model", p, None)
  <2>2. Good(a) /\ a.do \notin Importing \cup Reads
    BY DEF Good, Importing, Reads, Stmt
  <2> HIDE DEF a
  <2>3. Writing(<<a>>)
    BY <2>2, WritingOne
  <2> QED BY <2>1, <2>3 DEF Begins, a
<1>4. CASE discover_models(h)
  <2> DEFINE own(p) == SetToSeq({m \in Live(models) : models[m].provider = p})
             entry(p, found, i) == [old |-> models[own(p)[i]],
                                  gone |-> models[own(p)[i]].upstream \notin found]
  <2>1. PICK p \in Live(providers), found \in SUBSET Upstreams :
          Start(h, "discover", [i \in DOMAIN own(p) |->
            Stmt("merge_model_discovery", own(p)[i], entry(p, found, i))])
    BY <1>4 DEF discover_models
  <2> DEFINE S == {m \in Live(models) : models[m].provider = p}
             s == [i \in DOMAIN own(p) |-> Stmt("merge_model_discovery", own(p)[i], entry(p, found, i))]
             n == Cardinality(S)
  <2>2. IsFiniteSet(S)
    <3>1. Config \in Configs /\ Config.models = models
      BY RowInvIs DEF RowWhole, Config
    <3>2. S \subseteq Live(models) /\ IsFiniteSet(Live(models))
      BY <3>1, LiveFinite
    <3> QED BY <3>2, FS_Subset
  <2>3. n \in Nat /\ DOMAIN own(p) = 1..n
    <3> HIDE DEF S
    <3>1. Cardinality(S) \in Nat /\ DOMAIN SetToSeq(S) = 1..Cardinality(S)
      BY <2>2, SequenceOf
    <3> QED BY <3>1 DEF S
  <2>4. \A i \in DOMAIN own(p) : s[i] = Stmt("merge_model_discovery", own(p)[i], entry(p, found, i))
    OBVIOUS
  <2>5. DOMAIN s = 1..n /\ s = [i \in 1..n |-> s[i]]
    BY <2>3
  <2>6. \A i, x : entry(p, found, i).gone \in BOOLEAN
    OBVIOUS
  <2>7. Start(h, "discover", s)
    BY <2>1
  <2> HIDE DEF s, n, S, own, entry
  <2>8. ASSUME NEW i \in 1..n PROVE Good(s[i]) /\ s[i].do \notin Importing
    <3>1. s[i].do = "merge_model_discovery" /\ s[i].row = entry(p, found, i)
      <4>1. s[i] = Stmt("merge_model_discovery", own(p)[i], entry(p, found, i))
        BY <2>3, <2>4
      <4> QED BY <4>1 DEF Stmt
    <3>2. s[i].row.gone \in BOOLEAN
      BY <2>6, <3>1
    <3> QED BY <3>1, <3>2 DEF Good, Importing, Reads
  <2>9. Plain(s)
    BY <2>3, <2>5, <2>8, PlainBy
  <2> QED BY <2>7, <2>9 DEF Begins
<1> QED BY <1>1, <1>2, <1>3, <1>4

\* The lists of targets that an administrator gives are written one by one.
LEMMA TargetsWriting ==
  ASSUME NEW r, NEW rows \in TargetLists
  PROVE  Writing(InsertTargets(r, rows))
<1>1. rows \in Seq(TargetRow)
  BY ConfigAssumption
<1>2. Len(rows) \in Nat /\ DOMAIN rows = 1..Len(rows)
  BY <1>1
<1>3. ASSUME NEW i \in 1..Len(rows) PROVE \E a, m : rows[i] = [account |-> a, model |-> m]
  <2>1. PICK t \in TargetRow : t = rows[i]
    BY <1>1
  <2>2. t = [account |-> t.account, model |-> t.model]
    BY DEF TargetRow
  <2> QED BY <2>1, <2>2
<1> QED BY <1>2, <1>3, WritingTargets

\* So do the handlers of routes.
LEMMA RouteHandlersBegin ==
  ASSUME WorkInv, NEW h \in Handlers, create_route(h) \/ update_route(h) \/ delete_route(h)
  PROVE  Begins(h)
<1>1. CASE create_route(h)
  <2>1. PICK n \in RouteNames, rows \in TargetLists :
          Start(h, "edit", <<Stmt("insert_route", None, n)>> \o InsertTargets(New, rows) \o Reloading)
    BY <1>1 DEF create_route
  <2>2. Writing(<<Stmt("insert_route", None, n)>>) /\ Writing(InsertTargets(New, rows))
    BY WritingRoute, TargetsWriting
  <2>3. Writing(<<Stmt("insert_route", None, n)>> \o InsertTargets(New, rows))
    BY <2>2, WritingConcat
  <2> QED BY <2>1, <2>3 DEF Begins
<1>2. CASE update_route(h)
  <2>1. PICK r \in Live(routes), rows \in TargetLists :
          Start(h, "edit", <<Stmt("clear_route_targets", r, None)>> \o InsertTargets(r, rows) \o Reloading)
    BY <1>2 DEF update_route
  <2> DEFINE a == Stmt("clear_route_targets", r, None)
  <2>2. Good(a) /\ a.do \notin Importing \cup Reads
    BY DEF Good, Importing, Reads, Stmt
  <2> HIDE DEF a
  <2>3. Writing(<<a>>) /\ Writing(InsertTargets(r, rows))
    BY <2>2, WritingOne, TargetsWriting
  <2>4. Writing(<<a>> \o InsertTargets(r, rows))
    BY <2>3, WritingConcat
  <2> QED BY <2>1, <2>4 DEF Begins, a
<1>3. CASE delete_route(h)
  <2>1. PICK p \in Live(routes) : Start(h, "edit", <<Stmt("delete_route", p, None)>> \o Reloading)
    BY <1>3 DEF delete_route
  <2> DEFINE a == Stmt("delete_route", p, None)
  <2>2. Good(a) /\ a.do \notin Importing \cup Reads
    BY DEF Good, Importing, Reads, Stmt
  <2> HIDE DEF a
  <2>3. Writing(<<a>>)
    BY <2>2, WritingOne
  <2> QED BY <2>1, <2>3 DEF Begins, a
<1> QED BY <1>1, <1>2, <1>3

\* So do those of aliases.
LEMMA AliasHandlersBegin ==
  ASSUME RowInv, WorkInv, NEW h \in Handlers, create_alias(h) \/ delete_alias(h)
  PROVE  Begins(h)
<1>1. CASE create_alias(h)
  <2>1. PICK n \in Aliases, entry \in AliasRow :
          Start(h, "edit", <<Stmt("upsert_alias", n, entry)>> \o Reloading)
    <3>1. PICK n \in Aliases :
            \/ \E m \in Live(models) :
                 Start(h, "edit", <<Stmt("upsert_alias", n, [type |-> "model", id |-> m])>> \o Reloading)
            \/ \E r \in Live(routes) :
                 Start(h, "edit", <<Stmt("upsert_alias", n, [type |-> "route", id |-> r])>> \o Reloading)
      BY <1>1 DEF create_alias
    <3>2. \A m \in Live(models) : [type |-> "model", id |-> m] \in AliasRow
      BY DEF Live, RowInv, RowTypes, AliasRow
    <3>3. \A r \in Live(routes) : [type |-> "route", id |-> r] \in AliasRow
      BY DEF Live, RowInv, RowTypes, AliasRow
    <3> QED BY <3>1, <3>2, <3>3
  <2>2. Writing(<<Stmt("upsert_alias", n, entry)>>)
    BY <2>1, WritingAlias
  <2> QED BY <2>1, <2>2 DEF Begins
<1>2. CASE delete_alias(h)
  <2>1. PICK p \in Live(aliases) : Start(h, "edit", <<Stmt("delete_alias", p, None)>> \o Reloading)
    BY <1>2 DEF delete_alias
  <2> DEFINE a == Stmt("delete_alias", p, None)
  <2>2. Good(a) /\ a.do \notin Importing \cup Reads
    BY DEF Good, Importing, Reads, Stmt
  <2> HIDE DEF a
  <2>3. Writing(<<a>>)
    BY <2>2, WritingOne
  <2> QED BY <2>1, <2>3 DEF Begins, a
<1> QED BY <1>1, <1>2

\* The statements that apply a document (Import).
LEMMA GoodRows ==
  ASSUME NEW do, NEW rows, IsFiniteSet(rows), \A entry \in rows : Good(Stmt(do, None, entry))
  PROVE  GoodList(Entries(do, rows))
<1> DEFINE n == Cardinality(rows)
           q == SetToSeq(rows)
           s == [i \in 1..n |-> Stmt(do, None, q[i])]
<1>1. n \in Nat /\ \A i \in 1..n : q[i] \in rows
  BY SequenceOf
<1>2. Entries(do, rows) = s
  BY DEF Entries
<1> HIDE DEF n, q
<1>3. DOMAIN s = 1..n /\ s = [i \in 1..n |-> s[i]] /\ \A i \in 1..n : Good(s[i])
  BY <1>1
<1> HIDE DEF s
<1>4. GoodList(s)
  BY <1>1, <1>3, ListBy DEF GoodList
<1> QED BY <1>2, <1>4

\* The statements of an import of a document are good (import_config).
LEMMA GoodImport ==
  ASSUME NEW d, DocOf(d)
  PROVE  GoodList(Import(d)) /\ Import(d) # <<>> /\ Head(Import(d)).do = "import_begin"
<1> DEFINE b == <<Run("import_begin")>>
           p == Entries("import_provider", d.providers)
           a == Entries("import_account", d.accounts)
           c == <<Run("import_models")>>
           m == Entries("import_model", d.models)
           r == Entries("import_route", d.routes)
           n == Entries("import_alias", d.aliases)
<1>1. GoodList(b) /\ GoodList(c)
  <2>1. Good(Run("import_begin")) /\ Good(Run("import_models"))
    BY DEF Good, Run, Stmt
  <2> QED BY <2>1, GoodOne
<1>2. GoodList(p)
  <2>1. \A entry \in d.providers : Good(Stmt("import_provider", None, entry))
    BY DEF DocOf, Good, Stmt
  <2> QED BY <2>1, GoodRows DEF DocOf
<1>3. GoodList(a)
  <2>1. \A entry \in d.accounts : Good(Stmt("import_account", None, entry))
    BY DEF DocOf, Good, Stmt
  <2> QED BY <2>1, GoodRows DEF DocOf
<1>4. GoodList(m)
  <2>1. \A entry \in d.models : Good(Stmt("import_model", None, entry))
    BY DEF DocOf, Good, Stmt
  <2> QED BY <2>1, GoodRows DEF DocOf
<1>5. GoodList(r)
  <2>1. \A entry \in d.routes : Good(Stmt("import_route", None, entry))
    BY DEF DocOf, Good, Stmt
  <2> QED BY <2>1, GoodRows DEF DocOf
<1>6. GoodList(n)
  <2>1. \A entry \in d.aliases : Good(Stmt("import_alias", None, entry))
    BY DEF DocOf, Good, Stmt
  <2> QED BY <2>1, GoodRows DEF DocOf
<1>7. GoodList(Reloading)
  BY PlainReload DEF Plain
<1>8. Import(d) = b \o p \o a \o c \o m \o r \o n \o Reloading
  BY DEF Import
<1>9. b[1].do = "import_begin" /\ Len(b) = 1
  BY DEF Run, Stmt
<1> HIDE DEF b, p, a, c, m, r, n
<1> DEFINE x1 == b \o p
           x2 == x1 \o a
           x3 == x2 \o c
           x4 == x3 \o m
           x5 == x4 \o r
           x6 == x5 \o n
           x7 == x6 \o Reloading
           First(x) == GoodList(x) /\ Len(x) >= 1 /\ x[1].do = "import_begin"
<1>10. ASSUME NEW x, NEW y, First(x), GoodList(y) PROVE First(x \o y)
  <2>1. IsList(x) /\ IsList(y) /\ Len(x) \in Nat /\ Len(y) \in Nat
    BY <1>10, ListOf DEF GoodList
  <2>2. Len(x \o y) = Len(x) + Len(y) /\ \A i \in 1..Len(x) : (x \o y)[i] = x[i]
    BY <2>1, ListConcat
  <2>3. (x \o y)[1] = x[1]
    BY <1>10, <2>1, <2>2
  <2> QED BY <1>10, <2>1, <2>2, <2>3, GoodConcat
<1> HIDE DEF First
<1>11. First(b)
  BY <1>1, <1>9 DEF First
<1>12. First(x1)
  BY <1>2, <1>10, <1>11
<1>13. First(x2)
  BY <1>3, <1>10, <1>12
<1>14. First(x3)
  BY <1>1, <1>10, <1>13
<1>15. First(x4)
  BY <1>4, <1>10, <1>14
<1>16. First(x5)
  BY <1>5, <1>10, <1>15
<1>17. First(x6)
  BY <1>6, <1>10, <1>16
<1>18. First(x7)
  BY <1>7, <1>10, <1>17
<1>19. Import(d) = x7
  BY <1>8
<1> HIDE DEF x7
<1>20. x7 # <<>> /\ Head(x7) = x7[1]
  <2>1. IsList(x7) /\ Len(x7) \in Nat /\ Len(x7) >= 1
    BY <1>18, ListOf DEF First, GoodList
  <2>2. x7 # <<>>
    BY <2>1
  <2> QED BY <2>1, <2>2, ListTail
<1> QED BY <1>18, <1>19, <1>20 DEF First

\* A list of six, in two halves.
LEMMA ListOfSix ==
  ASSUME NEW a, NEW b, NEW c, NEW d, NEW e, NEW f
  PROVE  <<a, b, c>> \o <<d, e, f>> = <<a, b, c, d, e, f>>
<1> DEFINE S == {a, b, c, d, e, f}
           x == <<a, b, c>>
           y == <<d, e, f>>
           z == <<a, b, c, d, e, f>>
<1>1. /\ x \in Seq(S) /\ Len(x) = 3 /\ x[1] = a /\ x[2] = b /\ x[3] = c
      /\ y \in Seq(S) /\ Len(y) = 3 /\ y[1] = d /\ y[2] = e /\ y[3] = f
      /\ z \in Seq(S) /\ Len(z) = 6 /\ z[1] = a /\ z[2] = b /\ z[3] = c
      /\ z[4] = d /\ z[5] = e /\ z[6] = f
  OBVIOUS
<1> HIDE DEF S, x, y, z
<1>2. IsList(x) /\ IsList(y) /\ IsList(z)
  BY <1>1, ListIs
<1>3. /\ IsList(x \o y) /\ Len(x \o y) = 6
      /\ \A i \in 1..3 : (x \o y)[i] = x[i]
      /\ \A i \in 1..3 : (x \o y)[3 + i] = y[i]
  <2> DEFINE u == x \o y
  <2>1. /\ IsList(u) /\ Len(u) = Len(x) + Len(y)
        /\ \A i \in 1..Len(x) : u[i] = x[i]
        /\ \A i \in 1..Len(y) : u[Len(x) + i] = y[i]
    BY <1>2, ListConcat
  <2> HIDE DEF u
  <2>2. IsList(u) /\ Len(u) = 6 /\ (\A i \in 1..3 : u[i] = x[i]) /\ (\A i \in 1..3 : u[3 + i] = y[i])
    BY <1>1, <2>1
  <2> QED BY <2>2 DEF u
<1>4. /\ (x \o y)[1] = x[1] /\ (x \o y)[2] = x[2] /\ (x \o y)[3] = x[3]
      /\ (x \o y)[4] = y[1] /\ (x \o y)[5] = y[2] /\ (x \o y)[6] = y[3]
  BY <1>3
<1>5. \A i \in 1..6 : i \in {1, 2, 3, 4, 5, 6}
  OBVIOUS
<1>6. \A i \in 1..6 : (x \o y)[i] = z[i]
  BY <1>1, <1>4, <1>5
<1>7. x \o y = z
  <2> DEFINE u == x \o y
  <2>1. u \in Seq({u[k] : k \in DOMAIN u}) /\ Len(u) = 6 /\ \A i \in 1..6 : u[i] = z[i]
    BY <1>3, <1>6 DEF IsList
  <2> HIDE DEF u
  <2>2. u = [i \in 1..6 |-> u[i]]
    BY <2>1
  <2>3. z = [i \in 1..6 |-> z[i]]
    BY <1>1
  <2>4. [i \in 1..6 |-> u[i]] = [i \in 1..6 |-> z[i]]
    BY <2>1
  <2> QED BY <2>2, <2>3, <2>4 DEF u
<1> QED BY <1>7 DEF x, y, z

\* An export reads, an import works through the document, a plugin's provider is set up,
\* and a reload does nothing else.
LEMMA OtherHandlersBegin ==
  ASSUME NEW h \in Handlers,
         \/ export_config(h) \/ import_config(h) \/ setup_plugin_integration_provider(h)
         \/ auto_provision_plugin_providers(h) \/ ReloadTick(h)
  PROVE  Begins(h)
<1>1. CASE export_config(h)
  <2> DEFINE s == <<Run("read_providers"), Run("read_accounts"), Run("read_models")>>
                  \o <<Run("read_routes"), Run("read_aliases"), Run("export_done")>>
  <2>0. s = <<Run("read_providers"), Run("read_accounts"), Run("read_models"),
              Run("read_routes"), Run("read_aliases"), Run("export_done")>>
    BY ListOfSix
  <2>1. Start(h, "export", s)
    BY <1>1, <2>0 DEF export_config
  <2>2. Plain(s)
    <3>1. /\ Plain(<<Run("read_providers"), Run("read_accounts"), Run("read_models")>>)
          /\ Plain(<<Run("read_routes"), Run("read_aliases"), Run("export_done")>>)
      BY PlainRun, PlainThree
    <3> QED BY <3>1, PlainConcat
  <2> HIDE DEF s
  <2> QED BY <2>1, <2>2 DEF Begins
<1>2. CASE import_config(h)
  BY <1>2 DEF import_config, Begins
<1>3. CASE setup_plugin_integration_provider(h) \/ auto_provision_plugin_providers(h)
  BY <1>3 DEF setup_plugin_integration_provider, auto_provision_plugin_providers, Begins
<1>4. CASE ReloadTick(h)
  <2>1. <<>> \o Reloading = Reloading
    <3>1. IsList(Reloading)
      BY PlainReload DEF Plain, GoodList
    <3> DEFINE R == Reloading
    <3> HIDE DEF R
    <3>2. R \in Seq({R[k] : k \in DOMAIN R})
      BY <3>1 DEF IsList, R
    <3>3. <<>> \o R = R
      BY <3>2
    <3> QED BY <3>3 DEF R
  <2>2. Start(h, "reload", <<>> \o Reloading)
    BY <1>4, <2>1 DEF ReloadTick
  <2> QED BY <2>2, WritingNone DEF Begins
<1> QED BY <1>1, <1>2, <1>3, <1>4

\* Every handler begins in one of these ways.
LEMMA HandlerBegins ==
  ASSUME RowInv, WorkInv, NEW h \in Handlers, Handler(h)
  PROVE  Begins(h)
BY ProviderHandlersBegin, AccountHandlersBegin, ModelHandlersBegin, RouteHandlersBegin,
   AliasHandlersBegin, OtherHandlersBegin DEF Handler

\* Whatever a handler begins with is good.
LEMMA BeginsWork ==
  ASSUME WorkInv, NEW h \in Handlers, Begins(h)
  PROVE  WorkInv'
<1>1. ASSUME NEW w, NEW what, Writing(w), Start(h, what, w \o Reloading) PROVE WorkInv'
  <2>1. Plain(w \o Reloading)
    BY <1>1, PlainReload, PlainConcat DEF Writing
  <2> QED BY <1>1, <2>1, StartWork
<1>2. ASSUME NEW mode \in Modes, NEW what, Start(h, what, <<Stmt("provision", None, mode)>> \o Reloading)
      PROVE  WorkInv'
  <2> DEFINE a == Stmt("provision", None, mode)
  <2>1. Good(a) /\ a.do \notin Importing \cup Reads
    BY DEF Good, Importing, Reads, Stmt
  <2> HIDE DEF a
  <2>2. Writing(<<a>>)
    BY <2>1, WritingOne
  <2> QED BY <1>1, <1>2, <2>2 DEF a
<1>3. ASSUME NEW s, NEW what, Plain(s), Start(h, what, s) PROVE WorkInv'
  BY <1>3, StartWork
<1>4. CASE Start(h, "import", Import(doc))
  BY <1>4, GoodImport, StartWork DEF WorkInv
<1> QED BY <1>1, <1>2, <1>3, <1>4 DEF Begins

\* Every statement that depends on what was read puts others in front that write.
LEMMA ExpandingIs ==
  ASSUME RowInv, WorkInv, NEW h \in Handlers,
         \/ UpsertAlias(h) \/ Reconcile(h) \/ Provision(h) \/ ImportProvider(h) \/ ImportAccount(h)
         \/ ImportModel(h) \/ ImportRoute(h) \/ ImportAlias(h)
  PROVE  Expands(h)
BY UpsertAliasExpands, ReconcileExpands, ProvisionExpands, ImportProviderExpands,
   ImportAccountExpands, ImportModelExpands, ImportRouteExpands, ImportAliasExpands

\* These are good, too.
LEMMA ExpandsWork ==
  ASSUME WorkInv, NEW h \in Handlers, Expands(h)
  PROVE  WorkInv'
<1>1. PICK s : Writing(s) /\ Expand(h, s)
  BY DEF Expands
<1>2. /\ todo[h] # <<>> /\ Head(todo[h]).do # "import_begin" /\ UNCHANGED <<known, buf, doc, starts>>
  BY DEF Expands, local, seen
<1>3. Plain(s)
  BY <1>1 DEF Writing
<1> QED BY <1>1, <1>2, <1>3, ExpandWork

\* A statement that fails ends its handler, or leaves it a reload.
LEMMA FailsWork ==
  ASSUME WorkInv, NEW h \in Handlers, StatementFails(h)
  PROVE  WorkInv'
<1>1. CASE End(h)
  BY <1>1, EndWork
<1>2. CASE todo' = [todo EXCEPT ![h] = Reloading] /\ UNCHANGED <<doc, local, seen>>
  <2>1. WorkOf(todo[h], known[h], buf[h])
    BY DEF WorkInv
  <2>2. WorkOf(Reloading, known[h], buf[h])
    BY <2>1, PlainReload DEF WorkOf, Plain
  <2>3. /\ todo' = [todo EXCEPT ![h] = Reloading] /\ known' = [known EXCEPT ![h] = known[h]]
        /\ buf' = [buf EXCEPT ![h] = buf[h]] /\ DocOf(doc') /\ starts' \in 0..MaxHandlers
    BY <1>2 DEF WorkInv, IsPerHandler, local, seen
  <2> QED BY ONLY <2>2, <2>3, WorkStep, WorkInv, h \in Handlers
<1> QED BY <1>1, <1>2 DEF StatementFails

-----------------------------------------------------------------------------
\* Every step keeps the rows and the work.
LEMMA WorkNext ==
  ASSUME RowInv, WorkInv, ConfigNext
  PROVE  WorkInv'
<1>1. PICK h \in Handlers :
        Handler(h) \/ Statement(h) \/ StatementFails(h) \/ HandlerDropped(h) \/ Return(h)
  BY DEF ConfigNext
<1>2. CASE Handler(h)
  BY <1>2, HandlerBegins, BeginsWork
<1>3. CASE Statement(h)
  <2>1. CASE \/ UpdateProvider(h) \/ UpdateSemantics(h) \/ DeleteProvider(h)
             \/ InsertAccountRow(h) \/ UpdateAccountRow(h) \/ RotateKey(h) \/ DeleteAccount(h)
             \/ UpdateModel(h) \/ SetOverride(h) \/ MergeDiscovery(h) \/ DeleteModel(h)
             \/ InsertRoute(h) \/ InsertTarget(h) \/ ClearTargets(h) \/ DeleteRoute(h)
             \/ WriteAlias(h) \/ DeleteAlias(h) \/ ResetNoAuth(h) \/ Unpin(h) \/ DeleteAccounts(h)
    BY <2>1, EditWork
  <2>2. CASE \/ InsertProvider(h) \/ InsertModel(h) \/ ImportBegin(h) \/ ImportModels(h)
    BY <2>2, InsertProviderWork, InsertModelWork, ImportBeginWork, ImportModelsWork
  <2>3. CASE \/ ReadProviders(h) \/ ReadAccounts(h) \/ ReadModels(h) \/ ReadAliases(h) \/ ReadTargets(h)
             \/ ReadRoutes(h) \/ Store(h) \/ ExportDone(h)
    BY <2>3, ReadingWork, ReadRoutesWork, StoreWork, ExportDoneWork
  <2>4. CASE \/ UpsertAlias(h) \/ Reconcile(h) \/ Provision(h) \/ ImportProvider(h) \/ ImportAccount(h)
             \/ ImportModel(h) \/ ImportRoute(h) \/ ImportAlias(h)
    BY <2>4, ExpandingIs, ExpandsWork
  <2> QED BY <1>3, <2>1, <2>2, <2>3, <2>4 DEF Statement
<1>4. CASE StatementFails(h)
  BY <1>4, FailsWork
<1>5. CASE HandlerDropped(h) \/ Return(h)
  BY <1>5, EndWork DEF HandlerDropped, Return
<1> QED BY <1>1, <1>2, <1>3, <1>4, <1>5

\* No step makes a row name one that is gone, or loses an override.
LEMMA RowNext ==
  ASSUME RowInv, WorkInv, ConfigNext
  PROVE  RowInv'
<1>1. PICK h \in Handlers :
        Handler(h) \/ Statement(h) \/ StatementFails(h) \/ HandlerDropped(h) \/ Return(h)
  BY DEF ConfigNext
<1>2. todo[h] # <<>> => Good(Head(todo[h]))
  BY HeadGood
<1>4. CASE Handler(h)
  BY <1>4, HandlerBegins, RowsSame DEF Begins, Start
<1>5. CASE Statement(h)
  <2>1. CASE InsertProvider(h) \/ UpdateProvider(h) \/ UpdateSemantics(h) \/ DeleteProvider(h)
    <3>1. todo[h] # <<>>
      BY <2>1 DEF InsertProvider, UpdateProvider, UpdateSemantics, DeleteProvider, Ready, IsNext
    <3> QED BY <1>2, <2>1, <3>1, InsertProviderRows, UpdateProviderRows, DeleteProviderRows
  <2>2. CASE InsertAccountRow(h) \/ UpdateAccountRow(h) \/ ResetNoAuth(h) \/ DeleteAccount(h)
             \/ DeleteAccounts(h) \/ DeleteModel(h)
    <3>1. todo[h] # <<>>
      BY <2>2 DEF InsertAccountRow, UpdateAccountRow, ResetNoAuth, DeleteAccount, DeleteAccounts,
         DeleteModel, Ready, IsNext
    <3> QED BY <1>2, <2>2, <3>1, InsertAccountRows, UpdateAccountRows, ResetNoAuthRows, DeleteAccountRows
  <2>3. CASE InsertModel(h) \/ UpdateModel(h) \/ SetOverride(h) \/ MergeDiscovery(h)
    <3>1. todo[h] # <<>>
      BY <2>3 DEF InsertModel, UpdateModel, SetOverride, MergeDiscovery, Ready, IsNext
    <3> QED BY <1>2, <2>3, <3>1, InsertModelRows, UpdateModelRows
  <2>4. CASE InsertRoute(h) \/ InsertTarget(h) \/ ClearTargets(h) \/ DeleteRoute(h) \/ Unpin(h)
    <3>1. todo[h] # <<>>
      BY <2>4 DEF InsertRoute, InsertTarget, ClearTargets, DeleteRoute, Unpin, Ready, IsNext
    <3> QED BY <1>2, <2>4, <3>1, InsertRouteRows, InsertTargetRows, ClearTargetsRows, DeleteRouteRows,
               UnpinRows
  <2>5. CASE WriteAlias(h) \/ DeleteAlias(h)
    <3>1. todo[h] # <<>>
      BY <2>5 DEF WriteAlias, DeleteAlias, Ready, IsNext
    <3> QED BY <1>2, <2>5, <3>1, AliasRows
  <2>6. CASE \/ ReadProviders(h) \/ ReadAccounts(h) \/ ReadModels(h) \/ ReadAliases(h) \/ ReadTargets(h)
             \/ ReadRoutes(h) \/ Store(h) \/ ExportDone(h)
    BY <2>6, RowsSame DEF ReadProviders, ReadAccounts, ReadModels, ReadAliases, ReadTargets, ReadInto,
       ReadRoutes, Store, ExportDone
  <2>7. CASE \/ RotateKey(h) \/ UpsertAlias(h) \/ Reconcile(h) \/ Provision(h) \/ ImportBegin(h)
             \/ ImportModels(h)
    BY <2>7, RowsSame DEF RotateKey, UpsertAlias, Reconcile, Provision, ImportBegin, ImportModels
  <2>8. CASE \/ ImportProvider(h) \/ ImportAccount(h) \/ ImportModel(h) \/ ImportRoute(h) \/ ImportAlias(h)
    BY <2>8, RowsSame DEF ImportProvider, ImportAccount, ImportModel, ImportRoute, ImportAlias
  <2> QED BY <1>5, <2>1, <2>2, <2>3, <2>4, <2>5, <2>6, <2>7, <2>8 DEF Statement
<1>6. CASE StatementFails(h) \/ HandlerDropped(h) \/ Return(h)
  BY <1>6, RowsSame DEF StatementFails, HandlerDropped, Return, End
<1> QED BY <1>1, <1>4, <1>5, <1>6

-----------------------------------------------------------------------------
\* The ids handed out are those of the configuration and of the document.
LEMMA HandedOut ==
  ASSUME NEW n \in Nat, NEW A, NEW B, A \subseteq 1..n, B \subseteq 1..n
  PROVE  Max(A \cup B \cup {0}) \in 0..n /\ \A x \in A : x <= Max(A \cup B \cup {0})
<1> DEFINE C == A \cup B \cup {0}
<1>1. C \subseteq 0..n /\ C # {} /\ A \subseteq C
  OBVIOUS
<1> HIDE DEF C
<1>2. Max(C) \in C /\ \A x \in C : x <= Max(C)
  BY <1>1, MaxIs
<1>3. Max(C) \in 0..n /\ \A x \in A : x <= Max(C)
  BY <1>1, <1>2
<1> QED BY <1>3 DEF C

\* A seed and its document are as the invariants say.
LEMMA ConfigStarts == ConfigInit => RowInv /\ WorkInv
<1> SUFFICES ASSUME ConfigInit PROVE RowInv /\ WorkInv
  OBVIOUS
<1>1. PICK pair \in Seeds :
        /\ providers = pair[1].providers /\ accounts = pair[1].accounts /\ models = pair[1].models
        /\ routes = pair[1].routes /\ targets = pair[1].targets /\ aliases = pair[1].aliases
        /\ made = [providers |-> Max(Live(pair[1].providers) \cup Live(pair[2].providers) \cup {0}),
                   accounts |-> Max(Live(pair[1].accounts) \cup Live(pair[2].accounts) \cup {0}),
                   models |-> Max(Live(pair[1].models) \cup Live(pair[2].models) \cup {0}),
                   routes |-> Max(Live(pair[1].routes) \cup Live(pair[2].routes) \cup {0})]
        /\ doc = Export(pair[2])
        /\ given = [m \in 1..MaxModels |-> IF pair[1].models[m] = None THEN None
                                           ELSE pair[1].models[m].override]
        /\ todo = [h \in Handlers |-> <<>>] /\ known = [h \in Handlers |-> None]
        /\ buf = [h \in Handlers |-> None] /\ starts = 0
  BY DEF ConfigInit
<1> DEFINE s == pair[1]
           e == pair[2]
<1>2. s \in Configs /\ e \in Configs /\ Whole(s)
  BY ConfigAssumption
<1> HIDE DEF s, e
<1>3. /\ providers = s.providers /\ accounts = s.accounts /\ models = s.models
      /\ routes = s.routes /\ targets = s.targets /\ aliases = s.aliases
      /\ given = [m \in 1..MaxModels |-> IF s.models[m] = None THEN None ELSE s.models[m].override]
  BY <1>1 DEF s
<1>4. /\ providers \in [1..MaxProviders -> ProviderRow \cup {None}]
      /\ accounts \in [1..MaxAccounts -> AccountRow \cup {None}]
      /\ models \in [1..MaxModels -> ModelRow \cup {None}]
      /\ routes \in [1..MaxRoutes -> RouteNames \cup {None}]
      /\ targets \in [1..MaxRoutes -> Seq(TargetRow)]
      /\ aliases \in [Aliases -> AliasRow \cup {None}]
  BY <1>2, <1>3 DEF Configs
<1>5. given \in [1..MaxModels -> Transports \cup {None}]
  BY <1>3, <1>4 DEF ModelRow
<1>7. /\ made \in [providers : 0..MaxProviders, accounts : 0..MaxAccounts,
                   models : 0..MaxModels, routes : 0..MaxRoutes]
      /\ InTurn
  <2>1. /\ Live(s.providers) \subseteq 1..MaxProviders /\ Live(e.providers) \subseteq 1..MaxProviders
        /\ Live(s.accounts) \subseteq 1..MaxAccounts /\ Live(e.accounts) \subseteq 1..MaxAccounts
        /\ Live(s.models) \subseteq 1..MaxModels /\ Live(e.models) \subseteq 1..MaxModels
        /\ Live(s.routes) \subseteq 1..MaxRoutes /\ Live(e.routes) \subseteq 1..MaxRoutes
    BY <1>2 DEF Configs, Live
  <2>2. /\ made.providers = Max(Live(s.providers) \cup Live(e.providers) \cup {0})
        /\ made.accounts = Max(Live(s.accounts) \cup Live(e.accounts) \cup {0})
        /\ made.models = Max(Live(s.models) \cup Live(e.models) \cup {0})
        /\ made.routes = Max(Live(s.routes) \cup Live(e.routes) \cup {0})
        /\ made = [providers |-> made.providers, accounts |-> made.accounts,
                   models |-> made.models, routes |-> made.routes]
    BY <1>1 DEF s, e
  <2>3. MaxProviders \in Nat /\ MaxAccounts \in Nat /\ MaxModels \in Nat /\ MaxRoutes \in Nat
    BY ConfigAssumption
  <2>4. made.providers \in 0..MaxProviders /\ \A x \in Live(s.providers) : x <= made.providers
    <3> DEFINE A == Live(s.providers)
               B == Live(e.providers)
    <3>1. A \subseteq 1..MaxProviders /\ B \subseteq 1..MaxProviders /\ MaxProviders \in Nat
      BY <2>1, <2>3
    <3>2. made.providers = Max(A \cup B \cup {0})
      BY <2>2
    <3> HIDE DEF A, B
    <3>3. Max(A \cup B \cup {0}) \in 0..MaxProviders /\ \A x \in A : x <= Max(A \cup B \cup {0})
      BY <3>1, HandedOut
    <3> QED BY <3>2, <3>3 DEF A
  <2>5. made.accounts \in 0..MaxAccounts /\ \A x \in Live(s.accounts) : x <= made.accounts
    <3> DEFINE A == Live(s.accounts)
               B == Live(e.accounts)
    <3>1. A \subseteq 1..MaxAccounts /\ B \subseteq 1..MaxAccounts /\ MaxAccounts \in Nat
      BY <2>1, <2>3
    <3>2. made.accounts = Max(A \cup B \cup {0})
      BY <2>2
    <3> HIDE DEF A, B
    <3>3. Max(A \cup B \cup {0}) \in 0..MaxAccounts /\ \A x \in A : x <= Max(A \cup B \cup {0})
      BY <3>1, HandedOut
    <3> QED BY <3>2, <3>3 DEF A
  <2>6. made.models \in 0..MaxModels /\ \A x \in Live(s.models) : x <= made.models
    <3> DEFINE A == Live(s.models)
               B == Live(e.models)
    <3>1. A \subseteq 1..MaxModels /\ B \subseteq 1..MaxModels /\ MaxModels \in Nat
      BY <2>1, <2>3
    <3>2. made.models = Max(A \cup B \cup {0})
      BY <2>2
    <3> HIDE DEF A, B
    <3>3. Max(A \cup B \cup {0}) \in 0..MaxModels /\ \A x \in A : x <= Max(A \cup B \cup {0})
      BY <3>1, HandedOut
    <3> QED BY <3>2, <3>3 DEF A
  <2>7. made.routes \in 0..MaxRoutes /\ \A x \in Live(s.routes) : x <= made.routes
    <3> DEFINE A == Live(s.routes)
               B == Live(e.routes)
    <3>1. A \subseteq 1..MaxRoutes /\ B \subseteq 1..MaxRoutes /\ MaxRoutes \in Nat
      BY <2>1, <2>3
    <3>2. made.routes = Max(A \cup B \cup {0})
      BY <2>2
    <3> HIDE DEF A, B
    <3>3. Max(A \cup B \cup {0}) \in 0..MaxRoutes /\ \A x \in A : x <= Max(A \cup B \cup {0})
      BY <3>1, HandedOut
    <3> QED BY <3>2, <3>3 DEF A
  <2>8. made \in [providers : 0..MaxProviders, accounts : 0..MaxAccounts,
                  models : 0..MaxModels, routes : 0..MaxRoutes]
    BY <2>2, <2>4, <2>5, <2>6, <2>7
  <2>9. InTurn
    BY <1>3, <1>4, <2>4, <2>5, <2>6, <2>7 DEF InTurn, Live
  <2> QED BY <2>8, <2>9
<1>8. RowTypes
  BY <1>4, <1>5, <1>7 DEF RowTypes
<1>9. Accounted
  BY <1>2, <1>3, <1>4 DEF Accounted, Whole, Live
<1>10. Modelled
  BY <1>2, <1>3, <1>4 DEF Modelled, Whole, Live
<1>11. Targeted
  <2> SUFFICES ASSUME NEW r \in 1..MaxRoutes, NEW i \in 1..Len(targets[r])
               PROVE  /\ routes[r] # None /\ models[targets[r][i].model] # None
                      /\ targets[r][i].account # None => accounts[targets[r][i].account] # None
    BY DEF Targeted
  <2>1. DOMAIN s.targets = 1..MaxRoutes /\ targets[r] \in Seq(TargetRow)
    BY <1>3, <1>4
  <2>2. targets[r][i] \in Range(s.targets[r])
    BY <1>3, <2>1 DEF Range
  <2> QED BY <1>2, <1>3, <2>1, <2>2 DEF Whole
<1>12. DocOf(doc)
  BY <1>1, <1>2, ExportIs DEF e
<1>13. GoodList(<<>>) /\ DOMAIN <<>> = {}
  <2>1. Good(Run("store"))
    BY DEF Good, Run, Stmt
  <2> QED BY <2>1, GoodOne
<1>14. WorkOf(<<>>, None, None)
  BY <1>13 DEF WorkOf
<1>15. WorkInv
  BY <1>1, <1>12, <1>14, ConfigAssumption DEF WorkInv, IsPerHandler
<1> QED BY <1>7, <1>8, <1>9, <1>10, <1>11, <1>15 DEF RowInv

\* The tables and the work at them are sound in every state.
LEMMA ConfigSound == ConfigSpec => [](RowInv /\ WorkInv)
<1>1. ConfigInit => RowInv /\ WorkInv
  BY ConfigStarts
<1>2. RowInv /\ WorkInv /\ [ConfigNext]_configVars => (RowInv /\ WorkInv)'
  <2> SUFFICES ASSUME RowInv, WorkInv, [ConfigNext]_configVars PROVE (RowInv /\ WorkInv)'
    OBVIOUS
  <2>1. CASE ConfigNext
    BY <2>1, RowNext, WorkNext
  <2>2. CASE UNCHANGED configVars
    <3>1. RowInv'
      BY <2>2, RowsSame DEF configVars
    <3>2. WorkInv'
      BY <2>2 DEF configVars, local, seen, WorkInv, IsPerHandler, Handlers
    <3> QED BY <3>1, <3>2
  <2> QED BY <2>1, <2>2
<1> QED BY <1>1, <1>2, PTL DEF ConfigSpec

-----------------------------------------------------------------------------
\* A snapshot serves whom the mode of the provider allows (registry.rs reload).
LEMMA SnapshotIs ==
  ASSUME NEW b \in Configs
  PROVE  \A a \in Live(Snapshot(b).accounts) : Allowed(Snapshot(b), a)
<1> DEFINE A == [a \in DOMAIN b.accounts |->
                   IF b.accounts[a] # None /\ Allowed(b, a) THEN b.accounts[a] ELSE None]
           s == Snapshot(b)
<1>1. s = [b EXCEPT !.accounts = A]
  BY DEF Snapshot
<1>2. s.accounts = A /\ s.providers = b.providers
  <2> HIDE DEF A, s
  <2> QED BY <1>1 DEF Configs
<1> HIDE DEF s
<1>3. ASSUME NEW a \in Live(s.accounts) PROVE Allowed(s, a)
  <2>1. a \in DOMAIN b.accounts /\ A[a] # None
    BY <1>2 DEF Live
  <2>2. Allowed(b, a) /\ s.accounts[a] = b.accounts[a]
    BY <1>2, <2>1
  <2> HIDE DEF A
  <2> QED BY <1>2, <2>2 DEF Allowed
<1> QED BY <1>3 DEF s

\* The snapshot of the seed serves what its modes allow.
LEMMA SnapStarts == ConfigInit => SnapInv
<1> SUFFICES ASSUME ConfigInit PROVE SnapInv
  OBVIOUS
<1>1. PICK pair \in Seeds : snap = Snapshot(pair[1])
  BY DEF ConfigInit
<1>2. pair[1] \in Configs
  BY ConfigAssumption
<1> QED BY <1>1, <1>2, SnapshotIs DEF SnapInv

\* A snapshot is only replaced by one that was made to serve what modes allow (Registry::reload).
LEMMA SnapNext ==
  ASSUME SnapInv, RowInv, WorkInv, [ConfigNext]_configVars
  PROVE  SnapInv'
<1>1. CASE UNCHANGED snap
  BY <1>1 DEF SnapInv, Allowed
<1>2. ASSUME NEW h \in Handlers, Store(h) PROVE SnapInv'
  <2>1. snap' = Snapshot(Filled(h)) /\ Filled(h) \in Configs
    BY <1>2, FilledIs DEF Store
  <2>2. PICK s : s = Snapshot(Filled(h)) /\ \A a \in Live(s.accounts) : Allowed(s, a)
    BY <2>1, SnapshotIs
  <2>3. snap' = s
    BY <2>1, <2>2
  <2> QED BY <2>2, <2>3 DEF SnapInv, Allowed
<1>3. ASSUME NEW h \in Handlers, Handler(h) PROVE UNCHANGED snap
  BY <1>3, HandlerBegins DEF Begins, Start
<1>4. ASSUME NEW h \in Handlers, Statement(h), ~Store(h) PROVE UNCHANGED snap
  <2>1. CASE \/ InsertProvider(h) \/ UpdateProvider(h) \/ UpdateSemantics(h) \/ DeleteProvider(h)
             \/ InsertAccountRow(h) \/ UpdateAccountRow(h) \/ RotateKey(h) \/ DeleteAccount(h)
    BY <2>1 DEF InsertProvider, UpdateProvider, UpdateSemantics, DeleteProvider, InsertAccountRow,
       UpdateAccountRow, RotateKey, DeleteAccount
  <2>2. CASE \/ InsertModel(h) \/ UpdateModel(h) \/ SetOverride(h) \/ MergeDiscovery(h) \/ DeleteModel(h)
             \/ InsertRoute(h) \/ InsertTarget(h) \/ ClearTargets(h) \/ DeleteRoute(h)
    BY <2>2 DEF InsertModel, UpdateModel, SetOverride, MergeDiscovery, DeleteModel, InsertRoute,
       InsertTarget, ClearTargets, DeleteRoute
  <2>3. CASE UpsertAlias(h) \/ WriteAlias(h) \/ DeleteAlias(h)
    BY <2>3 DEF UpsertAlias, WriteAlias, DeleteAlias
  <2>4. CASE \/ ReadProviders(h) \/ ReadAccounts(h) \/ ReadModels(h) \/ ReadAliases(h)
             \/ ReadRoutes(h) \/ ReadTargets(h) \/ ExportDone(h)
    BY <2>4 DEF ReadProviders, ReadAccounts, ReadModels, ReadAliases, ReadRoutes, ReadTargets, ReadInto,
       ExportDone
  <2>5. CASE \/ Reconcile(h) \/ ResetNoAuth(h) \/ Unpin(h) \/ DeleteAccounts(h) \/ Provision(h)
    BY <2>5 DEF Reconcile, ResetNoAuth, Unpin, DeleteAccounts, Provision
  <2>6. CASE \/ ImportBegin(h) \/ ImportProvider(h) \/ ImportAccount(h)
             \/ ImportModels(h) \/ ImportModel(h) \/ ImportRoute(h) \/ ImportAlias(h)
    BY <2>6 DEF ImportBegin, ImportProvider, ImportAccount, ImportModels, ImportModel, ImportRoute,
       ImportAlias
  <2> QED BY <1>4, <2>1, <2>2, <2>3, <2>4, <2>5, <2>6 DEF Statement
<1>5. ASSUME NEW h \in Handlers, StatementFails(h) \/ HandlerDropped(h) \/ Return(h) PROVE UNCHANGED snap
  BY <1>5 DEF StatementFails, HandlerDropped, Return, End
<1>6. CASE UNCHANGED configVars
  BY <1>1, <1>6 DEF configVars
<1> QED BY <1>1, <1>2, <1>3, <1>4, <1>5, <1>6 DEF ConfigNext

\* A target of a set that a name resolves to is a model with an account of its provider
\* (registry.rs build_route, resolve).
LEMMA ServedIs ==
  ASSUME NEW s, NEW name, NEW served \in Resolve(s, name), NEW t \in served
  PROVE  \E a, m : /\ t = [account |-> a, model |-> m] /\ a \in Live(s.accounts)
                   /\ s.accounts[a].provider = s.models[m].provider
<1> DEFINE Fits(S) == \A set \in S : \A u \in set :
                        \E a, m : /\ u = [account |-> a, model |-> m] /\ a \in Live(s.accounts)
                                  /\ s.accounts[a].provider = s.models[m].provider
<1>1. \A ids : Fits(Single(s, ids))
  BY DEF Single, Pool
<1>2. \A ids : Fits(Routed(s, ids))
  BY DEF Routed, BuildRoute, Pool
<1>3. Fits({})
  OBVIOUS
<1> HIDE DEF Fits
<1>4. Fits(Resolve(s, name))
  BY <1>1, <1>2, <1>3 DEF Resolve
<1> QED BY <1>4 DEF Fits

\* So a request is never given an account of another provider, or of another mode.
LEMMA SnapIs == SnapInv => CredentialStaysHome
<1> SUFFICES ASSUME SnapInv, NEW name \in Requested, NEW served \in Resolve(snap, name), NEW t \in served
             PROVE  /\ snap.accounts[t.account].provider = snap.models[t.model].provider
                    /\ snap.providers[snap.models[t.model].provider] # None
                    /\ snap.providers[snap.models[t.model].provider].mode = "none"
                         <=> snap.accounts[t.account].label = NoAuth
  BY DEF CredentialStaysHome
<1>1. PICK a, m : /\ t = [account |-> a, model |-> m] /\ a \in Live(snap.accounts)
                  /\ snap.accounts[a].provider = snap.models[m].provider
  BY ServedIs
<1>2. Allowed(snap, a)
  BY <1>1 DEF SnapInv
<1>3. t.account = a /\ t.model = m
  BY <1>1
<1> QED BY <1>1, <1>2, <1>3 DEF Allowed

\* A request is never given a model with the account of another provider, or one that its
\* provider's mode does not go with, however handlers and reloads overlap.
THEOREM CredentialAlwaysStaysHome == ConfigSpec => []CredentialStaysHome
<1>1. ConfigInit => SnapInv
  BY SnapStarts
<1>2. SnapInv /\ RowInv /\ WorkInv /\ [ConfigNext]_configVars => SnapInv'
  BY SnapNext
<1> QED BY <1>1, <1>2, ConfigSound, SnapIs, PTL DEF ConfigSpec

\* Whatever handlers run beside each other, fail halfway or are dropped, the tables are well
\* typed, no row names one that is gone, and each model has the override it was given last.
THEOREM RowsAlwaysWhole == ConfigSpec => [](ConfigTypeOK /\ ReferencesHold /\ OverrideIsKept)
<1>1. RowInv /\ WorkInv => ConfigTypeOK
  <2> SUFFICES ASSUME RowInv, WorkInv PROVE ConfigTypeOK
    OBVIOUS
  <2>1. Config \in Configs
    BY RowInvIs DEF RowWhole
  <2>2. DOMAIN todo = Handlers /\ starts \in 0..MaxHandlers
    BY DEF WorkInv, IsPerHandler
  <2>3. /\ known = [h \in Handlers |-> known[h]] /\ \A h \in Handlers : known[h] \in Knowledge \cup {None}
        /\ buf = [h \in Handlers |-> buf[h]] /\ \A h \in Handlers : buf[h] \in Configs \cup {None}
    BY DEF WorkInv, WorkOf, IsPerHandler
  <2>4. known \in [Handlers -> Knowledge \cup {None}] /\ buf \in [Handlers -> Configs \cup {None}]
    BY <2>3
  <2>5. /\ made \in [providers : 0..MaxProviders, accounts : 0..MaxAccounts,
                    models : 0..MaxModels, routes : 0..MaxRoutes]
        /\ given \in [1..MaxModels -> Transports \cup {None}]
    BY DEF RowInv, RowTypes
  <2> QED BY <2>1, <2>2, <2>4, <2>5 DEF ConfigTypeOK
<1>2. RowInv => ReferencesHold /\ OverrideIsKept
  BY RowInvIs DEF RowWhole, ReferencesHold
<1> QED BY <1>1, <1>2, ConfigSound, PTL
=============================================================================
