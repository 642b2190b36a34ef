-------------------------- MODULE AttemptLoopProofs --------------------------
(***************************************************************************)
(* Proofs about the attempts of a request: about the loop, for any plans,  *)
(* limits, settings and times (AttemptLoop), and about what each attempt   *)
(* sends, for any routes, targets and conversations (RequestCodec).        *)
(***************************************************************************)
EXTENDS AttemptLoop, RequestCodec, FiniteSetTheorems, TLAPS

\* An attempt may be made, or one was made, in these stages.
BeforeSend == {"quota", "credential", "backoff"}

AfterSend == {"sent", "body", "errbody", "validated", "rotate", "settle"}

\* Each dispatch is counted in attempts_done or, once its account has been
\* retried, in auth_retried_accounts; the checks at the top of the loop hold
\* until the dispatch.
Counting ==
  /\ attempts \in Nat /\ maxAttempts \in Nat /\ sends \in Nat /\ config.limit \in Nat
  /\ IsFiniteSet(retried)
  /\ sends = attempts + Cardinality(retried)
  /\ attempts <= maxAttempts
  /\ stage \in {"new", "plan"} => attempts = 0
  /\ stage \in BeforeSend => attempts < maxAttempts
  /\ stage \in AfterSend => attempts > 0
  /\ stage = "rotate" => target.account \notin retried

\* What is held in each stage, and that run() has not returned before the end.
Holding ==
  /\ permit \in BOOLEAN /\ attempt \in BOOLEAN /\ config.adaptive \in BOOLEAN
  /\ permit => stage \in {"sent", "body", "errbody", "validated", "streaming"}
  /\ attempt => stage \in {"sent", "body", "errbody", "validated", "settle", "streaming"}
  /\ stage \in {"sent", "body", "errbody", "validated"} => attempt
  /\ stage = "over" => ~reservation
  /\ stage \in Working => answer = "none"
  /\ refused => stage = "over"

\* Every attempt but the one under way has been reported as a failure.
Reporting ==
  /\ sends \in Nat /\ reported \in Nat
  /\ answer # "gone" => sends = reported + (IF attempt THEN 1 ELSE 0)

-----------------------------------------------------------------------------
LEMMA ClampInRange == \A n \in Nat : Clamp(n, 1, 5) \in 1..5
BY DEF Clamp

\* The count of dispatches is kept by every step (attempts_done,
\* auth_retried_accounts and the checks at the top of the loop).
LEMMA CountingStep == Counting /\ [Next]_vars => Counting'
<1> SUFFICES ASSUME Counting, [Next]_vars PROVE Counting'
  OBVIOUS
<1>1. CASE Admit
  BY <1>1 DEF Admit, Leave, Counting, BeforeSend, AfterSend, fixed, tries, seen, targets
<1>2. CASE NoTarget
  BY <1>2 DEF NoTarget, Leave, Counting, BeforeSend, AfterSend, fixed, tries, seen, targets
<1>3. CASE Plan
  <2>1. Len(pending') \in Nat
    BY <1>3, ConstantsAssumption DEF Plan
  <2>2. maxAttempts' \in Nat
    BY <1>3, <2>1, ClampInRange DEF Plan, Counting
  <2>3. QED
    BY <1>3, <2>2 DEF Plan, Counting, BeforeSend, AfterSend, tries, seen
<1>4. CASE SkipLogicalTarget
  BY <1>4 DEF SkipLogicalTarget, Counting, BeforeSend, AfterSend, fixed, tries, seen, targets
<1>5. CASE Consider
  BY <1>5 DEF Consider, Exhausted, Counting, BeforeSend, AfterSend, fixed, tries, seen, targets
<1>6. CASE GiveUp
  BY <1>6 DEF GiveUp, Leave, Counting, BeforeSend, AfterSend, fixed, tries, seen, targets
<1>7. CASE SoftQuota
  BY <1>7 DEF SoftQuota, Leave, Continue, Counting, BeforeSend, AfterSend, fixed, tries, seen, targets
<1>8. CASE Ineligible
  BY <1>8 DEF Ineligible, Continue, Counting, BeforeSend, AfterSend, fixed, tries, seen, targets
<1>9. CASE Eligible
  BY <1>9 DEF Eligible, Counting, BeforeSend, AfterSend, fixed, tries, seen, targets
<1>10. CASE NoCredential
  BY <1>10 DEF NoCredential, Continue, Counting, BeforeSend, AfterSend, fixed, tries, seen, targets
<1>11. CASE Refuse
  BY <1>11 DEF Refuse, Leave, Counting, BeforeSend, AfterSend, fixed, tries, seen, targets
<1>12. CASE Prepare
  BY <1>12 DEF Prepare, Counting, BeforeSend, AfterSend, fixed, tries, seen, targets
<1>13. CASE Saturated
  BY <1>13 DEF Saturated, Continue, Counting, BeforeSend, AfterSend, fixed, tries, seen, targets
<1>14. CASE TooLate
  BY <1>14 DEF TooLate, Leave, Counting, BeforeSend, AfterSend, fixed, tries, seen, targets
<1>15. CASE Send
  <2>1. Cardinality(retried) \in Nat
    BY FS_CardinalityType DEF Counting
  <2>2. QED
    BY <1>15, <2>1 DEF Send, Counting, BeforeSend, AfterSend, fixed
<1>16. CASE SendFailed
  BY <1>16 DEF SendFailed, FailAttempt, Report, Counting, BeforeSend, AfterSend, fixed, tries, seen, targets
<1>17. CASE Headers
  BY <1>17 DEF Headers, Counting, BeforeSend, AfterSend, fixed, tries, seen, targets
<1>18. CASE Invalid
  BY <1>18 DEF Invalid, FailAttempt, Counting, BeforeSend, AfterSend, fixed, tries, seen, targets
<1>19. CASE Validated
  BY <1>19 DEF Validated, Counting, BeforeSend, AfterSend, fixed, tries, seen, targets
<1>20. CASE Classified
  BY <1>20 DEF Classified, FailAttempt, Report, Counting, BeforeSend, AfterSend, fixed, tries, seen, targets
<1>21. CASE SendTimeout
  BY <1>21 DEF SendTimeout, FailAttempt, Report, Counting, BeforeSend, AfterSend, fixed, tries, seen, targets
<1>22. CASE BodyTimeout
  BY <1>22 DEF BodyTimeout, FailAttempt, Counting, BeforeSend, AfterSend, fixed, tries, seen, targets
<1>23. CASE ErrorBodyTimeout
  BY <1>23 DEF ErrorBodyTimeout, FailAttempt, Report, Counting, BeforeSend, AfterSend, fixed, tries, seen, targets
<1>24. CASE Commit
  BY <1>24 DEF Commit, Counting, BeforeSend, AfterSend, fixed, tries, seen, targets
<1>25. CASE AuthRetry
  <2>1. target.account \notin retried
    BY <1>25 DEF AuthRetry, Counting
  <2>2. IsFiniteSet(retried') /\ Cardinality(retried') = Cardinality(retried) + 1
    BY <1>25, <2>1, FS_AddElement DEF AuthRetry, Counting
  <2>3. Cardinality(retried) \in Nat
    BY FS_CardinalityType DEF Counting
  <2>4. attempts > 0 /\ attempts' = attempts - 1 /\ stage' = "loop"
        /\ UNCHANGED <<config, maxAttempts, sends>>
    BY <1>25 DEF AuthRetry, Continue, Counting, AfterSend, fixed, seen
  <2>5. QED
    BY <2>2, <2>3, <2>4 DEF Counting, BeforeSend, AfterSend
<1>26. CASE NotRotated
  BY <1>26 DEF NotRotated, Counting, BeforeSend, AfterSend, fixed, tries, seen, targets
<1>27. CASE RotationFailed
  BY <1>27 DEF RotationFailed, NextOrOut, Leave, Continue, Counting, BeforeSend, AfterSend, fixed, tries, seen, targets
<1>28. CASE Settle
  BY <1>28 DEF Settle, NextOrOut, Leave, Continue, Counting, BeforeSend, AfterSend, fixed, tries, seen, targets
<1>29. CASE Disconnect
  BY <1>29 DEF Disconnect, Leave, Counting, BeforeSend, AfterSend, fixed, tries, seen, targets
<1>30. CASE Tick
  BY <1>30 DEF Tick, Counting, BeforeSend, AfterSend, fixed, tries, seen, targets
<1>31. CASE UNCHANGED vars
  BY <1>31 DEF Counting, BeforeSend, AfterSend, vars, fixed, tries, seen, targets
<1>q. QED
  BY <1>1, <1>2, <1>3, <1>4, <1>5, <1>6, <1>7, <1>8, <1>9, <1>10, <1>11, <1>12, <1>13, <1>14, <1>15, <1>16, <1>17, <1>18, <1>19, <1>20, <1>21, <1>22, <1>23, <1>24, <1>25, <1>26, <1>27, <1>28, <1>29, <1>30, <1>31 DEF Next, Begin, Choose, Ready, Upstream, Expire, Conclude

\* What a request holds goes with its stage (permit, provider_attempt and the
\* reservation are locals that are dropped or handed over).
LEMMA HoldingStep == Holding /\ [Next]_vars => Holding'
<1> SUFFICES ASSUME Holding, [Next]_vars PROVE Holding'
  OBVIOUS
<1>1. CASE Admit
  <2>1. CASE stage' = "plan"
    BY <1>1, <2>1 DEF Admit, Leave, Holding, Working, fixed, seen
  <2>2. CASE stage' = "over"
    BY <1>1, <2>2 DEF Admit, Leave, Holding, Working, fixed, seen
  <2>3. QED
    BY <1>1, <2>1, <2>2 DEF Admit, Leave
<1>2. CASE NoTarget
  BY <1>2 DEF NoTarget, Leave, Holding, Working, fixed, held, outcome, seen
<1>3. CASE Plan
  BY <1>3 DEF Plan, Clamp, Holding, Working, fixed, held, outcome, seen
<1>4. CASE SkipLogicalTarget
  BY <1>4 DEF SkipLogicalTarget, Holding, Working, fixed, held, outcome, seen
<1>5. CASE Consider
  BY <1>5 DEF Consider, Exhausted, Holding, Working, fixed, held, outcome, seen
<1>6. CASE GiveUp
  BY <1>6 DEF GiveUp, Leave, Holding, Working, fixed, held, outcome, seen
<1>7. CASE SoftQuota
  BY <1>7 DEF SoftQuota, Leave, Continue, Holding, Working, fixed, held, outcome, seen
<1>8. CASE Ineligible
  BY <1>8 DEF Ineligible, Continue, Holding, Working, fixed, held, outcome, seen
<1>9. CASE Eligible
  BY <1>9 DEF Eligible, Holding, Working, fixed, held, outcome, seen
<1>10. CASE NoCredential
  BY <1>10 DEF NoCredential, Continue, Holding, Working, fixed, held, outcome, seen
<1>11. CASE Refuse
  BY <1>11 DEF Refuse, Leave, Holding, Working, fixed, held, outcome, seen
<1>12. CASE Prepare
  BY <1>12 DEF Prepare, Holding, Working, fixed, held, outcome, seen
<1>13. CASE Saturated
  BY <1>13 DEF Saturated, Continue, Holding, Working, fixed, held, outcome, seen
<1>14. CASE TooLate
  BY <1>14 DEF TooLate, Leave, Holding, Working, fixed, held, outcome, seen
<1>15. CASE Send
  BY <1>15 DEF Send, SmallerOf, Holding, Working, fixed, held, outcome, seen
<1>16. CASE SendFailed
  BY <1>16 DEF SendFailed, FailAttempt, Report, Holding, Working, fixed, held, outcome, seen
<1>17. CASE Headers
  BY <1>17 DEF Headers, Holding, Working, fixed, held, outcome, seen
<1>18. CASE Invalid
  BY <1>18 DEF Invalid, FailAttempt, Holding, Working, fixed, held, outcome, seen
<1>19. CASE Validated
  BY <1>19 DEF Validated, Holding, Working, fixed, held, outcome, seen
<1>20. CASE Classified
  BY <1>20 DEF Classified, FailAttempt, Report, Holding, Working, fixed, held, outcome, seen
<1>21. CASE SendTimeout
  BY <1>21 DEF SendTimeout, FailAttempt, Report, Holding, Working, fixed, held, outcome, seen
<1>22. CASE BodyTimeout
  BY <1>22 DEF BodyTimeout, FailAttempt, Holding, Working, fixed, held, outcome, seen
<1>23. CASE ErrorBodyTimeout
  BY <1>23 DEF ErrorBodyTimeout, FailAttempt, Report, Holding, Working, fixed, held, outcome, seen
<1>24. CASE Commit
  BY <1>24 DEF Commit, Holding, Working, fixed, held, outcome, seen
<1>25. CASE AuthRetry
  BY <1>25 DEF AuthRetry, Continue, Holding, Working, fixed, held, outcome, seen
<1>26. CASE NotRotated
  BY <1>26 DEF NotRotated, Holding, Working, fixed, held, outcome, seen
<1>27. CASE RotationFailed
  BY <1>27 DEF RotationFailed, NextOrOut, Leave, Continue, Holding, Working, fixed, held, outcome, seen
<1>28. CASE Settle
  BY <1>28 DEF Settle, NextOrOut, Leave, Continue, Holding, Working, fixed, held, outcome, seen
<1>29. CASE Disconnect
  BY <1>29 DEF Disconnect, Leave, Holding, Working, fixed, held, outcome, seen
<1>30. CASE Tick
  BY <1>30 DEF Tick, Holding, Working, fixed, held, outcome, seen
<1>31. CASE UNCHANGED vars
  BY <1>31 DEF Holding, Working, vars, fixed, held, outcome, seen
<1>q. QED
  BY <1>1, <1>2, <1>3, <1>4, <1>5, <1>6, <1>7, <1>8, <1>9, <1>10, <1>11, <1>12, <1>13, <1>14, <1>15, <1>16, <1>17, <1>18, <1>19, <1>20, <1>21, <1>22, <1>23, <1>24, <1>25, <1>26, <1>27, <1>28, <1>29, <1>30, <1>31 DEF Next, Begin, Choose, Ready, Upstream, Expire, Conclude

\* finish_failure is called once for each dispatch that failed.
LEMMA ReportingStep == Holding /\ Reporting /\ [Next]_vars => Reporting'
<1> SUFFICES ASSUME Holding, Reporting, [Next]_vars PROVE Reporting'
  OBVIOUS
<1>1. CASE Admit
  BY <1>1 DEF Admit, Leave, Holding, Reporting, Working, held, outcome, seen
<1>2. CASE NoTarget
  BY <1>2 DEF NoTarget, Leave, Holding, Reporting, Working, held, outcome, seen
<1>3. CASE Plan
  BY <1>3 DEF Plan, Clamp, Holding, Reporting, Working, held, outcome, seen
<1>4. CASE SkipLogicalTarget
  BY <1>4 DEF SkipLogicalTarget, Holding, Reporting, Working, held, outcome, seen
<1>5. CASE Consider
  BY <1>5 DEF Consider, Exhausted, Holding, Reporting, Working, held, outcome, seen
<1>6. CASE GiveUp
  BY <1>6 DEF GiveUp, Leave, Holding, Reporting, Working, held, outcome, seen
<1>7. CASE SoftQuota
  BY <1>7 DEF SoftQuota, Leave, Continue, Holding, Reporting, Working, held, outcome, seen
<1>8. CASE Ineligible
  BY <1>8 DEF Ineligible, Continue, Holding, Reporting, Working, held, outcome, seen
<1>9. CASE Eligible
  BY <1>9 DEF Eligible, Holding, Reporting, Working, held, outcome, seen
<1>10. CASE NoCredential
  BY <1>10 DEF NoCredential, Continue, Holding, Reporting, Working, held, outcome, seen
<1>11. CASE Refuse
  BY <1>11 DEF Refuse, Leave, Holding, Reporting, Working, held, outcome, seen
<1>12. CASE Prepare
  BY <1>12 DEF Prepare, Holding, Reporting, Working, held, outcome, seen
<1>13. CASE Saturated
  BY <1>13 DEF Saturated, Continue, Holding, Reporting, Working, held, outcome, seen
<1>14. CASE TooLate
  BY <1>14 DEF TooLate, Leave, Holding, Reporting, Working, held, outcome, seen
<1>15. CASE Send
  BY <1>15 DEF Send, SmallerOf, Holding, Reporting, Working, held, outcome, seen
<1>16. CASE SendFailed
  BY <1>16 DEF SendFailed, FailAttempt, Report, Holding, Reporting, Working, held, outcome, seen
<1>17. CASE Headers
  BY <1>17 DEF Headers, Holding, Reporting, Working, held, outcome, seen
<1>18. CASE Invalid
  BY <1>18 DEF Invalid, FailAttempt, Holding, Reporting, Working, held, outcome, seen
<1>19. CASE Validated
  BY <1>19 DEF Validated, Holding, Reporting, Working, held, outcome, seen
<1>20. CASE Classified
  BY <1>20 DEF Classified, FailAttempt, Report, Holding, Reporting, Working, held, outcome, seen
<1>21. CASE SendTimeout
  BY <1>21 DEF SendTimeout, FailAttempt, Report, Holding, Reporting, Working, held, outcome, seen
<1>22. CASE BodyTimeout
  BY <1>22 DEF BodyTimeout, FailAttempt, Holding, Reporting, Working, held, outcome, seen
<1>23. CASE ErrorBodyTimeout
  BY <1>23 DEF ErrorBodyTimeout, FailAttempt, Report, Holding, Reporting, Working, held, outcome, seen
<1>24. CASE Commit
  BY <1>24 DEF Commit, Holding, Reporting, Working, held, outcome, seen
<1>25. CASE AuthRetry
  BY <1>25 DEF AuthRetry, Continue, Holding, Reporting, Working, held, outcome, seen
<1>26. CASE NotRotated
  BY <1>26 DEF NotRotated, Holding, Reporting, Working, held, outcome, seen
<1>27. CASE RotationFailed
  BY <1>27 DEF RotationFailed, NextOrOut, Leave, Continue, Holding, Reporting, Working, held, outcome, seen
<1>28. CASE Settle
  BY <1>28 DEF Settle, NextOrOut, Leave, Continue, Holding, Reporting, Working, held, outcome, seen
<1>29. CASE Disconnect
  BY <1>29 DEF Disconnect, Leave, Holding, Reporting, Working, held, outcome, seen
<1>30. CASE Tick
  BY <1>30 DEF Tick, Holding, Reporting, Working, held, outcome, seen
<1>31. CASE UNCHANGED vars
  BY <1>31 DEF Holding, Reporting, Working, vars, held, outcome, seen
<1>q. QED
  BY <1>1, <1>2, <1>3, <1>4, <1>5, <1>6, <1>7, <1>8, <1>9, <1>10, <1>11, <1>12, <1>13, <1>14, <1>15, <1>16, <1>17, <1>18, <1>19, <1>20, <1>21, <1>22, <1>23, <1>24, <1>25, <1>26, <1>27, <1>28, <1>29, <1>30, <1>31 DEF Next, Begin, Choose, Ready, Upstream, Expire, Conclude

LEMMA CountingInit == Init => Counting
<1>1. Init => config.limit \in Nat
  BY ConstantsAssumption DEF Init, Config
<1>2. Init => IsFiniteSet(retried) /\ Cardinality(retried) = 0
  BY FS_EmptySet DEF Init
<1>3. QED
  BY <1>1, <1>2 DEF Init, Counting, BeforeSend, AfterSend

-----------------------------------------------------------------------------
(* Types *)

Verdicts ==
  /\ stage \in Stage
  /\ lastError \in {"none", "attempt", "skip"}
  /\ failure \in [kind : FailureKind, answered : BOOLEAN]
  /\ reservation \in BOOLEAN /\ permit \in BOOLEAN /\ attempt \in BOOLEAN
  /\ live \in {"none", "in_flight", "finished"}
  /\ answer \in {"none", "rejected", "refused", "unavailable", "attempt", "skip",
                 "response", "gone"}
  /\ failed \in BOOLEAN /\ refused \in BOOLEAN

Queue ==
  /\ config \in Config /\ config.limit \in Nat /\ config.adaptive \in BOOLEAN
  /\ maxAttempts \in 1..5
  /\ pending \in Seq(Target) /\ target \in Target /\ skip \in Logical \cup {None}
  /\ retried \subseteq Account

Clocks ==
  /\ now \in Nat /\ phaseEnd \in Nat /\ reported \in Nat

\* Stages, verdicts and what is held have their types after every step.
LEMMA VerdictsStep == Verdicts /\ Queue /\ [Next]_vars => Verdicts'
<1> SUFFICES ASSUME Verdicts, Queue, [Next]_vars PROVE Verdicts'
  OBVIOUS
<1>1. CASE Admit
  <2>1. CASE Leave("rejected", live)
    BY <1>1, <2>1 DEF Admit, Leave, Verdicts, Stage, dispatch, seen
  <2>2. CASE stage' = "plan" /\ reservation' = TRUE /\ live' = "in_flight" /\ UNCHANGED <<permit, attempt, answer>>
    BY <1>1, <2>2 DEF Admit, Verdicts, Stage, Working, dispatch, seen
  <2>3. QED
    BY <1>1, <2>1, <2>2 DEF Admit
<1>2. CASE NoTarget
  BY <1>2 DEF NoTarget, Leave, Verdicts, Stage, Working, outcome, held, seen, dispatch
<1>3. CASE Plan
  BY <1>3 DEF Plan, Verdicts, Stage, Working, outcome, held, seen, dispatch
<1>4. CASE SkipLogicalTarget
  BY <1>4 DEF SkipLogicalTarget, Verdicts, Stage, Working, outcome, held, seen, dispatch
<1>5. CASE Consider
  BY <1>5 DEF Consider, Verdicts, Stage, Working, outcome, held, seen, dispatch
<1>6. CASE GiveUp
  BY <1>6 DEF GiveUp, Leave, Verdicts, Stage, Working, outcome, held, seen, dispatch
<1>7. CASE SoftQuota
  <2>1. CASE CanFallback("QuotaExhausted")
    BY <1>7, <2>1 DEF SoftQuota, Continue, Verdicts, Stage, Working, outcome, dispatch, seen
  <2>2. CASE ~CanFallback("QuotaExhausted")
    BY <1>7, <2>2 DEF SoftQuota, Leave, Verdicts, Stage, dispatch, seen
  <2>3. QED
    BY <2>1, <2>2
<1>8. CASE Ineligible
  BY <1>8 DEF Ineligible, Continue, Verdicts, Stage, Working, outcome, held, seen, dispatch
<1>9. CASE Eligible
  BY <1>9 DEF Eligible, Verdicts, Stage, Working, outcome, held, seen, dispatch
<1>10. CASE NoCredential
  BY <1>10 DEF NoCredential, Continue, Verdicts, Stage, Working, outcome, held, seen, dispatch
<1>11. CASE Refuse
  BY <1>11 DEF Refuse, Leave, Verdicts, Stage, Working, outcome, held, seen, dispatch
<1>12. CASE Prepare
  BY <1>12 DEF Prepare, Verdicts, Stage, Working, outcome, held, seen, dispatch
<1>13. CASE Saturated
  BY <1>13 DEF Saturated, Continue, Verdicts, Stage, Working, outcome, held, seen, dispatch
<1>14. CASE TooLate
  BY <1>14 DEF TooLate, Leave, Verdicts, Stage, Working, outcome, held, seen, dispatch
<1>15. CASE Send
  BY <1>15 DEF Send, Queue, Verdicts, Stage, Working, outcome, seen
<1>16. CASE SendFailed
  <2>1. failure' \in [kind : FailureKind, answered : BOOLEAN]
    BY <1>16 DEF SendFailed, FailAttempt, FailureKind
  <2>2. stage' \in {"settle", "rotate"}
    BY <1>16 DEF SendFailed, FailAttempt
  <2>3. QED
    BY <1>16, <2>1, <2>2 DEF SendFailed, FailAttempt, Report, Verdicts, Stage, Working, outcome, seen
<1>17. CASE Headers
  BY <1>17 DEF Headers, Verdicts, Stage, Working, outcome, held, seen, dispatch
<1>18. CASE Invalid
  <2>1. failure' \in [kind : FailureKind, answered : BOOLEAN]
    BY <1>18 DEF Invalid, FailAttempt, FailureKind
  <2>2. stage' \in {"settle", "rotate"}
    BY <1>18 DEF Invalid, FailAttempt
  <2>3. QED
    BY <1>18, <2>1, <2>2 DEF Invalid, FailAttempt, Verdicts, Stage, Working, outcome, seen
<1>19. CASE Validated
  BY <1>19 DEF Validated, Verdicts, Stage, Working, outcome, held, seen, dispatch
<1>20. CASE Classified
  <2>1. failure' \in [kind : FailureKind, answered : BOOLEAN]
    BY <1>20 DEF Classified, FailAttempt, FailureKind
  <2>2. stage' \in {"settle", "rotate"}
    BY <1>20 DEF Classified, FailAttempt
  <2>3. QED
    BY <1>20, <2>1, <2>2 DEF Classified, FailAttempt, Report, Verdicts, Stage, Working, outcome, seen
<1>21. CASE SendTimeout
  BY <1>21 DEF SendTimeout, FailAttempt, Report, Verdicts, FailureKind, Stage, Working, outcome, held, seen, dispatch
<1>22. CASE BodyTimeout
  BY <1>22 DEF BodyTimeout, FailAttempt, Verdicts, FailureKind, Stage, Working, outcome, held, seen, dispatch
<1>23. CASE ErrorBodyTimeout
  BY <1>23 DEF ErrorBodyTimeout, FailAttempt, Report, Verdicts, FailureKind, Stage, Working, outcome, held, seen, dispatch
<1>24. CASE Commit
  BY <1>24 DEF Commit, Verdicts, Stage, Working, outcome, held, seen, dispatch
<1>25. CASE AuthRetry
  <2>1. stage' = "loop" /\ ~permit' /\ ~attempt' /\ lastError' = lastError
        /\ UNCHANGED <<reservation, outcome, dispatch, seen>>
    BY <1>25 DEF AuthRetry, Continue
  <2>2. permit' \in BOOLEAN /\ attempt' \in BOOLEAN
    BY <1>25 DEF AuthRetry, Continue
  <2>3. QED
    BY <2>1, <2>2 DEF Verdicts, Stage, Working, outcome, dispatch, seen
<1>26. CASE NotRotated
  BY <1>26 DEF NotRotated, Verdicts, Stage, Working, outcome, held, seen, dispatch
<1>27. CASE RotationFailed
  BY <1>27 DEF RotationFailed, NextOrOut, Leave, Continue, Verdicts, Stage, Working, outcome, held, seen, dispatch
<1>28. CASE Settle
  BY <1>28 DEF Settle, NextOrOut, Leave, Continue, Verdicts, Stage, Working, outcome, held, seen, dispatch
<1>29. CASE Disconnect
  BY <1>29 DEF Disconnect, Leave, Verdicts, Stage, Working, outcome, held, seen, dispatch
<1>30. CASE Tick
  BY <1>30 DEF Tick, Verdicts, Stage, Working, outcome, held, seen, dispatch
<1>31. CASE UNCHANGED vars
  BY <1>31 DEF vars, Verdicts, Stage, Working, outcome, held, seen, dispatch
<1>q. QED
  BY <1>1, <1>2, <1>3, <1>4, <1>5, <1>6, <1>7, <1>8, <1>9, <1>10, <1>11, <1>12, <1>13, <1>14, <1>15, <1>16, <1>17, <1>18, <1>19, <1>20, <1>21, <1>22, <1>23, <1>24, <1>25, <1>26, <1>27, <1>28, <1>29, <1>30, <1>31 DEF Next, Begin, Choose, Ready, Upstream, Expire, Conclude

\* The targets left, the target tried and the accounts retried are of the plan.
LEMMA QueueStep == Queue /\ [Next]_vars => Queue'
<1> SUFFICES ASSUME Queue, [Next]_vars PROVE Queue'
  OBVIOUS
<1>1. CASE Admit
  BY <1>1 DEF Admit, Leave, Queue, targets, fixed, tries
<1>2. CASE NoTarget
  BY <1>2 DEF NoTarget, Leave, Queue, targets, fixed, tries
<1>3. CASE Plan
  <2>1. pending' \in Seq(Target) /\ Len(pending') \in Nat
    BY <1>3, ConstantsAssumption DEF Plan
  <2>2. maxAttempts' \in 1..5
    BY <1>3, <2>1, ClampInRange DEF Plan, Queue
  <2>3. QED
    BY <1>3, <2>1, <2>2 DEF Plan, Queue, tries
<1>4. CASE SkipLogicalTarget
  <2>1. Tail(pending) \in Seq(Target)
    BY <1>4 DEF SkipLogicalTarget, Queue
  <2>2. QED
    BY <1>4, <2>1 DEF SkipLogicalTarget, Queue, fixed, tries
<1>5. CASE Consider
  <2>1. Tail(pending) \in Seq(Target) /\ Head(pending) \in Target
    BY <1>5 DEF Consider, Queue
  <2>2. QED
    BY <1>5, <2>1 DEF Consider, Queue, fixed, tries
<1>6. CASE GiveUp
  BY <1>6 DEF GiveUp, Leave, Queue, targets, fixed, tries
<1>7. CASE SoftQuota
  BY <1>7 DEF SoftQuota, Leave, Continue, Queue, targets, fixed, tries
<1>8. CASE Ineligible
  BY <1>8 DEF Ineligible, Continue, Queue, targets, fixed, tries
<1>9. CASE Eligible
  BY <1>9 DEF Eligible, Queue, targets, fixed, tries
<1>10. CASE NoCredential
  BY <1>10 DEF NoCredential, Continue, Queue, targets, fixed, tries
<1>11. CASE Refuse
  BY <1>11 DEF Refuse, Leave, Queue, targets, fixed, tries
<1>12. CASE Prepare
  BY <1>12 DEF Prepare, Queue, targets, fixed, tries
<1>13. CASE Saturated
  BY <1>13 DEF Saturated, Continue, Queue, targets, fixed, tries
<1>14. CASE TooLate
  BY <1>14 DEF TooLate, Leave, Queue, targets, fixed, tries
<1>15. CASE Send
  BY <1>15 DEF Send, Queue, targets, fixed, tries
<1>16. CASE SendFailed
  BY <1>16 DEF SendFailed, FailAttempt, Report, Queue, targets, fixed, tries
<1>17. CASE Headers
  BY <1>17 DEF Headers, Queue, targets, fixed, tries
<1>18. CASE Invalid
  BY <1>18 DEF Invalid, FailAttempt, Queue, targets, fixed, tries
<1>19. CASE Validated
  BY <1>19 DEF Validated, Queue, targets, fixed, tries
<1>20. CASE Classified
  BY <1>20 DEF Classified, FailAttempt, Report, Queue, targets, fixed, tries
<1>21. CASE SendTimeout
  BY <1>21 DEF SendTimeout, FailAttempt, Report, Queue, targets, fixed, tries
<1>22. CASE BodyTimeout
  BY <1>22 DEF BodyTimeout, FailAttempt, Queue, targets, fixed, tries
<1>23. CASE ErrorBodyTimeout
  BY <1>23 DEF ErrorBodyTimeout, FailAttempt, Report, Queue, targets, fixed, tries
<1>24. CASE Commit
  BY <1>24 DEF Commit, Queue, targets, fixed, tries
<1>25. CASE AuthRetry
  <2>1. target.account \in Account
    BY DEF Queue, Target
  <2>2. <<target>> \o pending \in Seq(Target)
    BY DEF Queue
  <2>3. QED
    BY <1>25, <2>1, <2>2 DEF AuthRetry, Continue, Queue, fixed
<1>26. CASE NotRotated
  BY <1>26 DEF NotRotated, Queue, targets, fixed, tries
<1>27. CASE RotationFailed
  BY <1>27 DEF RotationFailed, NextOrOut, Leave, Continue, Queue, targets, fixed, tries
<1>28. CASE Settle
  <2>1. target.logical \in Logical
    BY DEF Queue, Target
  <2>2. QED
    BY <1>28, <2>1 DEF Settle, Queue, fixed, tries
<1>29. CASE Disconnect
  BY <1>29 DEF Disconnect, Leave, Queue, targets, fixed, tries
<1>30. CASE Tick
  BY <1>30 DEF Tick, Queue, targets, fixed, tries
<1>31. CASE UNCHANGED vars
  BY <1>31 DEF vars, Queue, targets, fixed, tries
<1>q. QED
  BY <1>1, <1>2, <1>3, <1>4, <1>5, <1>6, <1>7, <1>8, <1>9, <1>10, <1>11, <1>12, <1>13, <1>14, <1>15, <1>16, <1>17, <1>18, <1>19, <1>20, <1>21, <1>22, <1>23, <1>24, <1>25, <1>26, <1>27, <1>28, <1>29, <1>30, <1>31 DEF Next, Begin, Choose, Ready, Upstream, Expire, Conclude

\* The clock, the phase's deadline and the counters stay natural numbers.
LEMMA ClocksStep == Clocks /\ [Next]_vars => Clocks'
<1> SUFFICES ASSUME Clocks, [Next]_vars PROVE Clocks'
  OBVIOUS
<1>1. CASE Admit
  BY <1>1 DEF Admit, Leave, Clocks, dispatch, seen
<1>2. CASE NoTarget
  BY <1>2 DEF NoTarget, Leave, Clocks, dispatch, seen
<1>3. CASE Plan
  BY <1>3 DEF Plan, Clocks, dispatch, seen
<1>4. CASE SkipLogicalTarget
  BY <1>4 DEF SkipLogicalTarget, Clocks, dispatch, seen
<1>5. CASE Consider
  BY <1>5 DEF Consider, Clocks, dispatch, seen
<1>6. CASE GiveUp
  BY <1>6 DEF GiveUp, Leave, Clocks, dispatch, seen
<1>7. CASE SoftQuota
  BY <1>7 DEF SoftQuota, Leave, Continue, Clocks, dispatch, seen
<1>8. CASE Ineligible
  BY <1>8 DEF Ineligible, Continue, Clocks, dispatch, seen
<1>9. CASE Eligible
  BY <1>9 DEF Eligible, Clocks, dispatch, seen
<1>10. CASE NoCredential
  BY <1>10 DEF NoCredential, Continue, Clocks, dispatch, seen
<1>11. CASE Refuse
  BY <1>11 DEF Refuse, Leave, Clocks, dispatch, seen
<1>12. CASE Prepare
  BY <1>12 DEF Prepare, Clocks, dispatch, seen
<1>13. CASE Saturated
  BY <1>13 DEF Saturated, Continue, Clocks, dispatch, seen
<1>14. CASE TooLate
  BY <1>14 DEF TooLate, Leave, Clocks, dispatch, seen
<1>15. CASE Send
  <2>1. SmallerOf(Deadline - now, Timeout) \in Nat
    BY <1>15, ConstantsAssumption DEF Send, Clocks, SmallerOf
  <2>2. QED
    BY <1>15, <2>1 DEF Send, Clocks
<1>16. CASE SendFailed
  BY <1>16 DEF SendFailed, FailAttempt, Report, Clocks, dispatch, seen
<1>17. CASE Headers
  BY <1>17 DEF Headers, Clocks, dispatch, seen
<1>18. CASE Invalid
  BY <1>18 DEF Invalid, FailAttempt, Clocks, dispatch, seen
<1>19. CASE Validated
  BY <1>19 DEF Validated, Clocks, dispatch, seen
<1>20. CASE Classified
  BY <1>20 DEF Classified, FailAttempt, Report, Clocks, dispatch, seen
<1>21. CASE SendTimeout
  BY <1>21 DEF SendTimeout, FailAttempt, Report, Clocks, dispatch, seen
<1>22. CASE BodyTimeout
  BY <1>22 DEF BodyTimeout, FailAttempt, Clocks, dispatch, seen
<1>23. CASE ErrorBodyTimeout
  BY <1>23 DEF ErrorBodyTimeout, FailAttempt, Report, Clocks, dispatch, seen
<1>24. CASE Commit
  BY <1>24 DEF Commit, Clocks, dispatch, seen
<1>25. CASE AuthRetry
  BY <1>25 DEF AuthRetry, Continue, Clocks, dispatch, seen
<1>26. CASE NotRotated
  BY <1>26 DEF NotRotated, Clocks, dispatch, seen
<1>27. CASE RotationFailed
  BY <1>27 DEF RotationFailed, NextOrOut, Leave, Continue, Clocks, dispatch, seen
<1>28. CASE Settle
  BY <1>28 DEF Settle, NextOrOut, Leave, Continue, Clocks, dispatch, seen
<1>29. CASE Disconnect
  BY <1>29 DEF Disconnect, Leave, Clocks, dispatch, seen
<1>30. CASE Tick
  BY <1>30 DEF Tick, Clocks, dispatch, seen
<1>31. CASE UNCHANGED vars
  BY <1>31 DEF vars, Clocks, dispatch, seen
<1>q. QED
  BY <1>1, <1>2, <1>3, <1>4, <1>5, <1>6, <1>7, <1>8, <1>9, <1>10, <1>11, <1>12, <1>13, <1>14, <1>15, <1>16, <1>17, <1>18, <1>19, <1>20, <1>21, <1>22, <1>23, <1>24, <1>25, <1>26, <1>27, <1>28, <1>29, <1>30, <1>31 DEF Next, Begin, Choose, Ready, Upstream, Expire, Conclude

\* Every variable of run() keeps its type: attempts_done never goes below zero
\* though a retry is taken off it, and max_attempts stays within one to five.
THEOREM TypeCorrect == Spec => []TypeOK
<1> DEFINE Typed == Verdicts /\ Queue /\ Clocks /\ Counting
<1>1. Init => Typed
  <2>1. Init => config \in Config /\ config.limit \in Nat /\ config.adaptive \in BOOLEAN
    BY ConstantsAssumption DEF Init, Config
  <2>2. Init => failure \in [kind : FailureKind, answered : BOOLEAN]
    BY DEF Init, FailureKind
  <2>3. Init => Queue
    BY <2>1, ConstantsAssumption DEF Init, Queue
  <2>4. Init => Clocks
    BY DEF Init, Clocks
  <2>5. Init => Counting
    BY CountingInit
  <2>6. Init => Verdicts
    BY <2>2 DEF Init, Verdicts, Stage, Working
  <2>7. QED
    BY <2>3, <2>4, <2>5, <2>6
<1>2. Typed /\ [Next]_vars => Typed'
  BY VerdictsStep, QueueStep, ClocksStep, CountingStep
<1>3. Typed => TypeOK
  BY DEF Verdicts, Queue, Clocks, Counting, TypeOK
<1>4. QED
  BY <1>1, <1>2, <1>3, PTL DEF Spec

\* A request is sent at most max_attempts times, and once more for each account
\* whose credential was renewed (run), whatever the plan and the failures.
THEOREM SendsAreBounded == Spec => []SendsBounded
<1>1. Init => Counting
  BY CountingInit
<1>2. Counting /\ [Next]_vars => Counting'
  BY CountingStep
<1>3. Counting => SendsBounded
  BY FS_CardinalityType DEF Counting, SendsBounded
<1>4. QED
  BY <1>1, <1>2, <1>3, PTL DEF Spec

\* Between two attempts a request holds no permit and no provider attempt, and
\* nothing at all when it is over (run).
THEOREM NothingIsHeldBetweenAttempts == Spec => []NothingHeldBetweenAttempts
<1>1. Init => Holding
  BY DEF Init, Config, Holding, Working
<1>2. Holding /\ [Next]_vars => Holding'
  BY HoldingStep
<1>3. Holding => NothingHeldBetweenAttempts
  BY DEF Holding, NothingHeldBetweenAttempts
<1>4. QED
  BY <1>1, <1>2, <1>3, PTL DEF Spec

\* Each dispatch of a request that is not dropped reaches the provider circuit
\* as one failure, is under way or was handed over (finish_failure).
THEOREM AttemptsAreReported == Spec => []EveryAttemptReported
<1>1. Init => Holding /\ Reporting
  <2>1. Init => Holding
    BY DEF Init, Config, Holding, Working
  <2>2. Init => Reporting
    BY DEF Init, Reporting
  <2>3. QED
    BY <2>1, <2>2
<1>2. Holding /\ Reporting /\ [Next]_vars => Holding' /\ Reporting'
  BY HoldingStep, ReportingStep
<1>3. Reporting => EveryAttemptReported
  BY DEF Reporting, EveryAttemptReported
<1>4. QED
  BY <1>1, <1>2, <1>3, PTL DEF Spec

\* Nothing is sent after a failure that must reach the client (can_fallback).
THEOREM RefusalIsFinal == Spec => []NoSendAfterRefusal
<1>1. Init => Holding
  BY DEF Init, Config, Holding, Working
<1>2. Holding /\ [Next]_vars => Holding'
  BY HoldingStep
<1>3. Holding => NoSendAfterRefusal
  BY DEF Holding, NoSendAfterRefusal
<1>4. QED
  BY <1>1, <1>2, <1>3, PTL DEF Spec

-----------------------------------------------------------------------------
(* The contents of a request (RequestCodec).  Lists of messages, and what is *)
(* taken out of them (Only).                                               *)

\* How many places of S come up to i.
RankOf(S, i) == Cardinality({j \in S : j <= i})

\* A later place has a higher rank (Nth).
LEMMA RankStrict ==
  ASSUME NEW S \in SUBSET Nat, IsFiniteSet(S), NEW i \in Nat, NEW j \in S, i < j
  PROVE  RankOf(S, i) < RankOf(S, j)
<1> DEFINE A == {l \in S : l <= i}
           B == {l \in S : l <= j}
<1>0. i \in Nat /\ j \in Nat /\ \A l \in S : l \in Nat
  OBVIOUS
<1>6. \A l \in S : l <= i => l <= j
  BY <1>0
<1>7. A \subseteq B
  BY <1>6
<1>8. j <= j /\ ~(j <= i)
  BY <1>0
<1>1. A \subseteq B /\ j \in B /\ j \notin A
  BY <1>7, <1>8
<1>2. IsFiniteSet(B) /\ IsFiniteSet(A)
  BY FS_Subset
<1>3. A # B /\ Cardinality(A) <= Cardinality(B)
  BY <1>1, <1>2, FS_Subset
<1>4. Cardinality(A) # Cardinality(B)
  BY <1>1, <1>2, FS_Subset
<1>5. Cardinality(A) \in Nat /\ Cardinality(B) \in Nat
  BY <1>2, FS_CardinalityType
<1> QED
  BY <1>3, <1>4, <1>5 DEF RankOf

\* The rank of a place is one of 1..Cardinality(S).
LEMMA RankType ==
  ASSUME NEW S \in SUBSET Nat, IsFiniteSet(S), NEW i \in S
  PROVE  RankOf(S, i) \in 1..Cardinality(S)
<1> DEFINE A == {l \in S : l <= i}
<1>1. IsFiniteSet(A) /\ Cardinality(A) <= Cardinality(S)
  BY FS_Subset
<1>2. i \in A
  OBVIOUS
<1>3. Cardinality(A) # 0
  BY <1>1, <1>2, FS_EmptySet
<1>4. Cardinality(A) \in Nat /\ Cardinality(S) \in Nat
  BY <1>1, FS_CardinalityType
<1> QED
  BY <1>1, <1>3, <1>4 DEF RankOf

\* There is a place of each rank (Nth).
LEMMA NthIs ==
  ASSUME NEW S \in SUBSET Nat, IsFiniteSet(S), NEW n \in 1..Cardinality(S)
  PROVE  Nth(S, n) \in S /\ RankOf(S, Nth(S, n)) = n
<1> DEFINE T == 1..Cardinality(S)
           f == [i \in S |-> RankOf(S, i)]
<1>1. Cardinality(S) \in Nat
  BY FS_CardinalityType
<1>2. IsFiniteSet(T) /\ Cardinality(T) = Cardinality(S)
  BY <1>1, FS_Interval
<1>3. f \in [S -> T]
  BY RankType
<1>4. \A i, j \in S : i # j => f[i] # f[j]
  <2> TAKE i, j \in S
  <2>1. CASE i < j
    BY <2>1, <1>3, RankStrict
  <2>2. CASE j < i
    BY <2>2, <1>3, RankStrict
  <2> QED
    BY <2>1, <2>2
<1>5. f \in Injection(S, T)
  BY <1>3, <1>4 DEF Injection, IsInjective
<1>6. f \in Surjection(S, T)
  BY <1>2, <1>5, FS_Injection
<1>7. \E i \in S : RankOf(S, i) = n
  BY <1>6 DEF Surjection
<1> QED
  BY <1>7 DEF Nth, RankOf

\* A place is the one of its rank.
LEMMA NthOfRank ==
  ASSUME NEW S \in SUBSET Nat, IsFiniteSet(S), NEW i \in S
  PROVE  Nth(S, RankOf(S, i)) = i
<1>1. RankOf(S, i) \in 1..Cardinality(S)
  BY RankType
<1>2. PICK j : j = Nth(S, RankOf(S, i))
  OBVIOUS
<1>5. j \in S /\ RankOf(S, j) = RankOf(S, i)
  BY <1>1, <1>2, NthIs
<1>4. i \in Nat /\ j \in Nat
  BY <1>5
<1>3. ~(i < j) /\ ~(j < i)
  <2>1. RankOf(S, i) \in Int
    BY <1>1
  <2>2. ASSUME i < j PROVE FALSE
    BY <1>5, <1>4, <2>1, <2>2, RankStrict
  <2>3. ASSUME j < i PROVE FALSE
    BY <1>5, <1>4, <2>1, <2>3, RankStrict
  <2> QED
    BY <2>2, <2>3
<1> QED
  BY <1>2, <1>3, <1>4

\* The places of two ranks are in their order.
LEMMA NthMonotone ==
  ASSUME NEW S \in SUBSET Nat, IsFiniteSet(S),
         NEW m \in 1..Cardinality(S), NEW n \in 1..Cardinality(S), m < n
  PROVE  Nth(S, m) < Nth(S, n)
<1>1. PICK i, j : i = Nth(S, m) /\ j = Nth(S, n)
  OBVIOUS
<1>3. i \in S /\ j \in S /\ RankOf(S, i) = m /\ RankOf(S, j) = n
  BY <1>1, NthIs
<1>4. i \in Nat /\ j \in Nat /\ m \in Nat /\ n \in Nat
  BY <1>3
<1>2. CASE j < i
  <2>1. n < m
    BY <1>3, <1>4, <1>2, RankStrict
  <2> QED
    BY <1>4, <2>1
<1>5. i # j
  BY <1>3, <1>4
<1> QED
  BY <1>1, <1>2, <1>4, <1>5

MessageFields == {"role", "k", "id", "name", "sig", "err"}

\* A list of messages.
IsMessages(msgs) ==
  /\ \E n \in Nat : DOMAIN msgs = 1..n
  /\ \A i \in DOMAIN msgs : DOMAIN msgs[i] = MessageFields

\* b is made of the messages of a at the places S, in their order.
Taken(a, b, S, g) ==
  /\ g \in [DOMAIN b -> S]
  /\ \A m, n \in DOMAIN b : m < n => g[m] < g[n]
  /\ \A n \in DOMAIN b : b[n] = a[g[n]]
  /\ \A i \in S : \E n \in DOMAIN b : g[n] = i

\* Each message of b comes from one of a, in their order, and is of its kind.
Follows(a, b, g) ==
  /\ g \in [DOMAIN b -> DOMAIN a]
  /\ \A m, n \in DOMAIN b : m < n => g[m] < g[n]
  /\ \A n \in DOMAIN b : b[n].k = a[g[n]].k

\* No content of a is missing in b.
Whole(a, b, g) ==
  \A i \in DOMAIN a : a[i].k \in Content => \E n \in DOMAIN b : g[n] = i

\* The places of a list are numbers, and finitely many.
LEMMA PlacesOf ==
  ASSUME NEW msgs, IsMessages(msgs), NEW S \in SUBSET DOMAIN msgs
  PROVE  S \in SUBSET Nat /\ IsFiniteSet(S) /\ Cardinality(S) \in Nat
<1>1. PICK n \in Nat : DOMAIN msgs = 1..n
  BY DEF IsMessages
<1>2. IsFiniteSet(1..n)
  BY FS_Interval
<1>3. IsFiniteSet(S)
  BY <1>1, <1>2, FS_Subset
<1> QED
  BY <1>1, <1>3, FS_CardinalityType

\* Only takes the messages at S.
LEMMA OnlyTakes ==
  ASSUME NEW a, IsMessages(a), NEW S \in SUBSET DOMAIN a
  PROVE  IsMessages(Only(a, S)) /\ \E g : Taken(a, Only(a, S), S, g)
<1>1. S \in SUBSET Nat /\ IsFiniteSet(S) /\ Cardinality(S) \in Nat
  BY PlacesOf
<1>2. PICK b : b = Only(a, S)
  OBVIOUS
<1>3. PICK g : g = [n \in 1..Cardinality(S) |-> Nth(S, n)]
  OBVIOUS
<1>4. DOMAIN b = 1..Cardinality(S) /\ \A n \in DOMAIN b : b[n] = a[g[n]]
  BY <1>2, <1>3 DEF Only
<1>5. \A n \in DOMAIN b : g[n] \in S
  BY <1>1, <1>3, <1>4, NthIs
<1>6. g \in [DOMAIN b -> S]
  BY <1>3, <1>4, <1>5
<1>7. \A m, n \in DOMAIN b : m < n => g[m] < g[n]
  BY <1>1, <1>3, <1>4, NthMonotone
<1>8. ASSUME NEW i \in S PROVE \E n \in DOMAIN b : g[n] = i
  <2>1. RankOf(S, i) \in 1..Cardinality(S) /\ Nth(S, RankOf(S, i)) = i
    BY <1>1, RankType, NthOfRank
  <2>2. g[RankOf(S, i)] = i
    BY <1>3, <2>1
  <2> QED
    BY <1>4, <2>1, <2>2
<1>9. Taken(a, b, S, g)
  BY <1>4, <1>6, <1>7, <1>8 DEF Taken
<1>10. \A n \in DOMAIN b : DOMAIN b[n] = MessageFields
  BY <1>4, <1>5 DEF IsMessages
<1>11. IsMessages(b)
  BY <1>1, <1>4, <1>10 DEF IsMessages
<1> QED
  BY <1>2, <1>9, <1>11

\* What is taken follows what it is taken from; it is whole when the content is taken.
LEMMA TakenFollows ==
  ASSUME NEW a, NEW b, NEW S \in SUBSET DOMAIN a, NEW g, Taken(a, b, S, g)
  PROVE  /\ Follows(a, b, g)
         /\ (\A i \in DOMAIN a : a[i].k \in Content => i \in S) => Whole(a, b, g)
<1>1. g \in [DOMAIN b -> DOMAIN a]
  BY DEF Taken
<1>2. \A n \in DOMAIN b : b[n].k = a[g[n]].k
  BY DEF Taken
<1>3. \A m, n \in DOMAIN b : m < n => g[m] < g[n]
  BY DEF Taken
<1> QED
  BY <1>1, <1>2, <1>3 DEF Taken, Follows, Whole

\* The places of the content.
ContentOf(msgs) == {i \in DOMAIN msgs : msgs[i].k \in Content}

\* A whole list that follows another has its content at the same ranks.
LEMMA RankKept ==
  ASSUME NEW a, NEW b, NEW g, IsMessages(a), IsMessages(b), Follows(a, b, g), Whole(a, b, g),
         NEW n \in ContentOf(b)
  PROVE  g[n] \in ContentOf(a) /\ RankOf(ContentOf(a), g[n]) = RankOf(ContentOf(b), n)
<1> DEFINE A == {i \in ContentOf(a) : i <= g[n]}
           B == {m \in ContentOf(b) : m <= n}
           f == [m \in B |-> g[m]]
<1>1. /\ DOMAIN a \in SUBSET Nat /\ DOMAIN b \in SUBSET Nat
      /\ \A m \in DOMAIN b : g[m] \in DOMAIN a
  BY DEF IsMessages, Follows
<1>2. \A m \in ContentOf(b) : m \in DOMAIN b /\ g[m] \in ContentOf(a)
  BY <1>1 DEF ContentOf, Follows
<1>3. \A m \in B : m = n \/ m < n
  BY <1>1, <1>2
<1>4. \A m \in B : g[m] = g[n] \/ g[m] < g[n]
  BY <1>2, <1>3 DEF Follows
<1>5. \A m \in B : g[m] \in A
  BY <1>1, <1>2, <1>4
<1>6. f \in [B -> A]
  BY <1>5
<1>7. \A l, m \in DOMAIN b : l # m => g[l] # g[m]
  <2> TAKE l, m \in DOMAIN b
  <2>1. l \in Nat /\ m \in Nat /\ g[l] \in Nat /\ g[m] \in Nat
    BY <1>1
  <2>2. (l < m => g[l] < g[m]) /\ (m < l => g[m] < g[l])
    BY DEF Follows
  <2> QED
    BY <2>1, <2>2
<1>8. \A l, m \in B : f[l] = f[m] => l = m
  BY <1>2, <1>7
<1>9. ASSUME NEW i \in A PROVE \E m \in B : f[m] = i
  <2>1. i \in DOMAIN a /\ a[i].k \in Content /\ i <= g[n]
    BY DEF ContentOf
  <2>2. PICK m \in DOMAIN b : g[m] = i
    BY <2>1 DEF Whole
  <2>3. m \in ContentOf(b)
    BY <2>1, <2>2 DEF ContentOf, Follows
  <2>4. n \in DOMAIN b
    BY <1>2
  <2>5. n < m => g[n] < g[m]
    BY <2>4 DEF Follows
  <2>6. m <= n
    BY <1>1, <2>1, <2>2, <2>4, <2>5
  <2> QED
    BY <2>2, <2>3, <2>6
<1>10. f \in Bijection(B, A)
  BY <1>6, <1>8, <1>9 DEF Bijection, Injection, Surjection, IsInjective
<1>11. ExistsBijection(B, A)
  BY <1>10 DEF ExistsBijection
<1>12. IsFiniteSet(B)
  <2>1. B \in SUBSET DOMAIN b
    BY <1>2
  <2> QED
    BY <2>1, PlacesOf
<1>13. Cardinality(A) = Cardinality(B)
  BY <1>11, <1>12, FS_Bijection
<1> QED
  BY <1>2, <1>13 DEF RankOf

\* Lists that follow one another and are whole have the same content.
LEMMA ContentKept ==
  ASSUME NEW a, NEW b, NEW g, IsMessages(a), IsMessages(b), Follows(a, b, g), Whole(a, b, g)
  PROVE  KindsOf(b) = KindsOf(a)
<1>1. PICK A, B : A = ContentOf(a) /\ B = ContentOf(b)
  OBVIOUS
<1>2. A \in SUBSET DOMAIN a /\ B \in SUBSET DOMAIN b
  BY <1>1 DEF ContentOf
<1>3. /\ A \in SUBSET Nat /\ IsFiniteSet(A) /\ Cardinality(A) \in Nat
      /\ B \in SUBSET Nat /\ IsFiniteSet(B) /\ Cardinality(B) \in Nat
  BY <1>2, PlacesOf
<1>4. \A n \in B : g[n] \in A /\ RankOf(A, g[n]) = RankOf(B, n)
  BY <1>1, RankKept
<1>5. ASSUME NEW i \in A PROVE \E n \in B : g[n] = i
  BY <1>1, <1>5 DEF ContentOf, Whole, Follows
<1>6. Cardinality(A) = Cardinality(B)
  <2>1. \A m, n \in B : g[m] = g[n] => m = n
    <3> TAKE m, n \in B
    <3> HAVE g[m] = g[n]
    <3>1. RankOf(B, m) = RankOf(B, n)
      BY <1>4
    <3> QED
      BY <1>3, <3>1, NthOfRank
  <2> DEFINE f == [n \in B |-> g[n]]
  <2>2. f \in Bijection(B, A)
    BY <1>4, <1>5, <2>1 DEF Bijection, Injection, Surjection, IsInjective
  <2>3. ExistsBijection(B, A)
    BY <2>2 DEF ExistsBijection
  <2> QED
    BY <1>3, <2>3, FS_Bijection
<1>7. ASSUME NEW r \in 1..Cardinality(B) PROVE b[Nth(B, r)].k = a[Nth(A, r)].k
  <2>1. PICK n : n = Nth(B, r)
    OBVIOUS
  <2>2. n \in B /\ RankOf(B, n) = r
    BY <1>3, <2>1, NthIs
  <2>3. g[n] \in A /\ RankOf(A, g[n]) = r
    BY <1>4, <2>2
  <2>4. Nth(A, r) = g[n]
    BY <1>3, <2>3, NthOfRank
  <2> QED
    BY <1>2, <2>1, <2>2, <2>4 DEF Follows
<1>8. KindsOf(b) = [r \in 1..Cardinality(B) |-> b[Nth(B, r)].k]
  BY <1>1 DEF KindsOf, Only, ContentOf
<1>9. KindsOf(a) = [r \in 1..Cardinality(A) |-> a[Nth(A, r)].k]
  BY <1>1 DEF KindsOf, Only, ContentOf
<1> QED
  BY <1>6, <1>7, <1>8, <1>9

-----------------------------------------------------------------------------
(* The decoders (decode_request).                                          *)

Formats == {"openai", "anthropic", "responses"}
Kinds == {"text", "image", "odd", "call", "result", "think"}

\* Each message of b is one of a with its role set, and none is missing but the odd ones.
Reads(a, b, g) ==
  /\ Follows(a, b, g)
  /\ \A i \in DOMAIN a : a[i].k # "odd" => \E n \in DOMAIN b : g[n] = i
  /\ \A n \in DOMAIN b : b[n].id = a[g[n]].id /\ b[n].sig = a[g[n]].sig /\ b[n].name = a[g[n]].name

\* The roles that the decoders of a format give.
RolesOf(c, b) ==
  \A n \in DOMAIN b :
    /\ b[n].k \in {"text", "image"} => b[n].role = "user"
    /\ b[n].k = "call" => b[n].role = "assistant"
    /\ b[n].k = "result" /\ c # "anthropic" => b[n].role = "tool"

\* What a message of a client is.
Spoken(c, m) ==
  /\ DOMAIN m = MessageFields /\ m.k \in Kinds
  /\ m.k = "call" => m.sig = Absent /\ m.name \in {"f", "g"}
  /\ m.k \in {"text", "image"} => m.sig = Absent
  /\ c = "responses" => m.k # "think"

\* What a client says: a call has a name and no signature (ChatMessages).
LEMMA ChatIs ==
  ASSUME NEW c
  PROVE  \A m \in ChatMessages(c) : Spoken(c, m)
<1>1. \A m \in Shown : Spoken(c, m)
  BY DEF Spoken, Message, Kinds, MessageFields, Shown
<1>2. \A m \in Calls : Spoken(c, m)
  BY DEF Spoken, Message, Kinds, MessageFields, Calls
<1>3. ASSUME NEW m \in Results(c)
      PROVE Spoken(c, m)
  <2>1. m.k = "result" 
    BY DEF Results, Message
  <2>2. DOMAIN m = MessageFields
    BY DEF Results, Message, MessageFields
  <2> QED
    BY <2>1, <2>2 DEF Spoken, Kinds
<1>4. \A m \in Thoughts : c # "responses" => Spoken(c, m)
  BY DEF Spoken, Message, Kinds, MessageFields, Thoughts
<1> QED
  BY <1>1, <1>2, <1>3, <1>4, Zenon DEF ChatMessages

\* A conversation is a list of messages.
LEMMA ChatIsList ==
  ASSUME NEW c \in Formats, NEW msgs \in Seq(ChatMessages(c))
  PROVE  IsMessages(msgs) /\ \A i \in DOMAIN msgs : Spoken(c, msgs[i])
<1>1. DOMAIN msgs = 1..Len(msgs) /\ Len(msgs) \in Nat
  OBVIOUS
<1>2. \A i \in DOMAIN msgs : Spoken(c, msgs[i])
  BY <1>1, ChatIs
<1>3. \A i \in DOMAIN msgs : DOMAIN msgs[i] = MessageFields
  BY <1>2 DEF Spoken
<1> QED
  BY <1>1, <1>2, <1>3 DEF IsMessages

\* A list with the roles of its messages set is read from what it is taken from.
LEMMA RolesRead ==
  ASSUME NEW a, NEW b, NEW c, IsMessages(a), IsMessages(b), NEW S \in SUBSET DOMAIN a, NEW g,
         Taken(a, b, S, g), \A i \in DOMAIN a : a[i].k # "odd" => i \in S,
         DOMAIN c = DOMAIN b,
         \A n \in DOMAIN b : /\ DOMAIN c[n] = MessageFields
                             /\ \A x \in MessageFields \ {"role"} : c[n][x] = b[n][x]
  PROVE  IsMessages(c) /\ Reads(a, c, g)
<1>1. \A n \in DOMAIN b : c[n].k = b[n].k /\ c[n].id = b[n].id /\ c[n].sig = b[n].sig /\ c[n].name = b[n].name
  BY DEF MessageFields
<1>2. IsMessages(c)
  BY DEF IsMessages
<1>3. Follows(a, b, g)
  BY TakenFollows
<1>4. Follows(a, c, g)
  BY <1>1, <1>3 DEF Follows
<1>5. \A i \in DOMAIN a : a[i].k # "odd" => \E n \in DOMAIN c : g[n] = i
  BY DEF Taken
<1>6. \A n \in DOMAIN c : c[n].id = a[g[n]].id /\ c[n].sig = a[g[n]].sig /\ c[n].name = a[g[n]].name
  BY <1>1 DEF Taken
<1> QED
  BY <1>2, <1>4, <1>5, <1>6 DEF Reads

\* The messages of a chat completions request (OpenAiMessages).
LEMMA OpenAiReads ==
  ASSUME NEW a, IsMessages(a)
  PROVE  /\ IsMessages(OpenAiMessages(a)) /\ RolesOf("openai", OpenAiMessages(a))
         /\ \E g : Reads(a, OpenAiMessages(a), g)
<1>1. PICK S : S = {i \in DOMAIN a : OpenAiKnows(a[i])}
  OBVIOUS
<1>2. S \in SUBSET DOMAIN a /\ \A i \in DOMAIN a : a[i].k # "odd" => i \in S
  BY <1>1 DEF OpenAiKnows
<1>3. PICK b, c : b = Only(a, S) /\ c = OpenAiMessages(a)
  OBVIOUS
<1>4. IsMessages(b)
  BY <1>2, <1>3, OnlyTakes
<1>5. PICK g : Taken(a, b, S, g)
  BY <1>2, <1>3, OnlyTakes
<1>6. c = [n \in DOMAIN b |-> [b[n] EXCEPT !.role = IF b[n].k \in {"text", "image"} THEN "user"
                                  ELSE IF b[n].k = "result" THEN "tool" ELSE "assistant"]]
  BY <1>1, <1>3 DEF OpenAiMessages
<1>7. \A n \in DOMAIN b : DOMAIN b[n] = MessageFields
  BY <1>4 DEF IsMessages
<1>8. \A n \in DOMAIN b : /\ DOMAIN c[n] = MessageFields
                          /\ \A x \in MessageFields \ {"role"} : c[n][x] = b[n][x]
  BY <1>6, <1>7
<1>9. DOMAIN c = DOMAIN b
  BY <1>6
<1>10. IsMessages(c) /\ Reads(a, c, g)
  BY <1>2, <1>4, <1>5, <1>8, <1>9, RolesRead
<1>11. \A n \in DOMAIN c : c[n].k = b[n].k
  BY <1>8, <1>9 DEF MessageFields
<1>12. RolesOf("openai", c)
  BY <1>6, <1>7, <1>9, <1>11 DEF RolesOf, MessageFields
<1> QED
  BY <1>3, <1>10, <1>12

\* The messages of a Messages request (AnthropicMessages).
LEMMA AnthropicReads ==
  ASSUME NEW a, IsMessages(a)
  PROVE  /\ IsMessages(AnthropicMessages(a)) /\ RolesOf("anthropic", AnthropicMessages(a))
         /\ \E g : Reads(a, AnthropicMessages(a), g)
<1>1. PICK S : S = {i \in DOMAIN a : a[i].k # "odd"}
  OBVIOUS
<1>2. S \in SUBSET DOMAIN a /\ \A i \in DOMAIN a : a[i].k # "odd" => i \in S
  BY <1>1
<1>3. PICK b, c : b = Only(a, S) /\ c = AnthropicMessages(a)
  OBVIOUS
<1>4. IsMessages(b)
  BY <1>2, <1>3, OnlyTakes
<1>5. PICK g : Taken(a, b, S, g)
  BY <1>2, <1>3, OnlyTakes
<1>6. c = [n \in DOMAIN b |-> [b[n] EXCEPT !.role = IF b[n].k \in {"call", "think"} THEN "assistant" ELSE "user"]]
  BY <1>1, <1>3 DEF AnthropicMessages
<1>7. \A n \in DOMAIN b : DOMAIN b[n] = MessageFields
  BY <1>4 DEF IsMessages
<1>8. \A n \in DOMAIN b : /\ DOMAIN c[n] = MessageFields
                          /\ \A x \in MessageFields \ {"role"} : c[n][x] = b[n][x]
  BY <1>6, <1>7
<1>9. DOMAIN c = DOMAIN b
  BY <1>6
<1>10. IsMessages(c) /\ Reads(a, c, g)
  BY <1>2, <1>4, <1>5, <1>8, <1>9, RolesRead
<1>11. \A n \in DOMAIN c : c[n].k = b[n].k
  BY <1>8, <1>9 DEF MessageFields
<1>12. RolesOf("anthropic", c)
  BY <1>6, <1>7, <1>9, <1>11 DEF RolesOf, MessageFields
<1> QED
  BY <1>3, <1>10, <1>12

\* The items of a Responses request (ResponsesItems).
LEMMA ResponsesReads ==
  ASSUME NEW a, IsMessages(a)
  PROVE  /\ IsMessages(ResponsesItems(a)) /\ RolesOf("responses", ResponsesItems(a))
         /\ \E g : Reads(a, ResponsesItems(a), g)
<1>1. PICK c : c = ResponsesItems(a)
  OBVIOUS
<1>2. PICK g : g = [n \in DOMAIN a |-> n]
  OBVIOUS
<1>3. Taken(a, a, DOMAIN a, g)
  BY <1>2 DEF Taken
<1>4. c = [n \in DOMAIN a |-> [a[n] EXCEPT !.role = IF a[n].k = "call" THEN "assistant"
                              ELSE IF a[n].k = "result" THEN "tool" ELSE "user"]]
  BY <1>1 DEF ResponsesItems
<1>7. \A n \in DOMAIN a : DOMAIN a[n] = MessageFields
  BY DEF IsMessages
<1>8. \A n \in DOMAIN a : /\ DOMAIN c[n] = MessageFields
                          /\ \A x \in MessageFields \ {"role"} : c[n][x] = a[n][x]
  BY <1>4, <1>7
<1>9. DOMAIN c = DOMAIN a
  BY <1>4
<1>10. IsMessages(c) /\ Reads(a, c, g)
  BY <1>3, <1>8, <1>9, RolesRead
<1>11. \A n \in DOMAIN c : c[n].k = a[n].k
  BY <1>8, <1>9 DEF MessageFields
<1>12. RolesOf("responses", c)
  BY <1>4, <1>7, <1>9, <1>11 DEF RolesOf, MessageFields
<1> QED
  BY <1>1, <1>10, <1>12

\* A finite set of places that is not empty has a last one.
LEMMA LastOf ==
  ASSUME NEW S \in SUBSET Nat, IsFiniteSet(S), S # {}
  PROVE  \E j \in S : \A l \in S : l <= j
<1>1. PICK c : c = Cardinality(S)
  OBVIOUS
<1>2. c \in Nat /\ c # 0
  BY <1>1, FS_CardinalityType, FS_EmptySet
<1>3. PICK j : j = Nth(S, c)
  OBVIOUS
<1>4. j \in S /\ RankOf(S, j) = c
  BY <1>1, <1>2, <1>3, NthIs
<1>5. ASSUME NEW l \in S, j < l PROVE FALSE
  <2>1. RankOf(S, j) < RankOf(S, l)
    BY <1>4, <1>5, RankStrict
  <2>2. RankOf(S, l) \in 1..Cardinality(S)
    BY RankType
  <2> QED
    BY <1>1, <1>2, <1>4, <2>1, <2>2
<1>6. \A l \in S : l <= j
  BY <1>4, <1>5
<1> QED
  BY <1>4, <1>6

\* The call that a result is matched to is a call with its id that stands before it.
LEMMA CallBeforeIs ==
  ASSUME NEW msgs, IsMessages(msgs), NEW i \in DOMAIN msgs, CallBefore(msgs, i) # 0
  PROVE  LET j == CallBefore(msgs, i)
         IN /\ j \in DOMAIN msgs /\ j < i
            /\ msgs[j].k = "call" /\ msgs[j].id # Absent /\ msgs[j].id = msgs[i].id
<1>1. PICK n \in Nat : DOMAIN msgs = 1..n
  BY DEF IsMessages
<1>2. PICK S : S = {j \in 1..(i - 1) : msgs[j].k = "call" /\ msgs[j].id # Absent /\ msgs[j].id = msgs[i].id}
  OBVIOUS
<1>3. CallBefore(msgs, i) = IF S = {} THEN 0 ELSE CHOOSE j \in S : \A l \in S : l <= j
  BY <1>2 DEF CallBefore
<1>4. S # {}
  BY <1>3
<1>5. S \in SUBSET DOMAIN msgs
  BY <1>1, <1>2
<1>6. S \in SUBSET Nat /\ IsFiniteSet(S)
  BY <1>5, PlacesOf
<1>7. CallBefore(msgs, i) \in S
  BY <1>3, <1>4, <1>6, LastOf
<1>8. i \in Nat
  BY <1>1
<1> QED
  BY <1>2, <1>5, <1>7, <1>8, <1>1

\* Names are given to results that had none and whose call stands before them
\* (resolve_tool_result_names).
LEMMA ResolveNamesIs ==
  ASSUME NEW b, IsMessages(b), NEW c, c = ResolveNames(b)
  PROVE  /\ IsMessages(c) /\ DOMAIN c = DOMAIN b
         /\ \A n \in DOMAIN b : \A x \in MessageFields \ {"name"} : c[n][x] = b[n][x]
         /\ \A n \in DOMAIN b : b[n].k # "result" => c[n].name = b[n].name
         /\ \A n \in DOMAIN b :
              c[n].name = b[n].name
              \/ \E l \in DOMAIN b : l < n /\ b[l].k = "call" /\ b[l].id = b[n].id /\ c[n].name = b[l].name
<1>1. /\ DOMAIN c = DOMAIN b
      /\ \A n \in DOMAIN b :
           c[n] = IF b[n].k = "result" /\ b[n].name = Absent /\ CallBefore(b, n) # 0
                  THEN [b[n] EXCEPT !.name = b[CallBefore(b, n)].name] ELSE b[n]
  BY DEF ResolveNames
<1>2. \A n \in DOMAIN b : DOMAIN b[n] = MessageFields
  BY DEF IsMessages
<1>3. \A n \in DOMAIN b : DOMAIN c[n] = MessageFields
  BY <1>1, <1>2
<1>4. IsMessages(c)
  BY <1>1, <1>3 DEF IsMessages
<1>5. \A n \in DOMAIN b : \A x \in MessageFields \ {"name"} : c[n][x] = b[n][x]
  BY <1>1, <1>2
<1>6. \A n \in DOMAIN b : b[n].k # "result" => c[n].name = b[n].name
  BY <1>1
<1>7. ASSUME NEW n \in DOMAIN b
      PROVE  \/ c[n].name = b[n].name
             \/ \E l \in DOMAIN b : l < n /\ b[l].k = "call" /\ b[l].id = b[n].id /\ c[n].name = b[l].name
  <2>1. CASE b[n].k = "result" /\ b[n].name = Absent /\ CallBefore(b, n) # 0
    <3>1. PICK l : l = CallBefore(b, n)
      OBVIOUS
    <3>2. l \in DOMAIN b /\ l < n /\ b[l].k = "call" /\ b[l].id = b[n].id
      BY <2>1, <3>1, CallBeforeIs
    <3>3. c[n] = [b[n] EXCEPT !.name = b[l].name]
      BY <1>1, <2>1, <3>1
    <3>4. c[n].name = b[l].name
      BY <1>2, <3>3 DEF MessageFields
    <3> QED
      BY <3>2, <3>4
  <2> QED
    BY <1>1, <2>1
<1> QED
  BY <1>1, <1>4, <1>5, <1>6, <1>7

\* What a decoder makes of a conversation a: its messages b are those of a that have a part
\* of the canonical request, and a name that a did not give is the one of an earlier call.
Understood(c, a, b, g) ==
  /\ IsMessages(b) /\ RolesOf(c, b) /\ Follows(a, b, g)
  /\ \A i \in DOMAIN a : a[i].k # "odd" => \E n \in DOMAIN b : g[n] = i
  /\ \A n \in DOMAIN b : b[n].id = a[g[n]].id /\ b[n].sig = a[g[n]].sig
  /\ \A n \in DOMAIN b : b[n].k # "result" => b[n].name = a[g[n]].name
  /\ \A n \in DOMAIN b :
       b[n].name = a[g[n]].name
       \/ \E l \in DOMAIN b : l < n /\ b[l].k = "call" /\ b[l].id = b[n].id /\ b[n].name = b[l].name

\* The canonical names of the fields.
KnownFields(c, f) ==
  IF c = "openai"
  THEN [f EXCEPT !["thinking"] = IF @ = "odd" THEN Absent ELSE @, !["choice"] = OpenAiDecodeChoice(@)]
  ELSE IF c = "anthropic"
  THEN [f EXCEPT !["thinking"] = IF @ = "adaptive" THEN "default" ELSE @, !["choice"] = AnthropicDecodeChoice(@)]
  ELSE [f EXCEPT !["choice"] = ResponsesDecodeChoice(@)]

\* The names are resolved in what the decoder reads.
LEMMA NamesUnderstood ==
  ASSUME NEW c, NEW a, NEW b, IsMessages(b), RolesOf(c, b), NEW g, Reads(a, b, g)
  PROVE  Understood(c, a, ResolveNames(b), g)
<1>1. PICK d : d = ResolveNames(b)
  OBVIOUS
<1>2. /\ IsMessages(d) /\ DOMAIN d = DOMAIN b
      /\ \A n \in DOMAIN b : \A x \in MessageFields \ {"name"} : d[n][x] = b[n][x]
      /\ \A n \in DOMAIN b : b[n].k # "result" => d[n].name = b[n].name
      /\ \A n \in DOMAIN b :
           d[n].name = b[n].name
           \/ \E l \in DOMAIN b : l < n /\ b[l].k = "call" /\ b[l].id = b[n].id /\ d[n].name = b[l].name
  BY <1>1, ResolveNamesIs
<1>3. \A n \in DOMAIN b : /\ d[n].k = b[n].k /\ d[n].id = b[n].id /\ d[n].sig = b[n].sig
                          /\ d[n].role = b[n].role
  BY <1>2 DEF MessageFields
<1>4. RolesOf(c, d)
  BY <1>2, <1>3 DEF RolesOf
<1>5. Follows(a, d, g)
  BY <1>2, <1>3 DEF Reads, Follows
<1>6. \A i \in DOMAIN a : a[i].k # "odd" => \E n \in DOMAIN d : g[n] = i
  BY <1>2 DEF Reads
<1>7. \A n \in DOMAIN d : d[n].id = a[g[n]].id /\ d[n].sig = a[g[n]].sig
  BY <1>2, <1>3 DEF Reads
<1>8. \A n \in DOMAIN d : d[n].k # "result" => d[n].name = a[g[n]].name
  BY <1>2, <1>3 DEF Reads
<1>9. ASSUME NEW n \in DOMAIN d
      PROVE  \/ d[n].name = a[g[n]].name
             \/ \E l \in DOMAIN d : l < n /\ d[l].k = "call" /\ d[l].id = d[n].id /\ d[n].name = d[l].name
  <2>1. CASE d[n].name = b[n].name
    BY <1>2, <2>1 DEF Reads
  <2>2. CASE \E l \in DOMAIN b : l < n /\ b[l].k = "call" /\ b[l].id = b[n].id /\ d[n].name = b[l].name
    <3>1. PICK l \in DOMAIN b : l < n /\ b[l].k = "call" /\ b[l].id = b[n].id /\ d[n].name = b[l].name
      BY <2>2
    <3>2. d[l].name = b[l].name /\ d[l].k = "call" /\ d[l].id = d[n].id
      BY <1>2, <1>3, <3>1
    <3> QED
      BY <1>2, <3>1, <3>2
  <2> QED
    BY <1>2, <2>1, <2>2
<1> QED
  BY <1>1, <1>2, <1>4, <1>5, <1>6, <1>7, <1>8, <1>9 DEF Understood

\* A decoder reads the conversation or refuses the request (decode_request).
LEMMA DecodesTo ==
  ASSUME NEW c \in Formats, NEW a, IsMessages(a), NEW f, DecodeRequest(c, a, f).ok
  PROVE  \E b, issues :
           /\ DecodeRequest(c, a, f) = Canonical(b, KnownFields(c, f), a, f, issues)
           /\ IsMessages(b) /\ RolesOf(c, b) /\ \E g : Reads(a, b, g)
           /\ Odd(a) \/ f["tools"] = "odd" => issues
<1>1. CASE c = "openai"
  <2>1. DecodeRequest(c, a, f) = DecodeOpenAi(a, f)
    BY <1>1, Zenon DEF DecodeRequest
  <2>2. DecodeOpenAi(a, f) = Canonical(OpenAiMessages(a), KnownFields(c, f), a, f, OpenAiIssues(a, f))
    BY <1>1 DEF DecodeOpenAi, KnownFields
  <2>3. Odd(a) \/ f["tools"] = "odd" => OpenAiIssues(a, f)
    BY DEF OpenAiIssues
  <2> QED
    BY <1>1, <2>1, <2>2, <2>3, OpenAiReads, Zenon
<1>2. CASE c = "anthropic"
  <2>1. DecodeRequest(c, a, f) = DecodeAnthropic(a, f)
    BY <1>2, Zenon DEF DecodeRequest
  <2>2. DecodeAnthropic(a, f) = Canonical(AnthropicMessages(a), KnownFields(c, f), a, f, AnthropicIssues(a, f))
    BY <1>2 DEF DecodeAnthropic, KnownFields
  <2>3. Odd(a) \/ f["tools"] = "odd" => AnthropicIssues(a, f)
    BY DEF AnthropicIssues
  <2> QED
    BY <1>2, <2>1, <2>2, <2>3, AnthropicReads, Zenon
<1>3. CASE c = "responses"
  <2>1. DecodeRequest(c, a, f) = DecodeResponses(a, f)
    BY <1>3, Zenon DEF DecodeRequest
  <2>2. \A why : ~Refused(why).ok
    BY DEF Refused
  <2>3. PICK d : d = DecodeResponses(a, f)
    OBVIOUS
  <2>4. d.ok
    BY <2>1, <2>3
  <2>5. /\ ~ResponsesIssues(a, f)
        /\ d = Canonical(ResponsesItems(a), KnownFields(c, f), a, f, FALSE)
    <3>1. KnownFields(c, f) = [f EXCEPT !["choice"] = ResponsesDecodeChoice(@)]
      BY <1>3 DEF KnownFields
    <3>2. PICK items, k : items = ResponsesItems(a) /\ k = KnownFields(c, f)
      OBVIOUS
    <3>3. d = IF UnsupportedField(f) \/ UnsupportedEffort(f) \/ ResponsesIssues(a, f)
              THEN Refused("unsupported")
              ELSE IF \E i \in DOMAIN a : a[i].k \in {"call", "result"} /\ a[i].id = Absent
              THEN Refused("bad_request")
              ELSE IF UnknownCall(ResolveNames(items)) THEN Refused("unsupported")
              ELSE Canonical(items, k, a, f, FALSE)
      BY <2>3, <3>1, <3>2 DEF DecodeResponses
    <3>4. d # Refused("unsupported") /\ d # Refused("bad_request")
      BY <2>2, <2>4
    <3>5. ~ResponsesIssues(a, f) /\ d = Canonical(items, k, a, f, FALSE)
      BY <3>3, <3>4, Zenon
    <3> QED
      BY <3>2, <3>5
  <2>6. ~(Odd(a) \/ f["tools"] = "odd")
    BY <2>5 DEF ResponsesIssues
  <2> QED
    BY <1>3, <2>1, <2>3, <2>5, <2>6, ResponsesReads, Zenon
<1> QED
  BY <1>1, <1>2, <1>3 DEF Formats

CanonFields == {"ok", "msgs", "f", "issues", "raw"}

\* What stands in a canonical request (InternalRequest).
LEMMA DecodedIs ==
  ASSUME NEW c \in Formats, NEW a, IsMessages(a), NEW f, NEW d, d = DecodeRequest(c, a, f), d.ok
  PROVE  /\ DOMAIN d = CanonFields /\ d.f = KnownFields(c, f)
         /\ DOMAIN d.raw = {"msgs", "f"} /\ d.raw.msgs = a /\ d.raw.f = f
         /\ IsMessages(d.msgs) /\ \E g : Understood(c, a, d.msgs, g)
         /\ ~d.issues => ~Odd(a) /\ f["tools"] # "odd" /\ ~UnknownCall(d.msgs)
<1>1. PICK b, issues :
           /\ d = Canonical(b, KnownFields(c, f), a, f, issues)
           /\ IsMessages(b) /\ RolesOf(c, b) /\ \E g : Reads(a, b, g)
           /\ Odd(a) \/ f["tools"] = "odd" => issues
  BY DecodesTo, Zenon
<1>2. DOMAIN d = CanonFields /\ d.f = KnownFields(c, f) /\ d.msgs = ResolveNames(b)
  BY <1>1 DEF Canonical, CanonFields
<1>3. d.raw = [msgs |-> a, f |-> f]
  BY <1>1 DEF Canonical
<1>4. d.issues <=> issues \/ UnknownCall(ResolveNames(b))
  <2>1. PICK u : u = (issues \/ UnknownCall(ResolveNames(b)))
    OBVIOUS
  <2>2. d.issues = u
    BY <1>1, <2>1 DEF Canonical
  <2> QED
    BY <2>1, <2>2, Zenon
<1>5. \E g : Understood(c, a, d.msgs, g)
  BY <1>1, <1>2, NamesUnderstood
<1>6. IsMessages(d.msgs)
  BY <1>5 DEF Understood
<1>7. ~d.issues => ~Odd(a) /\ f["tools"] # "odd" /\ ~UnknownCall(d.msgs)
  BY <1>1, <1>2, <1>4, Zenon
<1>8. DOMAIN d.raw = {"msgs", "f"} /\ d.raw.msgs = a /\ d.raw.f = f
  BY <1>3
<1> QED
  BY <1>2, <1>5, <1>6, <1>7, <1>8

-----------------------------------------------------------------------------
(* A request for one target (apply_portability, hydrate_opaque_state,      *)
(* apply_target_overrides).                                                *)

\* The content of a is in b with its names and roles.
KeptIn(a, b, g) ==
  /\ IsMessages(b) /\ Follows(a, b, g) /\ Whole(a, b, g)
  /\ \A n \in DOMAIN b : /\ b[n].id = a[g[n]].id /\ b[n].name = a[g[n]].name
                         /\ b[n].role = a[g[n]].role

\* The signatures of calls are some that the target may have.
SignedIn(t, msgs) == \A n \in DOMAIN msgs : SignedAtHome(t, msgs[n])

\* A canonical request, and what of it only the messages may tell apart.
IsCanon(r) ==
  /\ DOMAIN r = CanonFields /\ DOMAIN r.raw = {"msgs", "f"}
  /\ IsMessages(r.msgs) /\ IsMessages(r.raw.msgs)
SameButMessages(d, r) == r.f = d.f /\ r.issues = d.issues /\ r.raw.f = d.raw.f

\* A request without its thoughts (strip_nonportable_state).
LEMMA StripIs ==
  ASSUME NEW t, NEW d, IsCanon(d), NEW r, r = StripNonportable(t, d)
  PROVE  /\ IsCanon(r) /\ SameButMessages(d, r) /\ r.raw.msgs = StripRaw(d.raw.msgs)
         /\ ~Holds(r.msgs, "think") /\ SignedIn(t, r.msgs)
         /\ \E g : KeptIn(d.msgs, r.msgs, g)
<1>1. PICK S, a : a = d.msgs /\ S = {i \in DOMAIN a : a[i].k # "think"}
  OBVIOUS
<1>2. S \in SUBSET DOMAIN a /\ IsMessages(a)
  BY <1>1 DEF IsCanon
<1>3. PICK b : b = Only(a, S)
  OBVIOUS
<1>4. IsMessages(b)
  BY <1>2, <1>3, OnlyTakes
<1>5. PICK g : Taken(a, b, S, g)
  BY <1>2, <1>3, OnlyTakes
<1>6. PICK P : P = Placeholder(t)
  OBVIOUS
<1>7. PICK c : c = [n \in DOMAIN b |->
                      IF b[n].k = "call"
                      THEN [b[n] EXCEPT !.sig = IF StoredFor(t, b[n]) = "incompatible" THEN P ELSE Absent]
                      ELSE b[n]]
  OBVIOUS
<1>8. r = [d EXCEPT !.msgs = c, !.raw.msgs = StripRaw(@)]
  BY <1>1, <1>3, <1>6, <1>7 DEF StripNonportable
<1>9. /\ DOMAIN r = CanonFields /\ r.msgs = c /\ r.f = d.f /\ r.issues = d.issues
      /\ DOMAIN r.raw = {"msgs", "f"} /\ r.raw.msgs = StripRaw(d.raw.msgs) /\ r.raw.f = d.raw.f
  BY <1>8 DEF IsCanon, CanonFields
<1>10. \A n \in DOMAIN b : DOMAIN b[n] = MessageFields
  BY <1>4 DEF IsMessages
<1>11. \A n \in DOMAIN b : /\ DOMAIN c[n] = MessageFields
                           /\ c[n].k = b[n].k /\ c[n].id = b[n].id /\ c[n].name = b[n].name
                           /\ c[n].role = b[n].role
                           /\ b[n].k = "call" => c[n].sig \in {P, Absent}
  <2> TAKE n \in DOMAIN b
  <2>1. CASE b[n].k = "call"
    <3>1. c[n] = [b[n] EXCEPT !.sig = IF StoredFor(t, b[n]) = "incompatible" THEN P ELSE Absent]
      BY <1>7, <2>1
    <3> QED
      BY <1>10, <3>1 DEF MessageFields
  <2>2. CASE b[n].k # "call"
    BY <1>7, <1>10, <2>2
  <2> QED
    BY <2>1, <2>2
<1>12. DOMAIN c = DOMAIN b
  BY <1>7
<1>13. IsMessages(c)
  BY <1>4, <1>11, <1>12 DEF IsMessages
<1>14. Follows(a, b, g) /\ Whole(a, b, g)
  BY <1>1, <1>5, TakenFollows DEF Content
<1>15. Follows(a, c, g) /\ Whole(a, c, g)
  BY <1>11, <1>12, <1>14 DEF Follows, Whole
<1>16. \A n \in DOMAIN c : c[n].id = a[g[n]].id /\ c[n].name = a[g[n]].name /\ c[n].role = a[g[n]].role
  BY <1>5, <1>11, <1>12 DEF Taken
<1>17. KeptIn(a, c, g)
  BY <1>13, <1>15, <1>16 DEF KeptIn
<1>18. ~Holds(c, "think")
  <2>1. \A n \in DOMAIN b : b[n] = a[g[n]] /\ g[n] \in S
    BY <1>5 DEF Taken
  <2>2. \A n \in DOMAIN b : b[n].k # "think"
    BY <1>1, <2>1
  <2> QED
    BY <1>11, <1>12, <2>2 DEF Holds
<1>19. SignedIn(t, c)
  <2>1. P = Absent \/ (P = "placeholder" /\ t.wire = "gemini" /\ t.three)
    BY <1>6 DEF Placeholder
  <2>2. ASSUME NEW n \in DOMAIN c, c[n].k = "call", c[n].sig # Absent
        PROVE  c[n].sig = "placeholder" /\ t.wire = "gemini" /\ t.three
    <3>1. c[n].sig = P
      BY <1>11, <1>12, <2>2
    <3> QED
      BY <2>1, <2>2, <3>1, Zenon
  <2> QED
    BY <2>2, Zenon DEF SignedIn, SignedAtHome
<1>20. IsMessages(StripRaw(d.raw.msgs))
  BY OnlyTakes DEF StripRaw, IsCanon
<1> QED
  BY <1>1, <1>9, <1>13, <1>17, <1>18, <1>19, <1>20 DEF IsCanon, SameButMessages

\* A body that is passed on loses its thoughts only (strip_opaque_raw_body).
LEMMA StripRawIs ==
  ASSUME NEW a, IsMessages(a)
  PROVE  ~Holds(StripRaw(a), "think") /\ \E g : /\ KeptIn(a, StripRaw(a), g)
                                               /\ \A n \in DOMAIN StripRaw(a) : StripRaw(a)[n] = a[g[n]]
<1>1. PICK S, b : S = {i \in DOMAIN a : a[i].k # "think"} /\ b = StripRaw(a)
  OBVIOUS
<1>2. S \in SUBSET DOMAIN a /\ b = Only(a, S)
  BY <1>1 DEF StripRaw
<1>3. IsMessages(b)
  BY <1>2, OnlyTakes
<1>4. PICK g : Taken(a, b, S, g)
  BY <1>2, OnlyTakes
<1>5. Follows(a, b, g) /\ Whole(a, b, g)
  BY <1>1, <1>2, <1>4, TakenFollows DEF Content
<1>6. \A n \in DOMAIN b : b[n] = a[g[n]]
  BY <1>4 DEF Taken
<1>7. KeptIn(a, b, g)
  BY <1>3, <1>5, <1>6 DEF KeptIn
<1>8. ~Holds(b, "think")
  BY <1>1, <1>4 DEF Holds, Taken
<1> QED
  BY <1>1, <1>6, <1>7, <1>8

\* Stored signatures are restored where they belong (hydrate_opaque_state).
LEMMA HydrateIs ==
  ASSUME NEW t, NEW d, IsCanon(d), SignedIn(t, d.msgs), NEW r, r = Hydrate(t, d)
  PROVE  /\ IsCanon(r) /\ SameButMessages(d, r) /\ r.raw = d.raw
         /\ DOMAIN r.msgs = DOMAIN d.msgs /\ SignedIn(t, r.msgs)
         /\ \A n \in DOMAIN d.msgs : /\ r.msgs[n].k = d.msgs[n].k /\ r.msgs[n].id = d.msgs[n].id
                                     /\ r.msgs[n].name = d.msgs[n].name /\ r.msgs[n].role = d.msgs[n].role
<1>1. PICK a : a = d.msgs
  OBVIOUS
<1>2. PICK c : c = [i \in DOMAIN a |->
                     IF StoredFor(t, a[i]) = "compatible" /\ a[i].sig = Absent
                     THEN [a[i] EXCEPT !.sig = plan.stored.sig] ELSE a[i]]
  OBVIOUS
<1>3. r = [d EXCEPT !.msgs = c]
  BY <1>1, <1>2 DEF Hydrate
<1>4. DOMAIN r = CanonFields /\ r.msgs = c /\ r.f = d.f /\ r.issues = d.issues /\ r.raw = d.raw
  BY <1>3 DEF IsCanon, CanonFields
<1>5. \A n \in DOMAIN a : DOMAIN a[n] = MessageFields
  BY <1>1 DEF IsCanon, IsMessages
<1>6. ASSUME NEW n \in DOMAIN a
      PROVE  /\ DOMAIN c[n] = MessageFields
             /\ c[n].k = a[n].k /\ c[n].id = a[n].id /\ c[n].name = a[n].name /\ c[n].role = a[n].role
             /\ SignedAtHome(t, c[n])
  <2>1. SignedAtHome(t, a[n])
    BY <1>1 DEF SignedIn
  <2>2. CASE StoredFor(t, a[n]) = "compatible" /\ a[n].sig = Absent
    <3>1. c[n] = [a[n] EXCEPT !.sig = plan.stored.sig]
      BY <1>2, <2>2
    <3>2. /\ DOMAIN c[n] = MessageFields
          /\ c[n].k = a[n].k /\ c[n].id = a[n].id /\ c[n].name = a[n].name /\ c[n].role = a[n].role
          /\ c[n].sig = plan.stored.sig
      BY <1>5, <3>1 DEF MessageFields
    <3>3. /\ plan.stored # Absent /\ plan.stored.name = a[n].name
          /\ plan.stored.provider = t.provider /\ plan.stored.model = t.model
      BY <2>2 DEF StoredFor
    <3> QED
      BY <3>2, <3>3 DEF SignedAtHome
  <2>3. CASE ~(StoredFor(t, a[n]) = "compatible" /\ a[n].sig = Absent)
    <3>1. c[n] = a[n]
      BY <1>2, <2>3
    <3> QED
      BY <1>5, <2>1, <3>1
  <2> QED
    BY <2>2, <2>3
<1>7. DOMAIN c = DOMAIN a
  BY <1>2
<1>8. IsMessages(c)
  BY <1>1, <1>6, <1>7 DEF IsCanon, IsMessages
<1>9. SignedIn(t, c)
  BY <1>6, <1>7 DEF SignedIn
<1> QED
  BY <1>1, <1>4, <1>6, <1>7, <1>8, <1>9 DEF IsCanon, SameButMessages

\* The same content has the same thoughts, or none.
LEMMA NoThoughtsFollow ==
  ASSUME NEW a, NEW b, NEW g, Follows(a, b, g), ~Holds(a, "think")
  PROVE  ~Holds(b, "think")
BY DEF Follows, Holds

\* A target's own parameters replace the client's (apply_target_overrides).
LEMMA OverridesAre ==
  ASSUME NEW t, IsTarget(t), NEW d, IsCanon(d), DOMAIN d.f = FieldNames, DOMAIN d.raw.f = FieldNames,
         NEW r, r = ApplyOverrides(t, d)
  PROVE  /\ IsCanon(r) /\ r.msgs = d.msgs /\ r.issues = d.issues /\ r.raw.msgs = d.raw.msgs
         /\ DOMAIN r.f = FieldNames /\ DOMAIN r.raw.f = FieldNames
         /\ \A x \in FieldNames : ~Overridden(t, x) => r.f[x] = d.f[x] /\ r.raw.f[x] = d.raw.f[x]
         /\ \A x \in Ranged : Overridden(t, x) => r.f[x] = t.override[2] /\ r.raw.f[x] = t.override[2]
<1>1. CASE t.override = Absent
  <2>1. r = d
    BY <1>1 DEF ApplyOverrides
  <2>2. \A x : ~Overridden(t, x)
    BY <1>1 DEF Overridden
  <2> QED
    BY <2>1, <2>2
<1>2. CASE t.override # Absent
  <2>1. PICK x, v : x = t.override[1] /\ v = t.override[2]
    OBVIOUS
  <2>2. x \in Overridable
    BY <1>2, <2>1 DEF IsTarget
  <2>3. x \in FieldNames
    BY <2>2 DEF Overridable, FieldNames
  <2>4. PICK f, raw : /\ f = [d.f EXCEPT ![x] = v]
                      /\ raw = IF client = "anthropic" /\ x = "stop" THEN d.raw.f
                               ELSE [d.raw.f EXCEPT ![x] = v]
    OBVIOUS
  <2>5. r = [d EXCEPT !.f = f, !.raw.f = raw]
    BY <1>2, <2>1, <2>4 DEF ApplyOverrides
  <2>6. /\ DOMAIN r = CanonFields /\ r.f = f /\ r.msgs = d.msgs /\ r.issues = d.issues
        /\ DOMAIN r.raw = {"msgs", "f"} /\ r.raw.f = raw /\ r.raw.msgs = d.raw.msgs
    BY <2>5 DEF IsCanon, CanonFields
  <2>7. DOMAIN f = FieldNames /\ DOMAIN raw = FieldNames
    BY <2>4
  <2>8. \A y \in FieldNames : y # x => f[y] = d.f[y] /\ raw[y] = d.raw.f[y]
    BY <2>4
  <2>9. x \in Ranged => f[x] = v /\ raw[x] = v
    BY <2>3, <2>4 DEF Ranged
  <2>10. \A y : Overridden(t, y) <=> y = x
    BY <1>2, <2>1 DEF Overridden
  <2> QED
    BY <2>1, <2>6, <2>7, <2>8, <2>9, <2>10 DEF IsCanon
<1> QED
  BY <1>1, <1>2

\* The request for a target, from the canonical one (execute, one attempt).
PreparedOf(t, d, port) ==
  ApplyOverrides(t, Hydrate(t, IF port = "strip" THEN StripNonportable(t, d) ELSE d))

\* What the preparation leaves as it was, and what it takes out.
LEMMA PreparedIs ==
  ASSUME NEW t, IsTarget(t), NEW d, IsCanon(d), DOMAIN d.f = FieldNames, DOMAIN d.raw.f = FieldNames,
         SignedIn(t, d.msgs), NEW port, NEW r, r = PreparedOf(t, d, port)
  PROVE  /\ IsCanon(r) /\ r.issues = d.issues /\ SignedIn(t, r.msgs)
         /\ \E g : KeptIn(d.msgs, r.msgs, g)
         /\ r.raw.msgs = IF port = "strip" THEN StripRaw(d.raw.msgs) ELSE d.raw.msgs
         /\ port = "strip" => ~Holds(r.msgs, "think")
         /\ DOMAIN r.f = FieldNames /\ DOMAIN r.raw.f = FieldNames
         /\ \A x \in FieldNames : ~Overridden(t, x) => r.f[x] = d.f[x] /\ r.raw.f[x] = d.raw.f[x]
         /\ \A x \in Ranged : Overridden(t, x) => r.f[x] = t.override[2] /\ r.raw.f[x] = t.override[2]
<1>1. PICK h : h = IF port = "strip" THEN StripNonportable(t, d) ELSE d
  OBVIOUS
<1>2. /\ IsCanon(h) /\ SameButMessages(d, h) /\ SignedIn(t, h.msgs)
      /\ h.raw.msgs = IF port = "strip" THEN StripRaw(d.raw.msgs) ELSE d.raw.msgs
      /\ port = "strip" => ~Holds(h.msgs, "think")
      /\ \E g : KeptIn(d.msgs, h.msgs, g)
  <2>1. CASE port = "strip"
    BY <1>1, <2>1, StripIs
  <2>2. CASE port # "strip"
    <3>1. h = d
      BY <1>1, <2>2
    <3>2. PICK g : g = [n \in DOMAIN d.msgs |-> n]
      OBVIOUS
    <3>3. KeptIn(d.msgs, d.msgs, g)
      BY <3>2 DEF KeptIn, Follows, Whole, IsCanon
    <3> QED
      BY <2>2, <3>1, <3>3 DEF SameButMessages
  <2> QED
    BY <2>1, <2>2
<1>3. PICK y : y = Hydrate(t, h)
  OBVIOUS
<1>4. /\ IsCanon(y) /\ SameButMessages(h, y) /\ y.raw = h.raw
      /\ DOMAIN y.msgs = DOMAIN h.msgs /\ SignedIn(t, y.msgs)
      /\ \A n \in DOMAIN h.msgs : /\ y.msgs[n].k = h.msgs[n].k /\ y.msgs[n].id = h.msgs[n].id
                                  /\ y.msgs[n].name = h.msgs[n].name /\ y.msgs[n].role = h.msgs[n].role
  BY <1>2, <1>3, HydrateIs
<1>5. PICK g : KeptIn(d.msgs, h.msgs, g)
  BY <1>2
<1>6. KeptIn(d.msgs, y.msgs, g)
  <2>1. IsMessages(y.msgs)
    BY <1>4 DEF IsCanon
  <2>2. PICK a, b, c : a = d.msgs /\ b = h.msgs /\ c = y.msgs
    OBVIOUS
  <2>3. Follows(a, c, g) /\ Whole(a, c, g)
    BY <1>4, <1>5, <2>2 DEF KeptIn, Follows, Whole
  <2>4. \A n \in DOMAIN c : c[n].id = a[g[n]].id /\ c[n].name = a[g[n]].name /\ c[n].role = a[g[n]].role
    BY <1>4, <1>5, <2>2 DEF KeptIn
  <2> QED
    BY <2>1, <2>2, <2>3, <2>4 DEF KeptIn
<1>7. port = "strip" => ~Holds(y.msgs, "think")
  BY <1>2, <1>4 DEF Holds
<1>8. y.f = d.f /\ y.raw.f = d.raw.f /\ y.issues = d.issues
  BY <1>2, <1>4 DEF SameButMessages
<1>9. r = ApplyOverrides(t, y)
  BY <1>1, <1>3 DEF PreparedOf
<1>10. /\ IsCanon(r) /\ r.msgs = y.msgs /\ r.issues = y.issues /\ r.raw.msgs = y.raw.msgs
       /\ DOMAIN r.f = FieldNames /\ DOMAIN r.raw.f = FieldNames
       /\ \A x \in FieldNames : ~Overridden(t, x) => r.f[x] = y.f[x] /\ r.raw.f[x] = y.raw.f[x]
       /\ \A x \in Ranged : Overridden(t, x) => r.f[x] = t.override[2] /\ r.raw.f[x] = t.override[2]
  BY <1>4, <1>8, <1>9, OverridesAre
<1> QED
  BY <1>2, <1>4, <1>6, <1>7, <1>8, <1>10

-----------------------------------------------------------------------------
(* The messages of a body (build_body, normalize_passthrough_body).        *)

\* b carries messages of a to t: Gemini knows no ids, and every format the names.
CarriedTo(t, a, b, g) ==
  /\ IsMessages(b) /\ Follows(a, b, g) /\ SignedIn(t, b)
  /\ \A n \in DOMAIN b : /\ t.wire # "gemini" => b[n].id = a[g[n]].id
                         /\ a[g[n]].name # Absent => b[n].name = a[g[n]].name

CallsKept(a, b, g) == \A i \in DOMAIN a : a[i].k = "call" => \E n \in DOMAIN b : g[n] = i

\* A list that is taken from another and rewritten follows it.
LEMMA RewrittenFollows ==
  ASSUME NEW a, NEW b, NEW c, NEW S \in SUBSET DOMAIN a, NEW g, Taken(a, b, S, g), IsMessages(b),
         DOMAIN c = DOMAIN b, \A n \in DOMAIN b : DOMAIN c[n] = MessageFields /\ c[n].k = b[n].k
  PROVE  /\ IsMessages(c) /\ Follows(a, c, g)
         /\ (\A i \in DOMAIN a : a[i].k \in Content => i \in S) => Whole(a, c, g)
<1>1. IsMessages(c)
  BY DEF IsMessages
<1>2. /\ Follows(a, b, g)
      /\ (\A i \in DOMAIN a : a[i].k \in Content => i \in S) => Whole(a, b, g)
  BY TakenFollows
<1>3. Follows(a, c, g)
  BY <1>2 DEF Follows
<1>4. Whole(a, b, g) => Whole(a, c, g)
  BY DEF Whole
<1> QED
  BY <1>1, <1>2, <1>3, <1>4

\* A list is taken from itself.
LEMMA AllTaken ==
  ASSUME NEW a
  PROVE  Taken(a, a, DOMAIN a, [n \in DOMAIN a |-> n])
BY DEF Taken

\* An OpenAI body: what its messages may carry, unsigned (build_messages).
LEMMA OpenAiCarriesOn ==
  ASSUME NEW t, t.wire = "openai", NEW r, IsMessages(r.msgs), NEW b, b = OpenAiBody(t, r)
  PROVE  \E g : /\ CarriedTo(t, r.msgs, b.msgs, g)
                /\ \A c : c # "anthropic" /\ RolesOf(c, r.msgs) => Whole(r.msgs, b.msgs, g)
                /\ \A c : RolesOf(c, r.msgs) => CallsKept(r.msgs, b.msgs, g)
<1>1. PICK a, S : a = r.msgs /\ S = {i \in DOMAIN a : OpenAiCarries(a[i])}
  OBVIOUS
<1>2. PICK m, c : /\ m = Only(a, S)
                  /\ c = [i \in DOMAIN m |-> [Unsigned(m[i]) EXCEPT !.err = FALSE]]
  OBVIOUS
<1>3. b.msgs = c
  BY <1>1, <1>2 DEF OpenAiBody, Body
<1>4. S \in SUBSET DOMAIN a /\ IsMessages(a)
  BY <1>1
<1>5. IsMessages(m)
  BY <1>2, <1>4, OnlyTakes
<1>6. PICK g : Taken(a, m, S, g)
  BY <1>2, <1>4, OnlyTakes
<1>7. \A n \in DOMAIN m : DOMAIN m[n] = MessageFields
  BY <1>5 DEF IsMessages
<1>8. \A n \in DOMAIN m : /\ DOMAIN c[n] = MessageFields /\ c[n].k = m[n].k
                          /\ c[n].id = m[n].id /\ c[n].name = m[n].name /\ c[n].sig = Absent
  BY <1>2, <1>7 DEF Unsigned, MessageFields
<1>9. DOMAIN c = DOMAIN m
  BY <1>2
<1>10. /\ IsMessages(c) /\ Follows(a, c, g)
       /\ (\A i \in DOMAIN a : a[i].k \in Content => i \in S) => Whole(a, c, g)
  BY <1>4, <1>5, <1>6, <1>8, <1>9, RewrittenFollows
<1>11. SignedIn(t, c)
  BY <1>8, <1>9 DEF SignedIn, SignedAtHome
<1>12. CarriedTo(t, a, c, g)
  BY <1>6, <1>8, <1>9, <1>10, <1>11 DEF CarriedTo, Taken
<1>13. ASSUME NEW f, f # "anthropic", RolesOf(f, a) PROVE Whole(a, c, g)
  <2>1. \A i \in DOMAIN a : a[i].k \in Content => i \in S
    BY <1>1, <1>13 DEF RolesOf, Content, OpenAiCarries
  <2> QED
    BY <1>10, <2>1
<1>14. ASSUME NEW f, RolesOf(f, a) PROVE CallsKept(a, c, g)
  <2>1. \A i \in DOMAIN a : a[i].k = "call" => i \in S
    BY <1>1, <1>14 DEF RolesOf, OpenAiCarries
  <2> QED
    BY <1>6, <1>9, <2>1 DEF Taken, CallsKept
<1> QED
  BY <1>1, <1>3, <1>12, <1>13, <1>14

\* A Responses body: every message as an item, unsigned (input_items).
LEMMA ResponsesCarriesOn ==
  ASSUME NEW t, t.wire = "responses", NEW r, IsMessages(r.msgs), NEW b, b = ResponsesBody(t, r), b.ok
  PROVE  \E g : CarriedTo(t, r.msgs, b.msgs, g) /\ Whole(r.msgs, b.msgs, g)
<1>1. PICK a : a = r.msgs
  OBVIOUS
<1>2. PICK c : c = [i \in DOMAIN a |-> [Unsigned(a[i]) EXCEPT !.err = FALSE]]
  OBVIOUS
<1>3. b.msgs = c
  <2>1. ~BadBody.ok
    BY DEF BadBody
  <2>2. b # BadBody
    BY <2>1
  <2>3. PICK f : b = ResponsesPolicy(t, r, c, f)
    BY <1>1, <1>2, <2>2 DEF ResponsesBody
  <2>4. PICK h : b = Body(c, h)
    BY <2>2, <2>3 DEF ResponsesPolicy
  <2> QED
    BY <2>4 DEF Body
<1>4. PICK g : g = [n \in DOMAIN a |-> n]
  OBVIOUS
<1>5. Taken(a, a, DOMAIN a, g)
  BY <1>4, AllTaken
<1>6. \A n \in DOMAIN a : DOMAIN a[n] = MessageFields
  BY <1>1 DEF IsMessages
<1>7. \A n \in DOMAIN a : /\ DOMAIN c[n] = MessageFields /\ c[n].k = a[n].k
                          /\ c[n].id = a[n].id /\ c[n].name = a[n].name /\ c[n].sig = Absent
  BY <1>2, <1>6 DEF Unsigned, MessageFields
<1>8. DOMAIN c = DOMAIN a
  BY <1>2
<1>9. IsMessages(c) /\ Follows(a, c, g) /\ Whole(a, c, g)
  BY <1>1, <1>5, <1>7, <1>8, RewrittenFollows
<1>10. SignedIn(t, c)
  BY <1>7, <1>8 DEF SignedIn, SignedAtHome
<1>11. CarriedTo(t, a, c, g)
  BY <1>4, <1>7, <1>8, <1>9, <1>10 DEF CarriedTo
<1> QED
  BY <1>1, <1>3, <1>9, <1>11

\* A Messages body: a thought without a signature is left out (content_blocks).
LEMMA AnthropicCarriesOn ==
  ASSUME NEW t, t.wire = "anthropic", NEW r, IsMessages(r.msgs), NEW b, b = AnthropicBody(t, r)
  PROVE  \E g : CarriedTo(t, r.msgs, b.msgs, g) /\ Whole(r.msgs, b.msgs, g)
<1>1. PICK a, S : a = r.msgs /\ S = {i \in DOMAIN a : AnthropicCarries(a[i])}
  OBVIOUS
<1>2. PICK m, c : /\ m = Only(a, S)
                  /\ c = [i \in DOMAIN m |-> IF m[i].k = "call" THEN Unsigned(m[i]) ELSE m[i]]
  OBVIOUS
<1>3. b.msgs = c
  BY <1>1, <1>2 DEF AnthropicBody, Body
<1>4. S \in SUBSET DOMAIN a /\ IsMessages(a)
  BY <1>1
<1>5. IsMessages(m)
  BY <1>2, <1>4, OnlyTakes
<1>6. PICK g : Taken(a, m, S, g)
  BY <1>2, <1>4, OnlyTakes
<1>7. \A n \in DOMAIN m : DOMAIN m[n] = MessageFields
  BY <1>5 DEF IsMessages
<1>8. \A n \in DOMAIN m : /\ DOMAIN c[n] = MessageFields /\ c[n].k = m[n].k
                          /\ c[n].id = m[n].id /\ c[n].name = m[n].name
                          /\ m[n].k = "call" => c[n].sig = Absent
  BY <1>2, <1>7 DEF Unsigned, MessageFields
<1>9. DOMAIN c = DOMAIN m
  BY <1>2
<1>10. \A i \in DOMAIN a : a[i].k \in Content => i \in S
  BY <1>1 DEF Content, AnthropicCarries
<1>11. IsMessages(c) /\ Follows(a, c, g) /\ Whole(a, c, g)
  BY <1>4, <1>5, <1>6, <1>8, <1>9, <1>10, RewrittenFollows
<1>12. SignedIn(t, c)
  BY <1>8, <1>9 DEF SignedIn, SignedAtHome
<1>13. CarriedTo(t, a, c, g)
  BY <1>6, <1>8, <1>9, <1>11, <1>12 DEF CarriedTo, Taken
<1> QED
  BY <1>1, <1>3, <1>11, <1>13

\* A Gemini body: calls and results by name, signatures as they were (encode_parts).
LEMMA GeminiCarriesOn ==
  ASSUME NEW t, t.wire = "gemini", NEW r, IsMessages(r.msgs), SignedIn(t, r.msgs),
         \A n \in DOMAIN r.msgs : r.msgs[n].k = "call" => r.msgs[n].name # Absent,
         NEW b, b = GeminiBody(t, r)
  PROVE  \E g : CarriedTo(t, r.msgs, b.msgs, g) /\ Whole(r.msgs, b.msgs, g)
<1>1. PICK a : a = r.msgs
  OBVIOUS
<1>2. PICK c : c = [i \in DOMAIN a |-> GeminiPart(a[i])]
  OBVIOUS
<1>3. b.msgs = c
  BY <1>1, <1>2 DEF GeminiBody, Body
<1>4. PICK g : g = [n \in DOMAIN a |-> n]
  OBVIOUS
<1>5. Taken(a, a, DOMAIN a, g)
  BY <1>4, AllTaken
<1>6. \A n \in DOMAIN a : DOMAIN a[n] = MessageFields
  BY <1>1 DEF IsMessages
<1>7. \A n \in DOMAIN a : /\ DOMAIN c[n] = MessageFields /\ c[n].k = a[n].k
                          /\ a[n].name # Absent => c[n].name = a[n].name
                          /\ c[n].sig = a[n].sig
  BY <1>2, <1>6 DEF GeminiPart, MessageFields
<1>8. DOMAIN c = DOMAIN a
  BY <1>2
<1>9. IsMessages(c) /\ Follows(a, c, g) /\ Whole(a, c, g)
  BY <1>1, <1>5, <1>7, <1>8, RewrittenFollows
<1>10. ASSUME NEW n \in DOMAIN c PROVE SignedAtHome(t, c[n])
  <2>1. SignedAtHome(t, a[n])
    BY <1>1, <1>8 DEF SignedIn
  <2>2. a[n].k = "call" => c[n].name = a[n].name
    BY <1>1, <1>7, <1>8
  <2>3. c[n].k = a[n].k /\ c[n].sig = a[n].sig
    BY <1>7, <1>8
  <2> QED
    BY <2>1, <2>2, <2>3 DEF SignedAtHome
<1>11. SignedIn(t, c)
  BY <1>10 DEF SignedIn
<1>12. CarriedTo(t, a, c, g)
  BY <1>4, <1>7, <1>8, <1>9, <1>11 DEF CarriedTo
<1> QED
  BY <1>1, <1>3, <1>9, <1>12

\* A body that is built carries the messages of its request; it is whole but for the
\* results that an Anthropic client gives to OpenAI (build_body of the adapters).
LEMMA BuiltCarriesOn ==
  ASSUME NEW t, IsTarget(t), NEW r, IsMessages(r.msgs), SignedIn(t, r.msgs),
         \A n \in DOMAIN r.msgs : r.msgs[n].k = "call" => r.msgs[n].name # Absent,
         NEW c, RolesOf(c, r.msgs), NEW b, b = BuildBody(t, r), b.ok
  PROVE  \E g : /\ CarriedTo(t, r.msgs, b.msgs, g)
                /\ ~(c = "anthropic" /\ t.wire = "openai") => Whole(r.msgs, b.msgs, g)
                /\ CallsKept(r.msgs, b.msgs, g)
<1>0. \A g : Whole(r.msgs, b.msgs, g) => CallsKept(r.msgs, b.msgs, g)
  BY DEF Whole, CallsKept, Content
<1>1. CASE t.wire = "openai"
  <2>1. b = OpenAiBody(t, r)
    BY <1>1, Zenon DEF BuildBody
  <2>2. PICK g : /\ CarriedTo(t, r.msgs, b.msgs, g)
                 /\ \A d : d # "anthropic" /\ RolesOf(d, r.msgs) => Whole(r.msgs, b.msgs, g)
                 /\ \A d : RolesOf(d, r.msgs) => CallsKept(r.msgs, b.msgs, g)
    BY <1>1, <2>1, OpenAiCarriesOn
  <2> QED
    BY <1>1, <2>2
<1>2. CASE t.wire = "responses"
  <2>1. b = ResponsesBody(t, r)
    BY <1>2, Zenon DEF BuildBody
  <2> QED
    BY <1>0, <1>2, <2>1, ResponsesCarriesOn
<1>3. CASE t.wire = "anthropic"
  <2>1. b = AnthropicBody(t, r)
    BY <1>3, Zenon DEF BuildBody
  <2> QED
    BY <1>0, <1>3, <2>1, AnthropicCarriesOn
<1>4. CASE t.wire = "gemini"
  <2>1. b = GeminiBody(t, r)
    BY <1>4, Zenon DEF BuildBody
  <2> QED
    BY <1>0, <1>4, <2>1, GeminiCarriesOn
<1> QED
  BY <1>1, <1>2, <1>3, <1>4 DEF IsTarget

\* A body that is passed on has the client's messages (normalize_passthrough_body).
LEMMA PassedOn ==
  ASSUME NEW t, t.wire \in Formats, NEW r, NEW b, b = PassBody(t, r), b.ok
  PROVE  b.msgs = r.raw.msgs
<1>0. ~BadBody.ok
  BY DEF BadBody
<1>1. CASE t.wire = "responses"
  <2>1. b = ResponsesPolicy(t, r, r.raw.msgs, r.raw.f)
    BY <1>1, Zenon DEF PassBody, ResponsesPass
  <2>2. PICK h : b = Body(r.raw.msgs, h)
    BY <1>0, <2>1 DEF ResponsesPolicy
  <2> QED
    BY <2>2 DEF Body
<1>2. CASE t.wire = "openai"
  <2>1. b = OpenAiPass(t, r)
    BY <1>2, Zenon DEF PassBody
  <2> QED
    BY <2>1 DEF OpenAiPass, Body
<1>3. CASE t.wire = "anthropic"
  <2>1. b = AnthropicPass(t, r)
    BY <1>3, Zenon DEF PassBody
  <2>2. PICK h : b = Body(r.raw.msgs, h)
    BY <1>0, <2>1 DEF AnthropicPass
  <2> QED
    BY <2>2 DEF Body
<1> QED
  BY <1>1, <1>2, <1>3 DEF Formats

-----------------------------------------------------------------------------
(* One attempt (execute): what is sent, from what the client said.          *)

\* The request is the one that the decoder made of what the client said.
AsDecoded ==
  /\ client \in Formats /\ chat \in Seq(ChatMessages(client))
  /\ DOMAIN asked = FieldNames
  /\ canon = DecodeRequest(client, chat, asked) /\ canon.ok

\* The canonical request has the conversation, with calls that have names and no signatures.
LEMMA CanonIs ==
  ASSUME AsDecoded
  PROVE  /\ IsCanon(canon) /\ canon.raw.msgs = chat /\ canon.raw.f = asked
         /\ canon.f = KnownFields(client, asked) /\ DOMAIN canon.f = FieldNames
         /\ IsMessages(chat) /\ \E g : Understood(client, chat, canon.msgs, g)
         /\ \A n \in DOMAIN canon.msgs :
              canon.msgs[n].k = "call" => canon.msgs[n].sig = Absent /\ canon.msgs[n].name \in {"f", "g"}
         /\ InlineOpaque(canon) <=> Holds(chat, "think")
         /\ ~canon.issues => ~Odd(chat) /\ asked["tools"] # "odd" /\ ~UnknownCall(canon.msgs)
         /\ \A i \in DOMAIN chat : Spoken(client, chat[i])
<1>1. IsMessages(chat) /\ \A i \in DOMAIN chat : Spoken(client, chat[i])
  BY ChatIsList DEF AsDecoded
<1>2. PICK a, f, d, c : a = chat /\ f = asked /\ d = canon /\ c = client
  OBVIOUS
<1>3. c \in Formats /\ IsMessages(a) /\ d = DecodeRequest(c, a, f) /\ d.ok
  BY <1>1, <1>2 DEF AsDecoded
<1>4. /\ DOMAIN d = CanonFields /\ d.f = KnownFields(c, f)
      /\ DOMAIN d.raw = {"msgs", "f"} /\ d.raw.msgs = a /\ d.raw.f = f
      /\ IsMessages(d.msgs) /\ \E g : Understood(c, a, d.msgs, g)
      /\ ~d.issues => ~Odd(a) /\ f["tools"] # "odd" /\ ~UnknownCall(d.msgs)
  BY <1>3, DecodedIs
<1>5. IsCanon(d)
  BY <1>3, <1>4 DEF IsCanon
<1>6. DOMAIN KnownFields(c, f) = FieldNames
  BY <1>2 DEF KnownFields, AsDecoded
<1>7. PICK g : Understood(c, a, d.msgs, g)
  BY <1>4
<1>8. PICK m : m = d.msgs
  OBVIOUS
<1>9. \A n \in DOMAIN m : /\ g[n] \in DOMAIN a /\ m[n].k = a[g[n]].k /\ m[n].sig = a[g[n]].sig
                          /\ m[n].k # "result" => m[n].name = a[g[n]].name
  BY <1>7, <1>8 DEF Understood, Follows
<1>10. \A n \in DOMAIN m : m[n].k = "call" => m[n].sig = Absent /\ m[n].name \in {"f", "g"}
  BY <1>1, <1>2, <1>9 DEF Spoken
<1>11. InlineOpaque(d) <=> Holds(a, "think")
  <2>1. ASSUME InlineOpaque(d) PROVE Holds(a, "think")
    BY <1>8, <1>9, <2>1 DEF InlineOpaque, Holds
  <2>2. ASSUME Holds(a, "think") PROVE InlineOpaque(d)
    <3>1. PICK i \in DOMAIN a : a[i].k = "think"
      BY <2>2 DEF Holds
    <3>2. PICK n \in DOMAIN m : g[n] = i
      BY <1>7, <1>8, <3>1 DEF Understood
    <3> QED
      BY <1>8, <1>9, <3>1, <3>2 DEF InlineOpaque
  <2> QED
    BY <2>1, <2>2
<1> QED
  BY <1>1, <1>2, <1>4, <1>5, <1>6, <1>8, <1>10, <1>11

\* Nothing that is given is absent.
LEMMA AbsentIsNone ==
  /\ "f" # Absent /\ "g" # Absent
  /\ \A i \in Int : i # Absent
<1>1. Absent \notin Int /\ Absent \notin Words
  BY RequestBounds
<1> QED
  BY <1>1 DEF Words

\* What apply_portability decides where something must be decided.
LEMMA PortIs ==
  ASSUME NEW t, NEW port, port = PortabilityOf(t, canon), port # "reject", port # "strip"
  PROVE  ~InlineOpaque(canon) \/ (IsPassthrough(t) /\ ~CrossProvider(t))
BY DEF PortabilityOf, MustDecide

\* The hypotheses of an attempt that is sent.
Attempted(t, port, r, b) ==
  /\ AsDecoded /\ IsTarget(t)
  /\ port = PortabilityOf(t, canon) /\ port # "reject"
  /\ r = PreparedOf(t, canon, port)
  /\ ~IsPassthrough(t) => ~TranslationUnsupported(r)
  /\ b = UpstreamBody(t, r) /\ b.ok

\* What was prepared for an attempt.
LEMMA AttemptPrepared ==
  ASSUME NEW t, NEW port, NEW r, NEW b, Attempted(t, port, r, b)
  PROVE  /\ IsCanon(r) /\ r.issues = canon.issues /\ SignedIn(t, r.msgs)
         /\ \E g : KeptIn(canon.msgs, r.msgs, g)
         /\ r.raw.msgs = IF port = "strip" THEN StripRaw(chat) ELSE chat
         /\ port = "strip" => ~Holds(r.msgs, "think")
         /\ DOMAIN r.f = FieldNames /\ DOMAIN r.raw.f = FieldNames
         /\ \A x \in FieldNames : ~Overridden(t, x) => r.f[x] = canon.f[x] /\ r.raw.f[x] = asked[x]
         /\ \A x \in Ranged : Overridden(t, x) => r.f[x] = t.override[2] /\ r.raw.f[x] = t.override[2]
<1>1. IsTarget(t) /\ AsDecoded /\ r = PreparedOf(t, canon, port)
  BY DEF Attempted
<1>2. /\ IsCanon(canon) /\ canon.raw.msgs = chat /\ canon.raw.f = asked
      /\ DOMAIN canon.f = FieldNames /\ DOMAIN asked = FieldNames
      /\ \A n \in DOMAIN canon.msgs : canon.msgs[n].k = "call" => canon.msgs[n].sig = Absent
  BY <1>1, CanonIs DEF AsDecoded
<1>3. SignedIn(t, canon.msgs)
  BY <1>2 DEF SignedIn, SignedAtHome
<1>4. DOMAIN canon.raw.f = FieldNames
  BY <1>2
<1> QED
  BY <1>1, <1>2, <1>3, <1>4, PreparedIs

\* A call keeps its name in what is prepared, and messages their roles.
LEMMA PreparedCalls ==
  ASSUME NEW t, NEW port, NEW r, NEW b, Attempted(t, port, r, b)
  PROVE  /\ RolesOf(client, r.msgs)
         /\ \A n \in DOMAIN r.msgs : r.msgs[n].k = "call" => r.msgs[n].name # Absent
<1>1. PICK a, m : a = canon.msgs /\ m = r.msgs
  OBVIOUS
<1>2. PICK g : KeptIn(a, m, g)
  BY <1>1, AttemptPrepared
<1>3. /\ \A n \in DOMAIN a : a[n].k = "call" => a[n].name \in {"f", "g"}
      /\ RolesOf(client, a)
  BY <1>1, CanonIs DEF Attempted, Understood
<1>4. \A n \in DOMAIN m : /\ g[n] \in DOMAIN a /\ m[n].k = a[g[n]].k
                          /\ m[n].name = a[g[n]].name /\ m[n].role = a[g[n]].role
  BY <1>2 DEF KeptIn, Follows
<1>5. RolesOf(client, m)
  BY <1>3, <1>4 DEF RolesOf
<1>6. "f" # Absent /\ "g" # Absent
  BY AbsentIsNone
<1>7. \A n \in DOMAIN m : m[n].k = "call" => m[n].name # Absent
  BY <1>3, <1>4, <1>6
<1> QED
  BY <1>1, <1>5, <1>7

\* The messages of a body that is built come from the prepared ones.
LEMMA AttemptBuilt ==
  ASSUME NEW t, NEW port, NEW r, NEW b, Attempted(t, port, r, b), ~IsPassthrough(t)
  PROVE  \E g : /\ CarriedTo(t, r.msgs, b.msgs, g)
                /\ ~(client = "anthropic" /\ t.wire = "openai") => Whole(r.msgs, b.msgs, g)
                /\ CallsKept(r.msgs, b.msgs, g)
<1>1. IsTarget(t) /\ b = BuildBody(t, r) /\ b.ok
  BY DEF Attempted, UpstreamBody
<1>2. IsMessages(r.msgs) /\ SignedIn(t, r.msgs)
  BY AttemptPrepared DEF IsCanon
<1> QED
  BY <1>1, <1>2, PreparedCalls, BuiltCarriesOn

\* A body that is passed on has the client's messages, or all but the thoughts.
LEMMA AttemptPassed ==
  ASSUME NEW t, NEW port, NEW r, NEW b, Attempted(t, port, r, b), IsPassthrough(t)
  PROVE  b.msgs = IF port = "strip" THEN StripRaw(chat) ELSE chat
<1>1. b = PassBody(t, r) /\ b.ok /\ t.wire \in Formats
  BY DEF Attempted, UpstreamBody, IsPassthrough, AsDecoded
<1> QED
  BY <1>1, PassedOn, AttemptPrepared

\* Signatures are sent to their own model only (hydrate_opaque_state).
LEMMA AttemptSigned ==
  ASSUME NEW t, NEW port, NEW r, NEW b, Attempted(t, port, r, b)
  PROVE  SignedIn(t, b.msgs)
<1>1. CASE IsPassthrough(t)
  <2>1. IsMessages(chat) /\ \A i \in DOMAIN chat : Spoken(client, chat[i])
    BY CanonIs DEF Attempted
  <2>2. SignedIn(t, chat)
    BY <2>1 DEF SignedIn, SignedAtHome, Spoken
  <2>3. PICK m : m = StripRaw(chat)
    OBVIOUS
  <2>4. PICK g : KeptIn(chat, m, g) /\ \A n \in DOMAIN m : m[n] = chat[g[n]]
    BY <2>1, <2>3, StripRawIs
  <2>5. SignedIn(t, m)
    BY <2>2, <2>4 DEF SignedIn, KeptIn, Follows
  <2> QED
    BY <1>1, <2>2, <2>3, <2>5, AttemptPassed
<1>2. CASE ~IsPassthrough(t)
  BY <1>2, AttemptBuilt DEF CarriedTo
<1> QED
  BY <1>1, <1>2

\* No thoughts go to another provider (apply_portability).
LEMMA AttemptThoughts ==
  ASSUME NEW t, NEW port, NEW r, NEW b, Attempted(t, port, r, b)
  PROVE  /\ CrossProvider(t) => ~Holds(b.msgs, "think")
         /\ Holds(chat, "think") /\ ~Holds(b.msgs, "think") => port = "strip"
<1>1. InlineOpaque(canon) <=> Holds(chat, "think")
  BY CanonIs DEF Attempted
<1>2. port # "strip" => ~InlineOpaque(canon) \/ (IsPassthrough(t) /\ ~CrossProvider(t))
  BY PortIs DEF Attempted
<1>3. CASE IsPassthrough(t)
  <2>1. port = "strip" => ~Holds(b.msgs, "think")
    <3>1. IsMessages(chat)
      BY CanonIs DEF Attempted
    <3>2. ~Holds(StripRaw(chat), "think")
      BY <3>1, StripRawIs
    <3>3. port = "strip" => b.msgs = StripRaw(chat)
      BY <1>3, AttemptPassed
    <3> QED
      BY <3>2, <3>3
  <2>2. port # "strip" => b.msgs = chat
    BY <1>3, AttemptPassed
  <2> QED
    BY <1>1, <1>2, <2>1, <2>2
<1>4. CASE ~IsPassthrough(t)
  <2>1. ~Holds(r.msgs, "think")
    <3>1. CASE port = "strip"
      BY <3>1, AttemptPrepared
    <3>2. CASE port # "strip"
      <4>1. ~Holds(canon.msgs, "think")
        BY <1>2, <1>4, <3>2 DEF InlineOpaque, Holds
      <4> QED
        BY <4>1, AttemptPrepared, NoThoughtsFollow DEF KeptIn
    <3> QED
      BY <3>1, <3>2
  <2>2. ~Holds(b.msgs, "think")
    BY <1>4, <2>1, AttemptBuilt, NoThoughtsFollow DEF CarriedTo
  <2>3. port # "strip" => ~Holds(chat, "think")
    BY <1>1, <1>2, <1>4
  <2> QED
    BY <2>2, <2>3
<1> QED
  BY <1>3, <1>4

\* The content of the conversation reaches the upstream in its order.
LEMMA AttemptContent ==
  ASSUME NEW t, NEW port, NEW r, NEW b, Attempted(t, port, r, b),
         ~(client = "anthropic" /\ t.wire = "openai")
  PROVE  KindsOf(b.msgs) = KindsOf(chat)
<1>1. IsMessages(chat)
  BY CanonIs DEF Attempted
<1>2. CASE IsPassthrough(t)
  <2>1. PICK m : m = StripRaw(chat)
    OBVIOUS
  <2>2. PICK g : KeptIn(chat, m, g)
    BY <1>1, <2>1, StripRawIs
  <2>3. KindsOf(m) = KindsOf(chat)
    BY <1>1, <2>2, ContentKept DEF KeptIn
  <2>4. b.msgs = m \/ b.msgs = chat
    BY <1>2, <2>1, AttemptPassed
  <2> QED
    BY <2>3, <2>4
<1>3. CASE ~IsPassthrough(t)
  <2>1. PICK a, m, c : a = canon.msgs /\ m = r.msgs /\ c = b.msgs
    OBVIOUS
  <2>2. PICK g : Understood(client, chat, a, g)
    BY <2>1, CanonIs DEF Attempted
  <2>3. KindsOf(a) = KindsOf(chat)
    <3>1. IsMessages(a) /\ Follows(chat, a, g)
      BY <2>2 DEF Understood
    <3>2. Whole(chat, a, g)
      BY <2>2 DEF Understood, Whole, Content
    <3> QED
      BY <1>1, <3>1, <3>2, ContentKept
  <2>4. PICK h : KeptIn(a, m, h)
    BY <2>1, AttemptPrepared
  <2>5. IsMessages(a) /\ IsMessages(m)
    BY <2>2, <2>4 DEF Understood, KeptIn
  <2>6. KindsOf(m) = KindsOf(a)
    BY <2>4, <2>5, ContentKept DEF KeptIn
  <2>7. PICK l : CarriedTo(t, m, c, l) /\ Whole(m, c, l)
    BY <1>3, <2>1, AttemptBuilt
  <2>8. KindsOf(c) = KindsOf(m)
    BY <2>5, <2>7, ContentKept DEF CarriedTo
  <2> QED
    BY <2>1, <2>3, <2>6, <2>8
<1> QED
  BY <1>2, <1>3

\* What comes earlier in a list is earlier in the list that it comes from.
LEMMA EarlierFollows ==
  ASSUME NEW a, NEW b, NEW g, IsMessages(a), IsMessages(b), Follows(a, b, g),
         NEW m \in DOMAIN b, NEW n \in DOMAIN b, g[m] < g[n]
  PROVE  m < n
<1>1. m \in Nat /\ n \in Nat /\ g[m] \in Nat /\ g[n] \in Nat
  BY DEF IsMessages, Follows
<1>2. n < m => g[n] < g[m]
  BY DEF Follows
<1> QED
  BY <1>1, <1>2

\* A result whose name the client did not give follows the call that it answers.
LEMMA AttemptResults ==
  ASSUME NEW t, NEW port, NEW r, NEW b, Attempted(t, port, r, b), ~IsPassthrough(t),
         \A i \in DOMAIN chat : chat[i].k = "result" => chat[i].name = Absent,
         NEW j \in DOMAIN b.msgs, b.msgs[j].k = "result"
  PROVE  \E i \in 1..(j - 1) :
           /\ b.msgs[i].k = "call" /\ b.msgs[i].name = b.msgs[j].name
           /\ t.wire # "gemini" => b.msgs[i].id = b.msgs[j].id
<1>1. PICK a, m, c : a = canon.msgs /\ m = r.msgs /\ c = b.msgs
  OBVIOUS
<1>2. PICK g : Understood(client, chat, a, g)
  BY <1>1, CanonIs DEF Attempted
<1>3. PICK h : KeptIn(a, m, h)
  BY <1>1, AttemptPrepared
<1>4. PICK l : CarriedTo(t, m, c, l) /\ CallsKept(m, c, l)
  BY <1>1, AttemptBuilt
<1>5. IsMessages(a) /\ IsMessages(m) /\ IsMessages(c)
  BY <1>2, <1>3, <1>4 DEF Understood, KeptIn, CarriedTo
<1>6. /\ l[j] \in DOMAIN m /\ m[l[j]].k = "result"
      /\ h[l[j]] \in DOMAIN a /\ a[h[l[j]]].k = "result"
  BY <1>1, <1>3, <1>4 DEF CarriedTo, KeptIn, Follows
<1>7. PICK p, q : p = l[j] /\ q = h[p]
  OBVIOUS
<1>8. a[q].name # Absent
  <2>1. ~canon.issues
    BY AttemptPrepared DEF Attempted, TranslationUnsupported
  <2>2. ~UnknownCall(a)
    BY <1>1, <2>1, CanonIs DEF Attempted
  <2> QED
    BY <1>6, <1>7, <2>2 DEF UnknownCall
<1>9. PICK z \in DOMAIN a : z < q /\ a[z].k = "call" /\ a[z].id = a[q].id /\ a[z].name = a[q].name
  <2>1. chat[g[q]].name = Absent
    BY <1>2, <1>6, <1>7 DEF Understood, Follows
  <2> QED
    BY <1>2, <1>6, <1>7, <1>8, <2>1 DEF Understood
<1>10. PICK y \in DOMAIN m : h[y] = z
  BY <1>3, <1>9 DEF KeptIn, Whole, Content
<1>11. /\ y < p /\ m[y].k = "call" /\ m[y].id = m[p].id
       /\ m[y].name = m[p].name /\ m[p].name # Absent
  <2>1. y < p
    BY <1>3, <1>5, <1>6, <1>7, <1>9, <1>10, EarlierFollows DEF KeptIn
  <2>2. m[y].k = "call" /\ m[y].id = a[z].id /\ m[y].name = a[z].name
    BY <1>3, <1>9, <1>10 DEF KeptIn, Follows
  <2>3. m[p].id = a[q].id /\ m[p].name = a[q].name
    BY <1>3, <1>6, <1>7 DEF KeptIn
  <2> QED
    BY <1>8, <1>9, <2>1, <2>2, <2>3
<1>12. PICK x \in DOMAIN c : l[x] = y
  BY <1>4, <1>11 DEF CallsKept
<1>13. x < j
  BY <1>1, <1>4, <1>5, <1>7, <1>11, <1>12, EarlierFollows DEF CarriedTo
<1>14. /\ c[x].k = "call" /\ c[x].name = m[y].name /\ c[j].name = m[p].name
       /\ t.wire # "gemini" => c[x].id = m[y].id /\ c[j].id = m[p].id
  BY <1>1, <1>4, <1>7, <1>11, <1>12 DEF CarriedTo, Follows
<1>15. x \in 1..(j - 1)
  BY <1>1, <1>5, <1>13 DEF IsMessages
<1> QED
  BY <1>1, <1>11, <1>14, <1>15

-----------------------------------------------------------------------------
(* The fields of a request on the way to an upstream.                       *)

\* What the client gave is what a client may give (ChatFields).
Given == \A x \in FieldNames : asked[x] # Absent => <<x, asked[x]>> \in ChatFields(client)

\* The values that a client gives of the fields that are translated.
LEMMA GivenIs ==
  ASSUME Given, client \in Formats
  PROVE  /\ \A x \in Ranged \cup {"max"} : asked[x] \in Int \cup {Absent}
         /\ asked["thinking"] \in {Absent, "low", "off", "odd", "adaptive"}
         /\ client = "anthropic" => asked["thinking"] # "odd" /\ asked["choice"] \in {Absent, "none", "any", "tool"}
         /\ client # "anthropic" => /\ asked["thinking"] # "adaptive" 
                                    /\ asked["choice"] \in {Absent, "none", "required", "function"}
<1>0. {"temperature", "thinking", "choice"} \subseteq FieldNames
  BY DEF FieldNames
<1>1. \A x \in Ranged \cup {"max"} : asked[x] # Absent => asked[x] \in {1, 3, 9}
  BY DEF Given, ChatFields, FieldNames, Ranged
<1>2. asked["thinking"] # Absent =>
        /\ asked["thinking"] \in {"low", "off", "odd", "adaptive"}
        /\ client = "anthropic" => asked["thinking"] # "odd"
        /\ client # "anthropic" => asked["thinking"] # "adaptive"
  BY <1>0 DEF Given, ChatFields
<1>3. asked["choice"] # Absent =>
        /\ client = "anthropic" => asked["choice"] \in {"none", "any", "tool"}
        /\ client # "anthropic" => asked["choice"] \in {"none", "required", "function"}
  BY <1>0 DEF Given, ChatFields
<1>4. Absent # "odd" /\ Absent # "adaptive"
  BY RequestBounds DEF Words
<1>5. \A x \in Ranged \cup {"max"} : asked[x] \in Int \cup {Absent}
  BY <1>1
<1> QED
  BY <1>2, <1>3, <1>4, <1>5

\* What the client's fields are called canonically (KnownFields).
LEMMA KnownIs ==
  ASSUME AsDecoded
  PROVE  /\ \A x \in FieldNames \ {"thinking", "choice"} : canon.f[x] = asked[x]
         /\ client # "anthropic" /\ asked["thinking"] # "odd" => canon.f["thinking"] = asked["thinking"]
         /\ client = "anthropic" => canon.f["thinking"] = IF asked["thinking"] = "adaptive" THEN "default" ELSE asked["thinking"]
         /\ client = "openai" => canon.f["choice"] = OpenAiDecodeChoice(asked["choice"])
         /\ client = "anthropic" => canon.f["choice"] = AnthropicDecodeChoice(asked["choice"])
         /\ client = "responses" => canon.f["choice"] = ResponsesDecodeChoice(asked["choice"])
<1>1. canon.f = KnownFields(client, asked)
  BY CanonIs
<1>2. PICK f, c, k : f = asked /\ c = client /\ k = canon.f
  OBVIOUS
<1>3. DOMAIN f = FieldNames /\ {"thinking", "choice"} \subseteq FieldNames
  BY <1>2 DEF AsDecoded, FieldNames
<1>4. PICK oc, ac, rc : oc = OpenAiDecodeChoice(f["choice"]) /\ ac = AnthropicDecodeChoice(f["choice"])
                        /\ rc = ResponsesDecodeChoice(f["choice"])
  OBVIOUS
<1>5. k = IF c = "openai"
          THEN [f EXCEPT !["thinking"] = IF @ = "odd" THEN Absent ELSE @, !["choice"] = oc]
          ELSE IF c = "anthropic"
          THEN [f EXCEPT !["thinking"] = IF @ = "adaptive" THEN "default" ELSE @, !["choice"] = ac]
          ELSE [f EXCEPT !["choice"] = rc]
  BY <1>1, <1>2, <1>4 DEF KnownFields
<1>6. c \in Formats
  BY <1>2 DEF AsDecoded
<1> QED
  BY <1>2, <1>3, <1>4, <1>5, <1>6 DEF Formats

\* The fields that a target cannot override are those of the canonical request.
LEMMA NotOverridden ==
  ASSUME NEW t, IsTarget(t)
  PROVE  /\ ~Overridden(t, "n") /\ ~Overridden(t, "choice") /\ ~Overridden(t, "thinking")
         /\ ~Overridden(t, "tools") /\ ~Overridden(t, "unknown") /\ ~Overridden(t, "cache_key")
         /\ {"n", "choice", "thinking", "tools", "unknown", "cache_key"} \subseteq FieldNames
BY DEF Overridden, IsTarget, Overridable, FieldNames

\* What cannot be translated is not translated (translation_unsupported).
LEMMA AttemptTranslated ==
  ASSUME NEW t, NEW port, NEW r, NEW b, Attempted(t, port, r, b), ~IsPassthrough(t)
  PROVE  ~Holds(chat, "odd") /\ asked["tools"] # "odd" /\ asked["n"] = Absent
<1>1. ~r.issues /\ r.f["n"] = Absent
  BY DEF Attempted, TranslationUnsupported
<1>2. ~Odd(chat) /\ asked["tools"] # "odd"
  BY <1>1, AttemptPrepared, CanonIs DEF Attempted
<1>3. r.f["n"] = canon.f["n"] /\ canon.f["n"] = asked["n"]
  <2>1. IsTarget(t) /\ AsDecoded
    BY DEF Attempted
  <2>2. ~Overridden(t, "n") /\ "n" \in FieldNames
    BY <2>1, NotOverridden
  <2> QED
    BY <2>1, <2>2, AttemptPrepared, KnownIs
<1> QED
  BY <1>1, <1>2, <1>3 DEF Odd, Holds

\* Fields that every body carries as they are, if it carries them.
Carried == {"stop", "tools"}

\* The fields of the bodies that are built, from those of the request (build_body).
LEMMA OpenAiFields ==
  ASSUME NEW t, NEW r, DOMAIN r.f = FieldNames, NEW b, b = OpenAiBody(t, r)
  PROVE  /\ \A x \in Carried : b.f[x] = r.f[x]
         /\ b.f["max"] = Limited(t, r.f["max"])
         /\ \A x \in Ranged : b.f[x] = OpenAiNumber(t.params[x], r.f[x])
         /\ b.f["thinking"] = OpenAiThinking(t, r.f["thinking"])
         /\ b.f["choice"] = OpenAiChoice(r.f["choice"])
<1>1. PICK f, u, k, y, v, w :
        /\ f = Without(r.f, {"unknown", "n"}) /\ u = OpenAiNumber(t.params["temperature"], f["temperature"])
        /\ k = OpenAiNumber(t.params["top_k"], f["top_k"]) /\ y = Limited(t, f["max"])
        /\ v = OpenAiThinking(t, f["thinking"]) /\ w = OpenAiChoice(f["choice"])
  OBVIOUS
<1>2. DOMAIN f = FieldNames /\ \A x \in FieldNames \ {"unknown", "n"} : f[x] = r.f[x]
  BY <1>1 DEF Without
<1>3. b.f = [f EXCEPT !["temperature"] = u, !["top_k"] = k, !["max"] = y, !["thinking"] = v, !["choice"] = w]
  BY <1>1 DEF OpenAiBody, Body
<1>4. /\ f["temperature"] = r.f["temperature"] /\ f["top_k"] = r.f["top_k"] /\ f["max"] = r.f["max"]
      /\ f["thinking"] = r.f["thinking"] /\ f["choice"] = r.f["choice"]
  BY <1>2 DEF FieldNames
<1>5. b.f["temperature"] = u /\ b.f["top_k"] = k /\ b.f["max"] = y /\ b.f["thinking"] = v /\ b.f["choice"] = w
  BY <1>2, <1>3 DEF FieldNames
<1>6. \A x \in Carried : b.f[x] = r.f[x]
  BY <1>2, <1>3 DEF FieldNames, Carried
<1> QED
  BY <1>1, <1>4, <1>5, <1>6 DEF Ranged

\* What a Responses body does without is absent from the request, or dropped.
Forgone(t, r) == \A x \in ResponsesUnable : r.f[x] = Absent \/ Drops(t, x)

LEMMA ResponsesPolicyFields ==
  ASSUME NEW t, NEW r, NEW msgs, NEW f, DOMAIN f = FieldNames, NEW b, b = ResponsesPolicy(t, r, msgs, f), b.ok
  PROVE  /\ Forgone(t, r) /\ \A x \in ResponsesUnable : b.f[x] = Absent
         /\ b.f["max"] = Limited(t, r.f["max"]) /\ b.f["tools"] = f["tools"] /\ b.f["choice"] = f["choice"]
         /\ b.f["temperature"] = ResponsesNumber(t.params["temperature"], r.f["temperature"])
         /\ b.f["thinking"] = OpenAiThinking(t, r.f["thinking"])
<1>0. ~BadBody.ok
  BY DEF BadBody
<1>1. PICK u, y, v, w, h : /\ u = ResponsesNumber(t.params["temperature"], r.f["temperature"])
                           /\ y = Limited(t, r.f["max"])
                           /\ v = OpenAiThinking(t, r.f["thinking"])
                           /\ w = Without(f, ResponsesUnable)
                           /\ h = [w EXCEPT !["temperature"] = u, !["max"] = y, !["thinking"] = v]
  OBVIOUS
<1>2. Forgone(t, r) /\ b = Body(msgs, h)
  BY <1>0, <1>1 DEF ResponsesPolicy, Forgone
<1>3. b.f = h
  BY <1>2 DEF Body
<1>4. /\ DOMAIN w = FieldNames /\ \A x \in FieldNames \ ResponsesUnable : w[x] = f[x]
      /\ \A x \in ResponsesUnable : w[x] = Absent
  BY <1>1 DEF Without, ResponsesUnable, FieldNames
<1>5. h["temperature"] = u /\ h["max"] = y /\ h["thinking"] = v
  BY <1>1, <1>4 DEF FieldNames
<1>6. h["tools"] = f["tools"] /\ h["choice"] = f["choice"] /\ \A x \in ResponsesUnable : h[x] = Absent
  BY <1>1, <1>4 DEF FieldNames, ResponsesUnable
<1> QED
  BY <1>1, <1>2, <1>3, <1>5, <1>6

LEMMA ResponsesFields ==
  ASSUME NEW t, NEW r, DOMAIN r.f = FieldNames, NEW b, b = ResponsesBody(t, r), b.ok
  PROVE  /\ Forgone(t, r) /\ \A x \in ResponsesUnable : b.f[x] = Absent
         /\ b.f["max"] = Limited(t, r.f["max"]) /\ b.f["tools"] = r.f["tools"]
         /\ b.f["temperature"] = ResponsesNumber(t.params["temperature"], r.f["temperature"])
         /\ b.f["thinking"] = OpenAiThinking(t, r.f["thinking"])
         /\ b.f["choice"] = ResponsesChoice(r.f["choice"])
<1>0. ~BadBody.ok
  BY DEF BadBody
<1>1. PICK msgs, f, c, w : /\ msgs = [i \in DOMAIN r.msgs |-> [Unsigned(r.msgs[i]) EXCEPT !.err = FALSE]]
                           /\ w = Without(r.f, {"unknown", "n"}) /\ c = ResponsesChoice(w["choice"])
                           /\ f = [w EXCEPT !["choice"] = c]
  OBVIOUS
<1>2. b = ResponsesPolicy(t, r, msgs, f)
  BY <1>0, <1>1 DEF ResponsesBody
<1>3. DOMAIN w = FieldNames /\ \A x \in FieldNames \ {"unknown", "n"} : w[x] = r.f[x]
  BY <1>1 DEF Without
<1>4. /\ DOMAIN f = FieldNames /\ f["tools"] = r.f["tools"] /\ f["choice"] = c
      /\ w["choice"] = r.f["choice"]
  BY <1>1, <1>3 DEF FieldNames
<1>5. /\ Forgone(t, r) /\ \A x \in ResponsesUnable : b.f[x] = Absent
      /\ b.f["max"] = Limited(t, r.f["max"]) /\ b.f["tools"] = f["tools"] /\ b.f["choice"] = f["choice"]
      /\ b.f["temperature"] = ResponsesNumber(t.params["temperature"], r.f["temperature"])
      /\ b.f["thinking"] = OpenAiThinking(t, r.f["thinking"])
  <2>1. DOMAIN f = FieldNames /\ b.ok
    BY <1>4
  <2> QED
    BY <1>2, <2>1, ResponsesPolicyFields
<1> QED
  BY <1>1, <1>4, <1>5

LEMMA AnthropicFields ==
  ASSUME NEW t, NEW r, DOMAIN r.f = FieldNames, NEW b, b = AnthropicBody(t, r)
  PROVE  /\ \A x \in Carried : b.f[x] = r.f[x]
         /\ b.f["max"] = AnthropicMax(t, r.f["max"])
         /\ \A x \in Ranged : b.f[x] = AnthropicNumber(t.params[x], r.f[x])
         /\ b.f["thinking"] = AnthropicThinking(t, r.f["thinking"])
         /\ b.f["choice"] = AnthropicChoice(r.f["choice"])
<1>1. PICK u, k, y, v, w :
        /\ u = AnthropicNumber(t.params["temperature"], r.f["temperature"])
        /\ k = AnthropicNumber(t.params["top_k"], r.f["top_k"]) /\ y = AnthropicMax(t, r.f["max"])
        /\ v = AnthropicThinking(t, r.f["thinking"]) /\ w = AnthropicChoice(r.f["choice"])
  OBVIOUS
<1>2. PICK f : f = [r.f EXCEPT !["max"] = y, !["temperature"] = u, !["top_k"] = k, !["thinking"] = v, !["choice"] = w]
  OBVIOUS
<1>3. b.f = Without(f, {"seed", "penalty", "cache_key", "unknown", "n"})
  BY <1>1, <1>2 DEF AnthropicBody, Body
<1>4. \A x \in FieldNames \ {"seed", "penalty", "cache_key", "unknown", "n"} : b.f[x] = f[x]
  BY <1>3 DEF Without
<1>5. f["temperature"] = u /\ f["top_k"] = k /\ f["max"] = y /\ f["thinking"] = v /\ f["choice"] = w
  BY <1>2 DEF FieldNames
<1>6. \A x \in Carried : f[x] = r.f[x]
  BY <1>2 DEF FieldNames, Carried
<1>7. Carried \cup Ranged \cup {"max", "thinking", "choice"}
        \subseteq FieldNames \ {"seed", "penalty", "cache_key", "unknown", "n"}
  BY DEF FieldNames, Carried, Ranged
<1> QED
  BY <1>1, <1>4, <1>5, <1>6, <1>7 DEF Ranged

LEMMA GeminiFields ==
  ASSUME NEW t, NEW r, DOMAIN r.f = FieldNames, NEW b, b = GeminiBody(t, r)
  PROVE  /\ \A x \in Carried : b.f[x] = r.f[x]
         /\ b.f["max"] = Limited(t, r.f["max"])
         /\ \A x \in Ranged : b.f[x] = OpenAiNumber(t.params[x], r.f[x])
         /\ b.f["thinking"] = OpenAiThinking(t, r.f["thinking"])
         /\ b.f["choice"] = GeminiChoice(r.f)
<1>1. PICK u, k, y, v, w :
        /\ u = OpenAiNumber(t.params["temperature"], r.f["temperature"])
        /\ k = OpenAiNumber(t.params["top_k"], r.f["top_k"]) /\ y = Limited(t, r.f["max"])
        /\ v = OpenAiThinking(t, r.f["thinking"]) /\ w = GeminiChoice(r.f)
  OBVIOUS
<1>2. PICK f : f = [r.f EXCEPT !["temperature"] = u, !["top_k"] = k, !["max"] = y, !["thinking"] = v, !["choice"] = w]
  OBVIOUS
<1>3. b.f = Without(f, {"penalty", "cache_key", "unknown", "n"})
  BY <1>1, <1>2 DEF GeminiBody, GeminiConfig, Body
<1>4. \A x \in FieldNames \ {"penalty", "cache_key", "unknown", "n"} : b.f[x] = f[x]
  BY <1>3 DEF Without
<1>5. f["temperature"] = u /\ f["top_k"] = k /\ f["max"] = y /\ f["thinking"] = v /\ f["choice"] = w
  BY <1>2 DEF FieldNames
<1>6. \A x \in Carried : f[x] = r.f[x]
  BY <1>2 DEF FieldNames, Carried
<1>7. Carried \cup Ranged \cup {"max", "thinking", "choice"}
        \subseteq FieldNames \ {"penalty", "cache_key", "unknown", "n"}
  BY DEF FieldNames, Carried, Ranged
<1> QED
  BY <1>1, <1>4, <1>5, <1>6, <1>7 DEF Ranged

\* Thinking in a body that is passed on to Anthropic.
PassedThinking(t, r) ==
  IF t.map.adaptive /\ r.f["thinking"] # Absent THEN AnthropicThinking(t, r.f["thinking"]) ELSE r.raw.f["thinking"]

\* The fields of a body that is passed on (normalize_passthrough_body).
LEMMA PassedFields ==
  ASSUME NEW t, t.wire \in Formats, NEW r, DOMAIN r.raw.f = FieldNames, NEW b, b = PassBody(t, r), b.ok
  PROVE  /\ b.f["tools"] = r.raw.f["tools"]
         /\ t.wire # "responses" => \A x \in {"stop"} \cup Ranged : b.f[x] = r.raw.f[x]
         /\ t.wire = "openai" =>
              b.f["max"] = Limited(t, r.f["max"]) /\ b.f["thinking"] = r.raw.f["thinking"]
         /\ t.wire = "anthropic" =>
              /\ b.f["max"] = r.f["max"] /\ b.f["thinking"] = PassedThinking(t, r)
              /\ ~(t.map.adaptive /\ r.f["thinking"] = "off" /\ "off" \notin t.map.levels)
         /\ t.wire = "responses" =>
              /\ Forgone(t, r) /\ \A x \in ResponsesUnable : b.f[x] = Absent
              /\ b.f["max"] = Limited(t, r.f["max"])
              /\ b.f["temperature"] = ResponsesNumber(t.params["temperature"], r.f["temperature"])
              /\ b.f["thinking"] = OpenAiThinking(t, r.f["thinking"])
<1>0. ~BadBody.ok
  BY DEF BadBody
<1>1. CASE t.wire = "responses"
  <2>1. b = ResponsesPolicy(t, r, r.raw.msgs, r.raw.f)
    BY <1>1, Zenon DEF PassBody, ResponsesPass
  <2> QED
    BY <1>1, <2>1, ResponsesPolicyFields
<1>2. ASSUME NEW y, NEW v, NEW g, g = r.raw.f, b.f = [g EXCEPT !["max"] = y, !["thinking"] = v]
      PROVE  /\ b.f["max"] = y /\ b.f["thinking"] = v /\ b.f["tools"] = r.raw.f["tools"]
             /\ \A x \in {"stop"} \cup Ranged : b.f[x] = r.raw.f[x]
  BY <1>2 DEF FieldNames, Ranged
<1>3. CASE t.wire = "openai"
  <2>1. b = OpenAiPass(t, r)
    BY <1>3, Zenon DEF PassBody
  <2>2. PICK y, g : y = Limited(t, r.f["max"]) /\ g = r.raw.f
    OBVIOUS
  <2>3. b.f = [g EXCEPT !["max"] = y]
    BY <2>1, <2>2 DEF OpenAiPass, Body
  <2>4. /\ b.f["max"] = y /\ b.f["thinking"] = g["thinking"] /\ b.f["tools"] = g["tools"]
        /\ \A x \in {"stop"} \cup Ranged : b.f[x] = g[x]
    BY <2>2, <2>3 DEF FieldNames, Ranged
  <2> QED
    BY <1>3, <2>2, <2>4
<1>4. CASE t.wire = "anthropic"
  <2>1. b = AnthropicPass(t, r)
    BY <1>4, Zenon DEF PassBody
  <2>2. PICK v, g : v = PassedThinking(t, r) /\ g = r.raw.f
    OBVIOUS
  <2>3. /\ b = Body(r.raw.msgs, [g EXCEPT !["max"] = r.f["max"], !["thinking"] = v])
        /\ ~(t.map.adaptive /\ r.f["thinking"] = "off" /\ "off" \notin t.map.levels)
    BY <1>0, <2>1, <2>2 DEF AnthropicPass, PassedThinking
  <2>4. b.f = [g EXCEPT !["max"] = r.f["max"], !["thinking"] = v]
    BY <2>3 DEF Body
  <2> QED
    BY <1>2, <1>4, <2>2, <2>3, <2>4
<1> QED
  BY <1>1, <1>3, <1>4 DEF Formats

\* What a choice means in a body is what the client's choice means (OpenAiChoice,
\* ResponsesChoice, AnthropicChoice, GeminiChoice).
LEMMA ChoiceKept ==
  ASSUME NEW v, NEW u,
         \/ v \in {Absent, "none", "any", "tool"} /\ u = AnthropicDecodeChoice(v)
         \/ v \in {Absent, "none", "required", "function"}
            /\ (u = OpenAiDecodeChoice(v) \/ u = ResponsesDecodeChoice(v))
  PROVE  /\ ChoiceMeans(OpenAiChoice(u)) = ChoiceMeans(v)
         /\ ChoiceMeans(ResponsesChoice(u)) = ChoiceMeans(v)
         /\ ChoiceMeans(AnthropicChoice(u)) = ChoiceMeans(v)
         /\ \A f : f["choice"] = u => ChoiceMeans(GeminiChoice(f)) = ChoiceMeans(v)
<1>1. /\ Absent # "none" /\ Absent # "required" /\ Absent # "specific" /\ Absent # "any" /\ Absent # "tool"
      /\ Absent # "function" /\ Absent # "NONE" /\ Absent # "ANY" /\ Absent # "ANY of one"
  BY RequestBounds DEF Words
<1>2. /\ ChoiceMeans("none") = "none" /\ ChoiceMeans("NONE") = "none"
      /\ ChoiceMeans("required") = "some tool" /\ ChoiceMeans("any") = "some tool" /\ ChoiceMeans("ANY") = "some tool"
      /\ ChoiceMeans("function") = "this tool" /\ ChoiceMeans("tool") = "this tool"
      /\ ChoiceMeans("ANY of one") = "this tool"
      /\ ChoiceMeans(Absent) = "free" /\ ChoiceMeans("AUTO") = "free"
  BY <1>1, Zenon DEF ChoiceMeans
<1>3. \/ v = Absent /\ u = Absent
      \/ v = "none" /\ u = "none"
      \/ v \in {"any", "required"} /\ u = "required"
      \/ v \in {"tool", "function"} /\ u = "specific"
  <2>1. /\ AnthropicDecodeChoice(Absent) = Absent /\ AnthropicDecodeChoice("none") = "none"
        /\ AnthropicDecodeChoice("any") = "required" /\ AnthropicDecodeChoice("tool") = "specific"
    BY <1>1, Zenon DEF AnthropicDecodeChoice
  <2> QED
    BY <1>1, <2>1 DEF OpenAiDecodeChoice, ResponsesDecodeChoice
<1>4. /\ AnthropicChoice(Absent) = Absent /\ AnthropicChoice("none") = "none"
      /\ AnthropicChoice("required") = "any" /\ AnthropicChoice("specific") = "tool"
  BY <1>1, Zenon DEF AnthropicChoice
<1>5. ASSUME NEW f, f["choice"] = u PROVE ChoiceMeans(GeminiChoice(f)) = ChoiceMeans(v)
  <2>1. u = Absent => GeminiChoice(f) = Absent \/ GeminiChoice(f) = "AUTO"
    BY <1>1, <1>5, Zenon DEF GeminiChoice
  <2>2. u = "none" => GeminiChoice(f) = "NONE"
    BY <1>1, <1>5, Zenon DEF GeminiChoice
  <2>3. u = "required" => GeminiChoice(f) = "ANY"
    BY <1>1, <1>5, Zenon DEF GeminiChoice
  <2>4. u = "specific" => GeminiChoice(f) = "ANY of one"
    BY <1>1, <1>5, Zenon DEF GeminiChoice
  <2> QED
    BY <1>2, <1>3, <2>1, <2>2, <2>3, <2>4
<1>6. ChoiceMeans(AnthropicChoice(u)) = ChoiceMeans(v)
  BY <1>2, <1>3, <1>4
<1>7. ChoiceMeans(OpenAiChoice(u)) = ChoiceMeans(v) /\ ChoiceMeans(ResponsesChoice(u)) = ChoiceMeans(v)
  BY <1>1, <1>2, <1>3 DEF OpenAiChoice, ResponsesChoice
<1> QED
  BY <1>5, <1>6, <1>7

\* A choice among tools is translated (build_body).
LEMMA AttemptChoice ==
  ASSUME NEW t, NEW port, NEW r, NEW b, Attempted(t, port, r, b), ~IsPassthrough(t), Given
  PROVE  ChoiceMeans(b.f["choice"]) = ChoiceMeans(asked["choice"])
<1>1. IsTarget(t) /\ AsDecoded /\ b.ok /\ b = BuildBody(t, r)
  BY DEF Attempted, UpstreamBody
<1>2. DOMAIN r.f = FieldNames /\ r.f["choice"] = canon.f["choice"]
  BY <1>1, AttemptPrepared, NotOverridden
<1>3. PICK u, v : u = r.f["choice"] /\ v = asked["choice"]
  OBVIOUS
<1>4. \/ v \in {Absent, "none", "any", "tool"} /\ u = AnthropicDecodeChoice(v)
      \/ v \in {Absent, "none", "required", "function"}
         /\ (u = OpenAiDecodeChoice(v) \/ u = ResponsesDecodeChoice(v))
  <2>1. client \in Formats
    BY <1>1 DEF AsDecoded
  <2> QED
    BY <1>1, <1>2, <1>3, <2>1, KnownIs, GivenIs DEF Formats
<1>5. /\ ChoiceMeans(OpenAiChoice(u)) = ChoiceMeans(v)
      /\ ChoiceMeans(ResponsesChoice(u)) = ChoiceMeans(v)
      /\ ChoiceMeans(AnthropicChoice(u)) = ChoiceMeans(v)
      /\ \A f : f["choice"] = u => ChoiceMeans(GeminiChoice(f)) = ChoiceMeans(v)
  BY <1>4, ChoiceKept
<1>6. CASE t.wire = "openai"
  <2>1. b = OpenAiBody(t, r)
    BY <1>1, <1>6, Zenon DEF BuildBody
  <2> QED
    BY <1>2, <1>3, <1>5, <2>1, OpenAiFields
<1>7. CASE t.wire = "responses"
  <2>1. b = ResponsesBody(t, r)
    BY <1>1, <1>7, Zenon DEF BuildBody
  <2> QED
    BY <1>1, <1>2, <1>3, <1>5, <2>1, ResponsesFields
<1>8. CASE t.wire = "anthropic"
  <2>1. b = AnthropicBody(t, r)
    BY <1>1, <1>8, Zenon DEF BuildBody
  <2> QED
    BY <1>2, <1>3, <1>5, <2>1, AnthropicFields
<1>9. CASE t.wire = "gemini"
  <2>1. b = GeminiBody(t, r)
    BY <1>1, <1>9, Zenon DEF BuildBody
  <2>2. b.f["choice"] = GeminiChoice(r.f)
    BY <1>2, <2>1, GeminiFields
  <2> QED
    BY <1>3, <1>5, <2>2
<1> QED
  BY <1>1, <1>6, <1>7, <1>8, <1>9 DEF IsTarget

\* Where the numbers of a body come from.
NumberComes(t, r, b, x) ==
  \/ b.f[x] = OpenAiNumber(t.params[x], r.f[x]) \/ b.f[x] = ResponsesNumber(t.params[x], r.f[x])
  \/ b.f[x] = AnthropicNumber(t.params[x], r.f[x])
  \/ b.f[x] = r.raw.f[x]
  \/ /\ t.wire = "responses" /\ x \in ResponsesUnable /\ b.f[x] = Absent
     /\ r.f[x] = Absent \/ Drops(t, x)

\* Where the fields of a body come from, whatever its format and whether it is built or
\* passed on.
LEMMA AttemptBody ==
  ASSUME NEW t, NEW port, NEW r, NEW b, Attempted(t, port, r, b)
  PROVE  /\ IsTarget(t) /\ AsDecoded
         /\ b.f["tools"] \in {r.f["tools"], r.raw.f["tools"]}
         /\ \/ b.f["stop"] \in {r.f["stop"], r.raw.f["stop"]}
            \/ t.wire = "responses" /\ b.f["stop"] = Absent /\ (r.f["stop"] = Absent \/ Drops(t, "stop"))
         /\ t.wire # "anthropic" => b.f["max"] = Limited(t, r.f["max"])
         /\ t.wire = "anthropic" /\ r.f["max"] # Absent => b.f["max"] = r.f["max"]
         /\ \A x \in Ranged : NumberComes(t, r, b, x)
         /\ t.wire = "openai" /\ IsPassthrough(t) => b.f["thinking"] = r.raw.f["thinking"]
         /\ t.wire = "anthropic" /\ IsPassthrough(t) =>
              /\ b.f["thinking"] = PassedThinking(t, r)
              /\ ~(t.map.adaptive /\ r.f["thinking"] = "off" /\ "off" \notin t.map.levels)
         /\ t.wire = "anthropic" /\ ~IsPassthrough(t) => b.f["thinking"] = AnthropicThinking(t, r.f["thinking"])
         /\ t.wire = "responses" \/ (t.wire # "anthropic" /\ ~IsPassthrough(t)) =>
              b.f["thinking"] = OpenAiThinking(t, r.f["thinking"])
<1> DEFINE Fields ==
      /\ b.f["tools"] \in {r.f["tools"], r.raw.f["tools"]}
      /\ \/ b.f["stop"] \in {r.f["stop"], r.raw.f["stop"]}
         \/ t.wire = "responses" /\ b.f["stop"] = Absent /\ (r.f["stop"] = Absent \/ Drops(t, "stop"))
      /\ t.wire # "anthropic" => b.f["max"] = Limited(t, r.f["max"])
      /\ t.wire = "anthropic" /\ r.f["max"] # Absent => b.f["max"] = r.f["max"]
      /\ \A x \in Ranged : NumberComes(t, r, b, x)
<1>1. IsTarget(t) /\ AsDecoded /\ b.ok /\ b = UpstreamBody(t, r) /\ client \in Formats
  BY DEF Attempted, AsDecoded
<1>2. DOMAIN r.f = FieldNames /\ DOMAIN r.raw.f = FieldNames
  BY AttemptPrepared
<1>3. CASE IsPassthrough(t)
  <2>1. b = PassBody(t, r) /\ t.wire \in Formats
    BY <1>1, <1>3 DEF UpstreamBody, IsPassthrough
  <2>2. /\ b.f["tools"] = r.raw.f["tools"]
        /\ t.wire # "responses" => \A x \in {"stop"} \cup Ranged : b.f[x] = r.raw.f[x]
        /\ t.wire = "openai" =>
             b.f["max"] = Limited(t, r.f["max"]) /\ b.f["thinking"] = r.raw.f["thinking"]
        /\ t.wire = "anthropic" =>
             /\ b.f["max"] = r.f["max"] /\ b.f["thinking"] = PassedThinking(t, r)
             /\ ~(t.map.adaptive /\ r.f["thinking"] = "off" /\ "off" \notin t.map.levels)
        /\ t.wire = "responses" =>
             /\ Forgone(t, r) /\ \A x \in ResponsesUnable : b.f[x] = Absent
             /\ b.f["max"] = Limited(t, r.f["max"])
             /\ b.f["temperature"] = ResponsesNumber(t.params["temperature"], r.f["temperature"])
             /\ b.f["thinking"] = OpenAiThinking(t, r.f["thinking"])
    BY <1>1, <1>2, <2>1, PassedFields
  <2>3. Fields
    BY <2>1, <2>2 DEF Formats, Forgone, ResponsesUnable, Ranged, NumberComes
  <2> HIDE DEF Fields
  <2>4. Fields /\ IsPassthrough(t)
    BY <1>3, <2>3
  <2> QED
    BY <1>1, <2>2, <2>4 DEF Fields
<1>4. CASE ~IsPassthrough(t)
  <2>1. b = BuildBody(t, r)
    BY <1>1, <1>4 DEF UpstreamBody
  <2>2. CASE t.wire = "openai"
    <3>1. b = OpenAiBody(t, r)
      BY <2>1, <2>2, Zenon DEF BuildBody
    <3> QED
      BY <1>1, <1>2, <1>4, <2>2, <3>1, OpenAiFields DEF Carried, NumberComes
  <2>3. CASE t.wire = "responses"
    <3>1. b = ResponsesBody(t, r)
      BY <2>1, <2>3, Zenon DEF BuildBody
    <3>2. /\ Forgone(t, r) /\ \A x \in ResponsesUnable : b.f[x] = Absent
          /\ b.f["max"] = Limited(t, r.f["max"]) /\ b.f["tools"] = r.f["tools"]
          /\ b.f["temperature"] = ResponsesNumber(t.params["temperature"], r.f["temperature"])
          /\ b.f["thinking"] = OpenAiThinking(t, r.f["thinking"])
      BY <1>1, <1>2, <3>1, ResponsesFields
    <3> QED
      BY <1>1, <1>4, <2>3, <3>2 DEF Forgone, ResponsesUnable, Ranged, NumberComes
  <2>4. CASE t.wire = "anthropic"
    <3>1. b = AnthropicBody(t, r)
      BY <2>1, <2>4, Zenon DEF BuildBody
    <3> QED
      BY <1>1, <1>2, <1>4, <2>4, <3>1, AnthropicFields DEF Carried, NumberComes, AnthropicMax
  <2>5. CASE t.wire = "gemini"
    <3>1. b = GeminiBody(t, r)
      BY <2>1, <2>5, Zenon DEF BuildBody
    <3> QED
      BY <1>1, <1>2, <1>4, <2>5, <3>1, GeminiFields DEF Carried, NumberComes
  <2> QED
    BY <1>1, <2>2, <2>3, <2>4, <2>5 DEF IsTarget
<1> QED
  BY <1>3, <1>4

\* A field that is asked for is the same in the prepared request and in the client's
\* body (apply_target_overrides); a level of thinking may be the default there.
LEMMA AttemptAsked ==
  ASSUME NEW t, NEW port, NEW r, NEW b, Attempted(t, port, r, b), NEW x \in FieldNames, ~Overridden(t, x)
  PROVE  /\ r.raw.f[x] = asked[x]
         /\ x \notin {"thinking", "choice"} => r.f[x] = asked[x]
         /\ x = "thinking" /\ asked[x] # "odd" =>
              \/ r.f[x] = asked[x]
              \/ asked[x] = "adaptive" /\ r.f[x] = "default" /\ client = "anthropic"
<1>1. IsTarget(t) /\ AsDecoded /\ client \in Formats
  BY DEF Attempted, AsDecoded
<1>2. r.f[x] = canon.f[x] /\ r.raw.f[x] = asked[x]
  BY AttemptPrepared
<1>3. x \notin {"thinking", "choice"} => r.f[x] = asked[x]
  BY <1>1, <1>2, KnownIs
<1>4. x = "thinking" /\ asked[x] # "odd" =>
        r.f[x] = asked[x] \/ (asked[x] = "adaptive" /\ r.f[x] = "default" /\ client = "anthropic")
  BY <1>1, <1>2, KnownIs
<1> QED
  BY <1>2, <1>3, <1>4

\* Stop sequences and tools reach the upstream (build_body, normalize_passthrough_body).
LEMMA AttemptLists ==
  ASSUME NEW t, NEW port, NEW r, NEW b, Attempted(t, port, r, b),
         NEW x \in {"stop", "tools"}, AskedFor(t, x)
  PROVE  \/ b.f[x] = asked[x]
         \/ b.f[x] = Absent /\ t.wire = "responses" /\ x \in ResponsesUnable /\ Drops(t, x)
<1>1. asked[x] # Absent /\ ~Overridden(t, x) /\ x \in FieldNames /\ x \notin {"thinking", "choice"}
  BY DEF AskedFor, FieldNames
<1>2. r.raw.f[x] = asked[x] /\ r.f[x] = asked[x]
  BY <1>1, AttemptAsked
<1>3. /\ b.f["tools"] \in {r.f["tools"], r.raw.f["tools"]}
      /\ \/ b.f["stop"] \in {r.f["stop"], r.raw.f["stop"]}
         \/ t.wire = "responses" /\ b.f["stop"] = Absent /\ (r.f["stop"] = Absent \/ Drops(t, "stop"))
  BY AttemptBody
<1> QED
  BY <1>1, <1>2, <1>3 DEF ResponsesUnable

\* The smaller of two limits reaches the upstream (build_body, normalize_passthrough_body).
LEMMA AttemptLimit ==
  ASSUME NEW t, NEW port, NEW r, NEW b, Attempted(t, port, r, b), Given, AskedFor(t, "max")
  PROVE  /\ b.f["max"] \in {asked["max"], t.limit} \ {Absent}
         /\ b.f["max"] <= asked["max"]
         /\ t.limit # Absent /\ t.wire # "anthropic" => b.f["max"] <= t.limit
<1>1. asked["max"] # Absent /\ ~Overridden(t, "max") /\ "max" \in FieldNames
  BY DEF AskedFor, FieldNames
<1>2. IsTarget(t) /\ client \in Formats
  BY AttemptBody DEF AsDecoded
<1>3. r.f["max"] = asked["max"] /\ asked["max"] \in Int
  <2>1. r.f["max"] = asked["max"]
    BY <1>1, AttemptAsked
  <2>2. asked["max"] \in Int \cup {Absent}
    BY <1>2, GivenIs
  <2> QED
    BY <1>1, <2>1, <2>2
<1>4. t.limit \in Nat \cup {Absent} /\ Absent \notin Int
  BY <1>2, RequestBounds DEF IsTarget
<1>5. /\ t.wire # "anthropic" => b.f["max"] = Limited(t, asked["max"])
      /\ t.wire = "anthropic" => b.f["max"] = asked["max"]
  BY <1>1, <1>3, AttemptBody
<1> QED
  BY <1>1, <1>3, <1>4, <1>5 DEF Limited

\* A number on its way to a model (OpenAiNumber, ResponsesNumber, AnthropicNumber).
LEMMA NumbersReach ==
  ASSUME NEW s, s = Absent \/ IsSpec(s), NEW v \in Int, v # Absent,
         NEW n \in {OpenAiNumber(s, v), ResponsesNumber(s, v), AnthropicNumber(s, v)}
  PROVE  \/ n = v
         \/ s # Absent /\ v \notin s.min..s.max /\ n \in {s.min, s.max}
         \/ s # Absent /\ ~s.supported /\ n = Absent
<1>1. CASE s = Absent
  BY <1>1, Zenon DEF OpenAiNumber, ResponsesNumber, AnthropicNumber
<1>2. CASE s # Absent
  <2>1. PICK c : c = Clamped(s, v)
    OBVIOUS
  <2>2. s.min \in Int /\ s.max \in Int /\ s.supported \in BOOLEAN
    BY <1>2 DEF IsSpec
  <2>3. c = v \/ (v \notin s.min..s.max /\ c \in {s.min, s.max})
    BY <2>1, <2>2 DEF Clamped
  <2>4. /\ ~s.supported => OpenAiNumber(s, v) = Absent
        /\ s.supported => OpenAiNumber(s, v) = c
    BY <1>2, <2>1, <2>2, Zenon DEF OpenAiNumber
  <2>5. ResponsesNumber(s, v) = IF ~s.supported /\ s.policy = "drop" THEN Absent ELSE c
    BY <1>2, <2>1, Zenon DEF ResponsesNumber
  <2>6. AnthropicNumber(s, v) = IF ~s.supported THEN Absent ELSE v
    BY <1>2 DEF AnthropicNumber
  <2> QED
    BY <1>2, <2>2, <2>3, <2>4, <2>5, <2>6
<1> QED
  BY <1>1, <1>2

\* A number that reaches the upstream is the client's, or within the model's range.
LEMMA AttemptNumbers ==
  ASSUME NEW t, NEW port, NEW r, NEW b, Attempted(t, port, r, b), Given, NEW x \in Ranged, AskedFor(t, x)
  PROVE  LET s == t.params[x] IN
         \/ b.f[x] = asked[x]
         \/ s # Absent /\ asked[x] \notin s.min..s.max /\ b.f[x] \in {s.min, s.max}
         \/ s # Absent /\ ~s.supported /\ b.f[x] = Absent
         \/ b.f[x] = Absent /\ t.wire = "responses" /\ x \in ResponsesUnable /\ Drops(t, x)
<1>1. asked[x] # Absent /\ ~Overridden(t, x) /\ x \in FieldNames /\ x \notin {"thinking", "choice"}
  BY DEF AskedFor, FieldNames, Ranged
<1>2. IsTarget(t) /\ client \in Formats /\ NumberComes(t, r, b, x)
  BY AttemptBody DEF AsDecoded
<1>3. r.f[x] = asked[x] /\ r.raw.f[x] = asked[x]
  BY <1>1, AttemptAsked
<1>4. asked[x] \in Int
  <2>1. asked[x] \in Int \cup {Absent}
    BY <1>2, GivenIs
  <2> QED
    BY <1>1, <2>1
<1>5. PICK s, v, n : s = t.params[x] /\ v = asked[x] /\ n = b.f[x]
  OBVIOUS
<1>6. s = Absent \/ IsSpec(s)
  BY <1>2, <1>5 DEF IsTarget, Tunable
<1>7. \/ n \in {OpenAiNumber(s, v), ResponsesNumber(s, v), AnthropicNumber(s, v)}
      \/ n = v
      \/ n = Absent /\ t.wire = "responses" /\ x \in ResponsesUnable /\ Drops(t, x)
  BY <1>1, <1>2, <1>3, <1>5 DEF NumberComes
<1>8. CASE n \in {OpenAiNumber(s, v), ResponsesNumber(s, v), AnthropicNumber(s, v)}
  <2>1. \/ n = v
        \/ s # Absent /\ v \notin s.min..s.max /\ n \in {s.min, s.max}
        \/ s # Absent /\ ~s.supported /\ n = Absent
    BY <1>1, <1>4, <1>5, <1>6, <1>8, NumbersReach
  <2> QED
    BY <1>5, <2>1
<1> QED
  BY <1>5, <1>7, <1>8

\* The level of thinking reaches the upstream (apply_thinking_map).
LEMMA AttemptThinking ==
  ASSUME NEW t, NEW port, NEW r, NEW b, Attempted(t, port, r, b), Given,
         ~IsPassthrough(t) => ~ThinkingUnsupported(t, r),
         AskedFor(t, "thinking"), asked["thinking"] # "odd"
  PROVE  \/ b.f["thinking"] = asked["thinking"]
         \/ asked["thinking"] = "adaptive" /\ t.wire # "anthropic" /\ b.f["thinking"] \in {"default", Absent}
         \/ /\ IsPassthrough(t) /\ asked["thinking"] \notin t.map.levels
            /\ \/ t.wire = "responses" /\ b.f["thinking"] = Absent
               \/ t.wire = "anthropic" /\ t.map.adaptive /\ b.f["thinking"] = "adaptive"
<1>1. asked["thinking"] # Absent /\ ~Overridden(t, "thinking") /\ "thinking" \in FieldNames
  BY DEF AskedFor, FieldNames
<1>2. PICK a, l, h : a = asked["thinking"] /\ l = r.f["thinking"] /\ h = b.f["thinking"]
  OBVIOUS
<1>3. r.raw.f["thinking"] = a /\ (l = a \/ (a = "adaptive" /\ l = "default" /\ client = "anthropic"))
  BY <1>1, <1>2, AttemptAsked
<1>4. IsTarget(t) /\ client \in Formats
  BY AttemptBody DEF AsDecoded
<1>5. /\ "default" # Absent /\ "off" # Absent /\ "default" # "off" /\ a \in {"low", "off", "adaptive"} /\ a # Absent
      /\ client # "anthropic" => a # "adaptive"
  <2>1. "default" # Absent /\ "off" # Absent
    BY RequestBounds DEF Words
  <2> QED
    BY <1>1, <1>2, <1>4, <2>1, GivenIs
<1>6. /\ t.wire = "openai" /\ IsPassthrough(t) => h = a
      /\ t.wire = "anthropic" /\ IsPassthrough(t) =>
           /\ h = IF t.map.adaptive /\ l # Absent THEN AnthropicThinking(t, l) ELSE a
           /\ ~(t.map.adaptive /\ l = "off" /\ "off" \notin t.map.levels)
      /\ t.wire = "anthropic" /\ ~IsPassthrough(t) => h = AnthropicThinking(t, l)
      /\ t.wire = "responses" \/ (t.wire # "anthropic" /\ ~IsPassthrough(t)) => h = OpenAiThinking(t, l)
  BY <1>2, <1>3, AttemptBody DEF PassedThinking
<1>7. IsPassthrough(t) <=> t.wire = client
  BY DEF IsPassthrough
<1>8. ~IsPassthrough(t) => l \in t.map.levels \/ (l = "default" /\ t.map.adaptive)
  BY <1>2, <1>3, <1>5 DEF ThinkingUnsupported, LevelIsExecutable
<1>9. /\ OpenAiThinking(t, l) = IF l \in t.map.levels THEN l ELSE Absent
      /\ AnthropicThinking(t, l) = IF l \in t.map.levels /\ ~(t.map.adaptive /\ l = "default") THEN l
                                   ELSE IF t.map.adaptive /\ l \notin {"off", Absent} THEN "adaptive" ELSE Absent
  BY DEF OpenAiThinking, AnthropicThinking
<1>10. CASE t.wire = "anthropic"
  BY <1>2, <1>3, <1>5, <1>6, <1>7, <1>8, <1>9, <1>10
<1>11. CASE t.wire # "anthropic"
  <2>1. CASE IsPassthrough(t) /\ t.wire # "responses"
    <3>1. t.wire = "openai"
      BY <1>4, <1>7, <1>11, <2>1 DEF Formats
    <3> QED
      BY <1>2, <1>6, <2>1, <3>1
  <2>2. CASE IsPassthrough(t) /\ t.wire = "responses"
    BY <1>2, <1>3, <1>5, <1>6, <1>7, <1>9, <2>2
  <2>3. CASE ~IsPassthrough(t)
    <3>1. h = IF l \in t.map.levels THEN l ELSE Absent
      BY <1>6, <1>9, <1>11, <2>3
    <3> QED
      BY <1>2, <1>3, <1>5, <1>8, <1>11, <2>3, <3>1
  <2> QED
    BY <2>1, <2>2, <2>3
<1> QED
  BY <1>10, <1>11

\* What the policy of a model refuses is not sent to it (check_param_policy).
LEMMA AttemptPolicy ==
  ASSUME NEW t, NEW port, NEW r, NEW b, Attempted(t, port, r, b), Given, ~PolicyRejects(t, r), NEW x \in Ranged,
         t.params[x] # Absent, t.params[x].policy = "reject", b.f[x] # Absent
  PROVE  /\ t.params[x].supported
         /\ b.f[x] \in t.params[x].min..t.params[x].max \/ b.f[x] = t.params[x].default
<1>1. IsTarget(t) /\ AsDecoded /\ client \in Formats /\ NumberComes(t, r, b, x)
  BY AttemptBody DEF AsDecoded
<1>2. x \in FieldNames /\ x \notin {"thinking", "choice"}
  BY DEF FieldNames, Ranged
<1>3. PICK s, v, n : s = t.params[x] /\ v = r.f[x] /\ n = b.f[x]
  OBVIOUS
<1>4. v \in Int \cup {Absent} /\ r.raw.f[x] = v
  <2>1. CASE Overridden(t, x)
    <3>1. v = t.override[2] /\ r.raw.f[x] = t.override[2]
      BY <1>2, <1>3, <2>1, AttemptPrepared DEF Ranged
    <3>2. t.override[2] \in Int \cup {Absent}
      BY <1>1, <2>1 DEF IsTarget, Overridden
    <3> QED
      BY <3>1, <3>2
  <2>2. CASE ~Overridden(t, x)
    <3>1. v = asked[x] /\ r.raw.f[x] = asked[x]
      BY <1>2, <1>3, <2>2, AttemptAsked
    <3>2. asked[x] \in Int \cup {Absent}
      BY <1>1, GivenIs
    <3> QED
      BY <3>1, <3>2
  <2> QED
    BY <2>1, <2>2
<1>5. s # Absent /\ s.policy = "reject" /\ s.min \in Int /\ s.max \in Int /\ s.supported \in BOOLEAN
  BY <1>1, <1>3 DEF IsTarget, IsSpec, Tunable
<1>6. v # Absent => s.supported /\ v \in Int /\ v \in s.min..s.max /\ Clamped(s, v) = v
  <2>1. v # Absent => s.supported /\ ~(v < s.min) /\ ~(v > s.max)
    BY <1>3 DEF PolicyRejects, Refuses
  <2> QED
    BY <1>4, <1>5, <2>1 DEF Clamped
<1>7. PICK c : c = Clamped(s, v)
  OBVIOUS
<1>8. /\ ~s.supported => OpenAiNumber(s, v) = Absent
      /\ s.supported => OpenAiNumber(s, v) = IF v = Absent THEN s.default ELSE c
  BY <1>5, <1>7, Zenon DEF OpenAiNumber
<1>9. /\ v = Absent => ResponsesNumber(s, v) = IF s.supported THEN s.default ELSE Absent
      /\ v # Absent => ResponsesNumber(s, v) = IF ~s.supported /\ s.policy = "drop" THEN Absent ELSE c
  BY <1>5, <1>7, Zenon DEF ResponsesNumber
<1>10. AnthropicNumber(s, v) \in {Absent, v}
  BY DEF AnthropicNumber
<1>11. n \in {OpenAiNumber(s, v), ResponsesNumber(s, v), AnthropicNumber(s, v), v}
  BY <1>3, <1>4, <1>1 DEF NumberComes
<1>12. n # Absent
  BY <1>3
<1>13. s.supported /\ (n = v \/ n = s.default) /\ (n = v => n \in s.min..s.max)
  BY <1>5, <1>6, <1>7, <1>8, <1>9, <1>10, <1>11, <1>12
<1> QED
  BY <1>3, <1>13

-----------------------------------------------------------------------------
(* The steps of a request.                                                  *)

\* A list, of its own members.
IsList(s) == s \in Seq({s[k] : k \in DOMAIN s})

\* The fields that are given.
FieldsOf(f) == {x \in FieldNames : f[x] # Absent}

\* The state of a request is of its types.
RequestShape ==
  /\ client \in Formats /\ plan \in Routes
  /\ chat \in Seq(ChatMessages(client)) /\ DOMAIN asked = FieldNames /\ Given /\ Said <= MaxSaid
  /\ step \in {"compose", "decoded", "waiting", "done"}
  /\ warned \in BOOLEAN /\ next \in 1..Len(plan.targets)
  /\ IsList(sent)

\* While it is tried, the request is what the decoder made of the client's, each target of the
\* plan is tried at most once and prev is the provider of the last one tried.
RequestIInv ==
  /\ RequestShape
  /\ step = "compose" => sent = << >>
  /\ step \in {"decoded", "waiting"} => canon = DecodeRequest(client, chat, asked) /\ canon.ok
  /\ Attempts <= next /\ (step = "decoded" => Attempts < next)
  /\ prev = IF sent = << >> THEN Absent ELSE sent[Len(sent)].to.provider

\* There are finitely many fields (FieldNames).
LEMMA FieldsAreFinite == IsFiniteSet(FieldNames)
<1>1. ASSUME NEW S, IsFiniteSet(S), NEW a, NEW b, NEW c PROVE IsFiniteSet(S \cup {a, b, c})
  <2>1. IsFiniteSet(S \cup {a})
    BY <1>1, FS_AddElement
  <2>2. IsFiniteSet((S \cup {a}) \cup {b})
    BY <2>1, FS_AddElement
  <2>3. IsFiniteSet(((S \cup {a}) \cup {b}) \cup {c})
    BY <2>2, FS_AddElement
  <2>4. ((S \cup {a}) \cup {b}) \cup {c} = S \cup {a, b, c}
    OBVIOUS
  <2> QED
    BY <2>3, <2>4
<1>2. IsFiniteSet({})
  BY FS_EmptySet
<1>3. PICK A : A = {} \cup {"temperature", "top_k", "stop"}
  OBVIOUS
<1>4. PICK B : B = A \cup {"seed", "penalty", "max"}
  OBVIOUS
<1>5. PICK C : C = B \cup {"thinking", "tools", "choice"}
  OBVIOUS
<1>6. PICK D : D = C \cup {"n", "cache_key", "unknown"}
  OBVIOUS
<1>7. IsFiniteSet(A)
  BY <1>1, <1>2, <1>3
<1>8. IsFiniteSet(B)
  BY <1>1, <1>4, <1>7
<1>9. IsFiniteSet(C)
  BY <1>1, <1>5, <1>8
<1>10. IsFiniteSet(D)
  BY <1>1, <1>6, <1>9
<1>11. D = FieldNames
  BY <1>3, <1>4, <1>5, <1>6 DEF FieldNames
<1> QED
  BY <1>10, <1>11

\* How many fields are given.
LEMMA FieldsSaid ==
  ASSUME NEW f
  PROVE  IsFiniteSet(FieldsOf(f)) /\ Cardinality(FieldsOf(f)) \in Nat
<1>1. FieldsOf(f) \subseteq FieldNames
  BY DEF FieldsOf
<1>2. IsFiniteSet(FieldsOf(f))
  BY <1>1, FieldsAreFinite, FS_Subset
<1> QED
  BY <1>2, FS_CardinalityType

\* One field more (Ask).
LEMMA OneMoreField ==
  ASSUME NEW f, DOMAIN f = FieldNames, NEW y, NEW v, NEW g, g = [f EXCEPT ![y] = v]
  PROVE  Cardinality(FieldsOf(g)) <= Cardinality(FieldsOf(f)) + 1
<1>1. PICK A, B : A = FieldsOf(f) /\ B = FieldsOf(g)
  OBVIOUS
<1>2. \A x \in FieldNames : x # y => g[x] = f[x]
  OBVIOUS
<1>3. B \subseteq A \cup {y}
  BY <1>1, <1>2 DEF FieldsOf
<1>4. IsFiniteSet(A) /\ Cardinality(A) \in Nat /\ Cardinality(B) \in Nat
  BY <1>1, FieldsSaid
<1>5. IsFiniteSet(A \cup {y}) /\ Cardinality(A \cup {y}) <= Cardinality(A) + 1
  BY <1>4, FS_AddElement
<1>6. Cardinality(B) <= Cardinality(A \cup {y})
  BY <1>3, <1>5, FS_Subset
<1>7. Cardinality(A \cup {y}) \in Nat
  BY <1>5, FS_CardinalityType
<1> QED
  BY <1>1, <1>4, <1>5, <1>6, <1>7

\* A field that a client gives is one of the fields (ChatFields).
LEMMA ChatFieldsAre ==
  ASSUME NEW c, NEW fv \in ChatFields(c)
  PROVE  fv[1] \in FieldNames /\ <<fv[1], fv[2]>> \in ChatFields(c)
<1>1. fv = <<fv[1], fv[2]>>
  BY DEF ChatFields
<1>2. fv[1] \in FieldNames
  BY DEF ChatFields, FieldNames
<1> QED
  BY <1>1, <1>2

\* A list is one of its own members, and grows by one.
LEMMA Appended ==
  ASSUME NEW s, IsList(s), NEW e, NEW u, u = Append(s, e)
  PROVE  /\ Len(s) \in Nat /\ DOMAIN s = 1..Len(s)
         /\ Len(u) = Len(s) + 1 /\ DOMAIN u = 1..(Len(s) + 1) /\ u[Len(u)] = e
         /\ \A k \in DOMAIN s : u[k] = s[k]
         /\ IsList(u)
<1>1. PICK S : S = {s[k] : k \in DOMAIN s} \cup {e}
  OBVIOUS
<1>2. /\ Len(s) \in Nat /\ DOMAIN s = 1..Len(s)
  BY DEF IsList
<1>3. \A k \in 1..Len(s) : s[k] \in S
  BY <1>1, <1>2
<1>4. s \in Seq(S)
  BY <1>1 DEF IsList
<1>5. /\ Len(u) = Len(s) + 1 /\ DOMAIN u = 1..(Len(s) + 1) /\ u[Len(u)] = e
      /\ \A k \in DOMAIN s : u[k] = s[k]
  BY <1>1, <1>2, <1>4
<1>6. PICK T : T = {u[k] : k \in DOMAIN u}
  OBVIOUS
<1>7. \A k \in DOMAIN s : s[k] \in T
  BY <1>2, <1>5, <1>6
<1>8. e \in T
  BY <1>2, <1>5, <1>6
<1>9. {s[k] : k \in DOMAIN s} \subseteq T
  BY <1>7
<1>10. s \in Seq(T)
  BY <1>9 DEF IsList
<1>11. u \in Seq(T)
  BY <1>8, <1>10
<1> QED
  BY <1>2, <1>5, <1>6, <1>11 DEF IsList

\* The invariant gives the types (RequestTypeOK).
LEMMA ShapeIsType == RequestIInv => RequestTypeOK
<1> SUFFICES ASSUME RequestIInv PROVE RequestTypeOK
  OBVIOUS
<1>1. Len(plan.targets) \in Nat
  BY RequestBounds DEF RequestIInv, RequestShape
<1>2. Attempts \in Nat
  BY DEF RequestIInv, RequestShape, Attempts
<1>3. Attempts <= Len(plan.targets)
  BY <1>1, <1>2 DEF RequestIInv, RequestShape
<1> QED
  BY <1>3 DEF RequestIInv, RequestShape, RequestTypeOK

\* The same of the next state.
LEMMA ShapeIsTypeNext == RequestIInv' => RequestTypeOK'
BY ShapeIsType, PTL

\* A request begins with nothing said and nothing sent (RequestInit).
LEMMA RequestStarts ==
  ASSUME RequestInit
  PROVE  RequestIInv /\ RequestSurvives /\ SecretsStayHome
<1>1. /\ client \in Formats /\ plan \in Routes /\ chat = << >> /\ asked = NoFields
      /\ step = "compose" /\ next = 1 /\ prev = Absent /\ sent = << >> /\ warned = FALSE
  BY RequestBounds DEF RequestInit, Formats
<1>2. Len(plan.targets) \in Nat \ {0}
  BY <1>1, RequestBounds
<1>3. chat \in Seq(ChatMessages(client)) /\ Len(chat) = 0
  BY <1>1
<1>4. DOMAIN asked = FieldNames /\ \A x \in FieldNames : asked[x] = Absent
  BY <1>1 DEF NoFields
<1>5. Said <= MaxSaid
  <2>1. FieldsOf(asked) = {}
    BY <1>4 DEF FieldsOf
  <2>2. Said = Len(chat) + Cardinality(FieldsOf(asked))
    BY DEF Said, FieldsOf
  <2> QED
    BY <1>3, <2>1, <2>2, FS_EmptySet, RequestBounds
<1>6. IsList(sent) /\ Attempts = 0 /\ DOMAIN sent = {}
  <2>1. IsList(sent)
    BY <1>1 DEF IsList
  <2> QED
    BY <1>1, <2>1 DEF Attempts
<1>7. RequestShape
  <2>1. Given
    BY <1>4 DEF Given
  <2>2. next \in 1..Len(plan.targets)
    BY <1>1, <1>2
  <2>3. warned \in BOOLEAN
    BY <1>1
  <2>4. step \in {"compose", "decoded", "waiting", "done"}
    BY <1>1
  <2>5. client \in Formats /\ plan \in Routes
    BY <1>1
  <2> QED
    BY <1>3, <1>4, <1>5, <1>6, <2>1, <2>2, <2>3, <2>4, <2>5, Zenon DEF RequestShape
<1>8. RequestIInv
  BY <1>1, <1>6, <1>7 DEF RequestIInv
<1>9. RequestTypeOK
  BY <1>8, ShapeIsType
<1> QED
  BY <1>6, <1>8, <1>9
     DEF RequestSurvives, SecretsStayHome, MeaningSurvives, ConversationSurvives, ResultsMatchCalls, PolicyHolds,
         SignaturesStayHome, ThoughtsStopAtTheBoundary, StrippingIsTold

\* What is sent stays sent as long as the request is the same.
LEMMA SentStays ==
  ASSUME RequestSurvives, SecretsStayHome, RequestTypeOK',
         UNCHANGED <<client, plan, chat, asked, sent, warned>>
  PROVE  (RequestSurvives /\ SecretsStayHome)'
<1>1. MeaningSurvives'
  BY DEF RequestSurvives, MeaningSurvives, MeaningReaches, ListReaches, LimitReaches, NumberReaches,
         ThinkingReaches, AskedFor
<1>2. ConversationSurvives' /\ ResultsMatchCalls' /\ PolicyHolds'
  BY DEF RequestSurvives, ConversationSurvives, ConversationReaches, ResultsMatchCalls, ResultsMatch, PolicyHolds
<1>3. SignaturesStayHome'
  BY DEF SecretsStayHome, SignaturesStayHome, SignedAtHome
<1>4. ThoughtsStopAtTheBoundary' /\ StrippingIsTold'
  BY DEF SecretsStayHome, ThoughtsStopAtTheBoundary, StrippingIsTold
<1> QED
  BY <1>1, <1>2, <1>3, <1>4 DEF RequestSurvives, SecretsStayHome

\* Nothing is told of what is not sent yet.
LEMMA NothingSent ==
  ASSUME RequestTypeOK', sent' = << >>
  PROVE  (RequestSurvives /\ SecretsStayHome)'
<1>1. DOMAIN sent' = {}
  OBVIOUS
<1>2. MeaningSurvives' /\ ConversationSurvives' /\ ResultsMatchCalls' /\ PolicyHolds'
  BY <1>1 DEF MeaningSurvives, ConversationSurvives, ResultsMatchCalls, PolicyHolds
<1>3. SignaturesStayHome' /\ ThoughtsStopAtTheBoundary' /\ StrippingIsTold'
  BY <1>1 DEF SignaturesStayHome, ThoughtsStopAtTheBoundary, StrippingIsTold
<1> QED
  BY <1>2, <1>3 DEF RequestSurvives, SecretsStayHome

\* The client goes on composing, or hands the request in (Say, Ask, Submit).
LEMMA Composed ==
  ASSUME RequestIInv, Say \/ Ask \/ Submit
  PROVE  RequestIInv' /\ sent' = << >>
<1>1. /\ step = "compose" /\ sent = << >> /\ sent' = sent /\ prev' = prev /\ warned' = warned
      /\ client' = client /\ plan' = plan /\ next' = next
  BY DEF Say, Ask, Submit, RequestIInv
<1>2. /\ Len(chat) \in Nat /\ Cardinality(FieldsOf(asked)) \in Nat /\ MaxSaid \in Nat
      /\ Said = Len(chat) + Cardinality(FieldsOf(asked))
      /\ Said' = Len(chat') + Cardinality(FieldsOf(asked'))
  <2>1. Len(chat) \in Nat
    BY DEF RequestIInv, RequestShape
  <2>2. Cardinality(FieldsOf(asked)) \in Nat /\ MaxSaid \in Nat
    BY FieldsSaid, RequestBounds
  <2>3. /\ Said = Len(chat) + Cardinality(FieldsOf(asked))
        /\ Said' = Len(chat') + Cardinality(FieldsOf(asked'))
    BY Zenon DEF Said, FieldsOf
  <2> QED
    BY <2>1, <2>2, <2>3
<1>3. Attempts' = 0 /\ prev' = Absent /\ next' \in Nat \ {0} /\ sent' = << >>
  BY <1>1 DEF RequestIInv, RequestShape, Attempts
<1>4. ASSUME RequestShape',
             step' \in {"decoded", "waiting"} => canon' = DecodeRequest(client', chat', asked') /\ canon'.ok
      PROVE  RequestIInv'
  <2>1. 0 <= next' /\ 0 < next'
    BY <1>3
  <2> QED
    BY <1>3, <1>4, <2>1 DEF RequestIInv
<1>5. CASE Say
  <2>1. PICK m \in ChatMessages(client) : chat' = Append(chat, m)
    BY <1>5 DEF Say
  <2>2. asked' = asked /\ step' = step /\ Said < MaxSaid
    BY <1>5 DEF Say
  <2>3. chat' \in Seq(ChatMessages(client)) /\ Len(chat') = Len(chat) + 1
    BY <2>1 DEF RequestIInv, RequestShape
  <2>4. Said' <= MaxSaid
    BY <1>2, <2>2, <2>3
  <2>5. RequestShape'
    BY <1>1, <2>2, <2>3, <2>4 DEF RequestIInv, RequestShape, Given
  <2> QED
    BY <1>1, <1>4, <2>2, <2>5
<1>6. CASE Ask
  <2>1. PICK fv \in ChatFields(client) : asked[fv[1]] = Absent /\ asked' = [asked EXCEPT ![fv[1]] = fv[2]]
    BY <1>6 DEF Ask
  <2>2. chat' = chat /\ step' = step /\ Said < MaxSaid
    BY <1>6 DEF Ask
  <2>3. fv[1] \in FieldNames /\ <<fv[1], fv[2]>> \in ChatFields(client)
    BY ChatFieldsAre
  <2>4. DOMAIN asked' = FieldNames
    BY <2>1 DEF RequestIInv, RequestShape
  <2>5. Given'
    <3> SUFFICES ASSUME NEW x \in FieldNames, asked'[x] # Absent
                 PROVE <<x, asked'[x]>> \in ChatFields(client)
      BY <1>1 DEF Given
    <3>1. CASE x = fv[1]
      BY <2>1, <2>3, <3>1 DEF RequestIInv, RequestShape
    <3>2. CASE x # fv[1]
      <4>1. asked'[x] = asked[x]
        BY <2>1, <3>2 DEF RequestIInv, RequestShape
      <4> QED
        BY <4>1 DEF RequestIInv, RequestShape, Given
    <3> QED
      BY <3>1, <3>2
  <2>6. Said' <= MaxSaid
    <3>1. PICK f, g, y, v : f = asked /\ g = asked' /\ y = fv[1] /\ v = fv[2]
      OBVIOUS
    <3>2. DOMAIN f = FieldNames /\ g = [f EXCEPT ![y] = v]
      BY <2>1, <3>1 DEF RequestIInv, RequestShape
    <3>3. Cardinality(FieldsOf(g)) <= Cardinality(FieldsOf(f)) + 1
      BY <3>2, OneMoreField
    <3>4. Cardinality(FieldsOf(g)) \in Nat
      BY FieldsSaid
    <3> QED
      BY <1>2, <2>2, <3>1, <3>3, <3>4
  <2>7. RequestShape'
    BY <1>1, <2>2, <2>4, <2>5, <2>6 DEF RequestIInv, RequestShape
  <2> QED
    BY <1>1, <1>4, <2>2, <2>7
<1>7. CASE Submit
  <2>1. /\ canon' = DecodeRequest(client, chat, asked)
        /\ step' = IF canon'.ok THEN "decoded" ELSE "done"
        /\ chat' = chat /\ asked' = asked
    BY <1>7 DEF Submit
  <2>2. Said' = Said
    BY <1>2, <2>1
  <2>3. RequestShape'
    BY <1>1, <2>1, <2>2 DEF RequestIInv, RequestShape, Given
  <2> QED
    BY <1>1, <1>4, <2>1, <2>3
<1> QED
  BY <1>5, <1>6, <1>7, <1>3

\* Between the attempts (UpstreamAnswers, UpstreamFails, SkipTarget, and a dispatch that ends
\* the request) nothing is sent, and the next target comes later in the plan.
LEMMA BetweenAttempts ==
  ASSUME RequestIInv, step # "compose",
         UNCHANGED <<client, plan, chat, asked, canon, prev, sent, warned>>,
         \/ step' = "done" /\ next' = next
         \/ step' = "decoded" /\ step \in {"decoded", "waiting"} /\ next' = next + 1 /\ next < Len(plan.targets)
         \/ step' = step /\ next' = next
  PROVE  RequestIInv'
<1>1. Len(plan.targets) \in Nat /\ next \in 1..Len(plan.targets) /\ Attempts \in Nat /\ Attempts <= next
  BY RequestBounds DEF RequestIInv, RequestShape, Attempts, IsList
<1>2. Attempts' = Attempts
  BY DEF Attempts
<1>3. next' \in 1..Len(plan.targets) /\ Attempts' <= next' /\ (step' = "decoded" => Attempts' < next')
  BY <1>1, <1>2 DEF RequestIInv
<1>4. /\ step' \in {"compose", "decoded", "waiting", "done"} /\ step' # "compose"
      /\ step' \in {"decoded", "waiting"} => step \in {"decoded", "waiting"}
  BY DEF RequestIInv, RequestShape
<1>5. Said' = Said
  BY DEF Said
<1>6. RequestShape'
  <2>1. Given' /\ IsList(sent)' /\ plan' = plan
    BY DEF RequestIInv, RequestShape, Given, IsList
  <2> QED
    BY <1>3, <1>4, <1>5, <2>1 DEF RequestIInv, RequestShape
<1>7. (canon = DecodeRequest(client, chat, asked) /\ canon.ok) \/ step' = "done"
  BY <1>4 DEF RequestIInv
<1>8. step' \in {"decoded", "waiting"} => canon' = DecodeRequest(client', chat', asked') /\ canon'.ok
  BY <1>7
<1> QED
  BY <1>3, <1>4, <1>6, <1>8 DEF RequestIInv

\* What is added to the history of what was sent.
SentNow(e, t, b) ==
  e.to = t /\ (e.pass <=> IsPassthrough(t)) /\ e.msgs = b.msgs /\ e.f = b.f

\* An attempt that is sent.
Sends(t, port, r, b, e) ==
  /\ t = plan.targets[next] /\ port = PortabilityOf(t, canon) /\ port # "reject"
  /\ r = PreparedOf(t, canon, port) /\ ~PolicyRejects(t, r)
  /\ ~IsPassthrough(t) => ~TranslationUnsupported(r) /\ ~ThinkingUnsupported(t, r)
  /\ b = UpstreamBody(t, r) /\ b.ok
  /\ SentNow(e, t, b) /\ sent' = Append(sent, e) /\ prev' = t.provider
  /\ warned' = (warned \/ port = "strip") /\ step' = "waiting"

\* A dispatch ends the request, or sends what passed all checks (Dispatch).
LEMMA DispatchIs ==
  ASSUME Dispatch
  PROVE  /\ step = "decoded" /\ UNCHANGED <<client, plan, chat, asked, canon, next>>
         /\ \/ step' = "done" /\ UNCHANGED <<sent, prev, warned>>
            \/ \E t, port, r, b, e : Sends(t, port, r, b, e)
<1>1. PICK t, port : t = plan.targets[next] /\ port = PortabilityOf(t, canon)
  OBVIOUS
<1>2. PICK r : r = PreparedOf(t, canon, port)
  OBVIOUS
<1>3. PICK b : b = UpstreamBody(t, r)
  OBVIOUS
<1>4. PICK e : e = [to |-> t, pass |-> IsPassthrough(t), msgs |-> b.msgs, f |-> b.f]
  OBVIOUS
<1>5. SentNow(e, t, b)
  <2>1. PICK p : p = IsPassthrough(t)
    OBVIOUS
  <2>2. e = [to |-> t, pass |-> p, msgs |-> b.msgs, f |-> b.f]
    BY <1>4, <2>1, Zenon
  <2>3. e.to = t /\ e.pass = p /\ e.msgs = b.msgs /\ e.f = b.f
    BY <2>2
  <2> QED
    BY <2>1, <2>3, Zenon DEF SentNow
<1>6. r = ApplyOverrides(t, Hydrate(t, IF port = "strip" THEN StripNonportable(t, canon) ELSE canon))
  BY <1>2 DEF PreparedOf
<1>7. step = "decoded" /\ UNCHANGED <<client, plan, chat, asked, canon, next>>
  BY DEF Dispatch
<1>8. IF NameReused(t, canon) THEN End("bad_request")
      ELSE IF \/ port = "reject" \/ PolicyRejects(t, r)
              \/ ~IsPassthrough(t) /\ (TranslationUnsupported(r) \/ ThinkingUnsupported(t, r))
           THEN End("unsupported")
      ELSE IF ~b.ok THEN End("bad_request")
      ELSE /\ sent' = Append(sent, e)
           /\ prev' = t.provider
           /\ warned' = (warned \/ port = "strip")
           /\ step' = "waiting" /\ UNCHANGED verdict
  BY <1>1, <1>3, <1>4, <1>6, Zenon DEF Dispatch
<1>9. CASE step' = "done" /\ UNCHANGED <<sent, prev, warned>>
  BY <1>7, <1>9
<1>10. CASE ~(step' = "done" /\ UNCHANGED <<sent, prev, warned>>)
  <2>1. \A why : ~End(why)
    BY <1>10 DEF End
  <2>2. /\ port # "reject" /\ ~PolicyRejects(t, r)
        /\ ~IsPassthrough(t) => ~TranslationUnsupported(r) /\ ~ThinkingUnsupported(t, r)
        /\ b.ok /\ sent' = Append(sent, e) /\ prev' = t.provider
        /\ warned' = (warned \/ port = "strip") /\ step' = "waiting"
    BY <1>8, <2>1, Zenon
  <2>3. Sends(t, port, r, b, e)
    BY <1>1, <1>2, <1>3, <1>5, <2>2, Zenon DEF Sends
  <2> QED
    BY <1>7, <2>3, Zenon
<1> QED
  BY <1>9, <1>10, Zenon

\* A request is sent to a target of its plan, once (Dispatch).
LEMMA SendingKeepsOrder ==
  ASSUME RequestIInv, step = "decoded", UNCHANGED <<client, plan, chat, asked, canon, next>>,
         NEW t, NEW port, NEW r, NEW b, NEW e, Sends(t, port, r, b, e)
  PROVE  RequestIInv'
<1>1. IsList(sent) /\ sent' = Append(sent, e) /\ e.to = t /\ prev' = t.provider /\ step' = "waiting"
  BY DEF RequestIInv, RequestShape, Sends, SentNow
<1>2. PICK s, u : s = sent /\ u = sent'
  OBVIOUS
<1>3. IsList(s) /\ u = Append(s, e)
  BY <1>1, <1>2
<1>4. /\ Len(s) \in Nat /\ DOMAIN s = 1..Len(s)
      /\ Len(u) = Len(s) + 1 /\ DOMAIN u = 1..(Len(s) + 1) /\ u[Len(u)] = e
  BY <1>3, Appended
<1>5. IsList(u)
  BY <1>3, Appended
<1>6. Attempts' = Attempts + 1 /\ Attempts \in Nat /\ next \in Nat /\ Attempts < next
  BY <1>2, <1>4, RequestBounds DEF Attempts, RequestIInv, RequestShape
<1>7. prev' = IF sent' = << >> THEN Absent ELSE sent'[Len(sent')].to.provider
  <2>1. sent' # << >>
    BY <1>2, <1>4
  <2> QED
    BY <1>1, <1>2, <1>4, <2>1
<1>8. warned' \in BOOLEAN
  BY Zenon DEF Sends
<1>9. Said' = Said /\ Given'
  BY DEF Said, Given, RequestIInv, RequestShape
<1>10. RequestShape'
  BY <1>1, <1>2, <1>5, <1>8, <1>9 DEF RequestIInv, RequestShape
<1>11. Attempts' <= next'
  BY <1>6
<1> QED
  BY <1>1, <1>7, <1>10, <1>11 DEF RequestIInv

\* What was sent has passed the preparation and the checks.
LEMMA SentIsAttempted ==
  ASSUME RequestIInv, step = "decoded", NEW t, NEW port, NEW r, NEW b, NEW e, Sends(t, port, r, b, e)
  PROVE  Attempted(t, port, r, b)
<1>1. AsDecoded
  BY DEF RequestIInv, RequestShape, AsDecoded
<1>2. plan \in Routes /\ next \in DOMAIN plan.targets
  BY RequestBounds DEF RequestIInv, RequestShape
<1>3. IsTarget(t)
  BY <1>2, RequestBounds DEF Sends
<1> QED
  BY <1>1, <1>3 DEF Sends, Attempted

\* What is sent now survives, as what was sent before did (RequestSurvives).
LEMMA SendingSurvives ==
  ASSUME RequestIInv, RequestSurvives, RequestTypeOK', step = "decoded",
         UNCHANGED <<client, plan, chat, asked, canon, next>>,
         NEW t, NEW port, NEW r, NEW b, NEW e, Sends(t, port, r, b, e)
  PROVE  RequestSurvives'
<1>1. Attempted(t, port, r, b) /\ Given
  BY SentIsAttempted DEF RequestIInv, RequestShape
<1>2. /\ e.to = t /\ (e.pass <=> IsPassthrough(t)) /\ e.msgs = b.msgs /\ e.f = b.f
      /\ ~PolicyRejects(t, r) /\ (~IsPassthrough(t) => ~ThinkingUnsupported(t, r))
  BY DEF Sends, SentNow
<1>3. PICK n : n = Len(sent) + 1
  OBVIOUS
<1>4. /\ DOMAIN sent' = DOMAIN sent \cup {n} /\ sent'[n] = e
      /\ \A k \in DOMAIN sent : sent'[k] = sent[k]
  <2>1. PICK s, u : s = sent /\ u = sent'
    OBVIOUS
  <2>2. IsList(s) /\ u = Append(s, e)
    BY <2>1 DEF RequestIInv, RequestShape, Sends
  <2>3. /\ Len(s) \in Nat /\ DOMAIN s = 1..Len(s)
        /\ Len(u) = Len(s) + 1 /\ DOMAIN u = 1..(Len(s) + 1) /\ u[Len(u)] = e
        /\ \A k \in DOMAIN s : u[k] = s[k]
    BY <2>2, Appended
  <2> QED
    BY <1>3, <2>1, <2>3
<1>5. MeaningReaches(e)
  <2>1. ~e.pass => ~Holds(chat, "odd") /\ asked["tools"] # "odd" /\ asked["n"] = Absent
    BY <1>1, <1>2, AttemptTranslated
  <2>2. ~e.pass => ChoiceMeans(e.f["choice"]) = ChoiceMeans(asked["choice"])
    BY <1>1, <1>2, AttemptChoice
  <2>3. \A x \in {"stop", "tools"} : ListReaches(e, x)
    BY <1>1, <1>2, AttemptLists DEF ListReaches
  <2>4. LimitReaches(e)
    BY <1>1, <1>2, AttemptLimit DEF LimitReaches
  <2>5. \A x \in Ranged : NumberReaches(e, x)
    BY <1>1, <1>2, AttemptNumbers DEF NumberReaches
  <2>6. ThinkingReaches(e)
    BY <1>1, <1>2, AttemptThinking DEF ThinkingReaches
  <2> QED
    BY <2>1, <2>2, <2>3, <2>4, <2>5, <2>6 DEF MeaningReaches
<1>6. ConversationReaches(e)
  BY <1>1, <1>2, AttemptContent DEF ConversationReaches
<1>7. ResultsMatch(e)
  <2> SUFFICES ASSUME ~e.pass, ~(\E i \in DOMAIN chat : chat[i].k = "result" /\ chat[i].name # Absent),
                      NEW j \in DOMAIN e.msgs, e.msgs[j].k = "result"
               PROVE  \E i \in 1..(j - 1) :
                        /\ e.msgs[i].k = "call" /\ e.msgs[i].name = e.msgs[j].name
                        /\ e.to.wire # "gemini" => e.msgs[i].id = e.msgs[j].id
    BY DEF ResultsMatch
  <2>1. \A i \in DOMAIN chat : chat[i].k = "result" => chat[i].name = Absent
    OBVIOUS
  <2> QED
    BY <1>1, <1>2, <2>1, AttemptResults
<1>8. \A x \in Ranged : PolicyAllows(e.to.params[x], e.f[x])
  BY <1>1, <1>2, AttemptPolicy DEF PolicyAllows
<1>9. MeaningSurvives'
  <2> SUFFICES ASSUME NEW k \in DOMAIN sent' PROVE MeaningReaches(sent[k])'
    BY DEF MeaningSurvives
  <2>1. CASE k \in DOMAIN sent
    <3>1. MeaningReaches(sent[k]) /\ sent'[k] = sent[k]
      BY <1>4, <2>1 DEF RequestSurvives, MeaningSurvives
    <3> QED
      BY <3>1 DEF MeaningReaches, ListReaches, LimitReaches, NumberReaches, ThinkingReaches, AskedFor
  <2>2. CASE k = n
    <3>1. sent'[k] = e
      BY <1>4, <2>2
    <3> QED
      BY <1>5, <3>1 DEF MeaningReaches, ListReaches, LimitReaches, NumberReaches, ThinkingReaches, AskedFor
  <2> QED
    BY <1>4, <2>1, <2>2
<1>10. ConversationSurvives'
  BY <1>4, <1>6 DEF RequestSurvives, ConversationSurvives, ConversationReaches
<1>11. ResultsMatchCalls'
  <2> SUFFICES ASSUME NEW k \in DOMAIN sent' PROVE ResultsMatch(sent[k])'
    BY DEF ResultsMatchCalls
  <2>1. CASE k \in DOMAIN sent
    <3>1. ResultsMatch(sent[k]) /\ sent'[k] = sent[k]
      BY <1>4, <2>1 DEF RequestSurvives, ResultsMatchCalls
    <3> QED
      BY <3>1 DEF ResultsMatch
  <2>2. CASE k = n
    <3>1. sent'[k] = e
      BY <1>4, <2>2
    <3> QED
      BY <1>7, <3>1 DEF ResultsMatch
  <2> QED
    BY <1>4, <2>1, <2>2
<1>12. PolicyHolds'
  BY <1>4, <1>8 DEF RequestSurvives, PolicyHolds
<1> QED
  BY <1>9, <1>10, <1>11, <1>12 DEF RequestSurvives

\* What is sent now keeps the secrets, as what was sent before did (SecretsStayHome).
LEMMA SendingKeepsSecrets ==
  ASSUME RequestIInv, SecretsStayHome, step = "decoded",
         UNCHANGED <<client, plan, chat, asked, canon, next>>,
         NEW t, NEW port, NEW r, NEW b, NEW e, Sends(t, port, r, b, e)
  PROVE  SecretsStayHome'
<1>1. Attempted(t, port, r, b)
  BY SentIsAttempted
<1>2. e.to = t /\ e.msgs = b.msgs /\ (warned' <=> warned \/ port = "strip")
  BY Zenon DEF Sends, SentNow
<1>3. PICK s, u : s = sent /\ u = sent'
  OBVIOUS
<1>4. IsList(s) /\ u = Append(s, e)
  BY <1>3 DEF RequestIInv, RequestShape, Sends
<1>5. /\ Len(s) \in Nat /\ DOMAIN s = 1..Len(s)
      /\ Len(u) = Len(s) + 1 /\ DOMAIN u = 1..(Len(s) + 1) /\ u[Len(u)] = e
      /\ \A k \in DOMAIN s : u[k] = s[k]
  BY <1>4, Appended
<1>6. SignaturesStayHome'
  <2>1. SignedIn(t, e.msgs)
    BY <1>1, <1>2, AttemptSigned
  <2> SUFFICES ASSUME NEW k \in DOMAIN u, NEW i \in DOMAIN u[k].msgs
               PROVE  SignedAtHome(u[k].to, u[k].msgs[i])
    BY <1>3 DEF SignaturesStayHome, SignedAtHome
  <2>2. CASE k \in DOMAIN s
    BY <1>3, <1>5, <2>2 DEF SecretsStayHome, SignaturesStayHome
  <2>3. CASE k \notin DOMAIN s
    BY <1>2, <1>5, <2>1, <2>3 DEF SignedIn
  <2> QED
    BY <2>2, <2>3
<1>7. ThoughtsStopAtTheBoundary'
  <2> SUFFICES ASSUME NEW k \in DOMAIN u,
                      NEW before, before = IF k = 1 THEN plan.origin ELSE u[k - 1].to.provider,
                      before # Absent, before # u[k].to.provider
               PROVE  ~Holds(u[k].msgs, "think")
    BY <1>3 DEF ThoughtsStopAtTheBoundary
  <2>1. CASE k \in DOMAIN s
    <3>1. k # 1 => u[k - 1] = s[k - 1]
      BY <1>5, <2>1
    <3> QED
      BY <1>3, <1>5, <2>1, <3>1 DEF SecretsStayHome, ThoughtsStopAtTheBoundary
  <2>2. CASE k \notin DOMAIN s
    <3>1. k = Len(s) + 1 /\ u[k] = e
      BY <1>5, <2>2
    <3>2. CASE k = 1
      <4>1. prev = Absent /\ Attempts = 0
        <5>1. s = << >>
          <6>1. PICK S : s \in Seq(S)
            BY <1>4 DEF IsList
          <6>2. Len(s) = 0
            BY <1>5, <3>1, <3>2
          <6> QED
            BY <6>1, <6>2
        <5> QED
          BY <1>3, <5>1 DEF RequestIInv, Attempts
      <4>2. CrossProvider(t)
        BY <1>2, <3>1, <3>2, <4>1 DEF CrossProvider
      <4> QED
        BY <1>1, <1>2, <3>1, <4>2, AttemptThoughts
    <3>3. CASE k # 1
      <4>1. prev = s[Len(s)].to.provider
        BY <1>3, <1>5, <3>1, <3>3 DEF RequestIInv
      <4>2. before = s[Len(s)].to.provider
        BY <1>5, <3>1, <3>3
      <4>3. CrossProvider(t)
        BY <1>2, <3>1, <4>1, <4>2 DEF CrossProvider
      <4> QED
        BY <1>1, <1>2, <3>1, <4>3, AttemptThoughts
    <3> QED
      BY <3>2, <3>3
  <2> QED
    BY <2>1, <2>2
<1>8. StrippingIsTold'
  <2> SUFFICES ASSUME NEW k \in DOMAIN u, Holds(chat, "think"), ~Holds(u[k].msgs, "think")
               PROVE  warned'
    BY <1>3 DEF StrippingIsTold
  <2>1. CASE k \in DOMAIN s
    BY <1>2, <1>3, <1>5, <2>1 DEF SecretsStayHome, StrippingIsTold
  <2>2. CASE k \notin DOMAIN s
    <3>1. u[k] = e
      BY <1>5, <2>2
    <3> QED
      BY <1>1, <1>2, <3>1, AttemptThoughts
  <2> QED
    BY <2>1, <2>2
<1> QED
  BY <1>6, <1>7, <1>8 DEF SecretsStayHome

\* Every step of a request keeps what it promises (RequestNext).
LEMMA RequestSteps ==
  ASSUME RequestIInv, RequestSurvives, SecretsStayHome, [RequestNext]_requestVars
  PROVE  (RequestIInv /\ RequestSurvives /\ SecretsStayHome)'
<1>1. CASE Say \/ Ask \/ Submit
  BY <1>1, Composed, ShapeIsTypeNext, NothingSent
<1>2. CASE Dispatch
  <2>1. step = "decoded" /\ UNCHANGED <<client, plan, chat, asked, canon, next>>
    BY <1>2, DispatchIs
  <2>2. CASE step' = "done" /\ UNCHANGED <<sent, prev, warned>>
    <3>1. RequestIInv'
      BY <2>1, <2>2, BetweenAttempts
    <3> QED
      BY <2>1, <2>2, <3>1, ShapeIsTypeNext, SentStays
  <2>3. CASE \E t, port, r, b, e : Sends(t, port, r, b, e)
    <3>1. PICK t, port, r, b, e : Sends(t, port, r, b, e)
      BY <2>3
    <3>2. RequestIInv'
      BY <2>1, <3>1, SendingKeepsOrder
    <3>3. RequestTypeOK'
      BY <3>2, ShapeIsTypeNext
    <3>4. RequestSurvives'
      BY <2>1, <3>1, <3>3, SendingSurvives
    <3>5. SecretsStayHome'
      BY <2>1, <3>1, SendingKeepsSecrets
    <3> QED
      BY <3>2, <3>4, <3>5
  <2> QED
    BY <1>2, <2>2, <2>3, DispatchIs
<1>3. CASE UpstreamAnswers \/ UpstreamFails \/ SkipTarget \/ RequestDone \/ UNCHANGED requestVars
  <2>1. UNCHANGED <<client, plan, chat, asked, canon, prev, sent, warned>>
    BY <1>3 DEF UpstreamAnswers, UpstreamFails, SkipTarget, RequestDone, requestVars
  <2>2. CASE step = "compose"
    <3>1. UNCHANGED requestVars
      BY <1>3, <2>2 DEF UpstreamAnswers, UpstreamFails, SkipTarget, RequestDone
    <3>2. RequestIInv'
      BY <3>1 DEF requestVars, RequestIInv, RequestShape, Given, IsList, Attempts, Said
    <3> QED
      BY <2>1, <3>2, ShapeIsTypeNext, SentStays
  <2>3. CASE step # "compose"
    <3>1. \/ step' = "done" /\ next' = next
          \/ step' = "decoded" /\ step \in {"decoded", "waiting"} /\ next' = next + 1 /\ next < Len(plan.targets)
          \/ step' = step /\ next' = next
      <4>1. CASE UpstreamFails
        <5>1. step = "waiting" /\ \/ step' = "done" /\ next' = next
                                  \/ next # Len(plan.targets) /\ step' = "decoded" /\ next' = next + 1
          BY <4>1 DEF UpstreamFails
        <5>2. next \in 1..Len(plan.targets) /\ Len(plan.targets) \in Nat
          BY RequestBounds DEF RequestIInv, RequestShape
        <5> QED
          BY <5>1, <5>2
      <4>2. CASE SkipTarget
        BY <4>2 DEF SkipTarget
      <4>3. CASE UpstreamAnswers \/ RequestDone \/ UNCHANGED requestVars
        BY <4>3 DEF UpstreamAnswers, RequestDone, requestVars
      <4> QED
        BY <1>3, <4>1, <4>2, <4>3
    <3>2. RequestIInv'
      BY <2>1, <2>3, <3>1, BetweenAttempts
    <3> QED
      BY <2>1, <3>2, ShapeIsTypeNext, SentStays
  <2> QED
    BY <2>2, <2>3
<1> QED
  BY <1>1, <1>2, <1>3 DEF RequestNext

\* A request reaches every target of its plan with its conversation, its fields and within the
\* policy of the target's model, or it is refused (pipeline.rs execute, the adapters' build_body).
THEOREM RequestAlwaysSurvives == RequestSpec => []RequestSurvives
<1>1. RequestInit => RequestIInv /\ RequestSurvives /\ SecretsStayHome
  BY RequestStarts
<1>2. RequestIInv /\ RequestSurvives /\ SecretsStayHome /\ [RequestNext]_requestVars
      => (RequestIInv /\ RequestSurvives /\ SecretsStayHome)'
  BY RequestSteps
<1> QED
  BY <1>1, <1>2, PTL DEF RequestSpec

\* Signatures and thoughts stay with the provider whose model made them, and the client is told
\* what was taken out (apply_portability, hydrate_opaque_state).
THEOREM SecretsAlwaysStayHome == RequestSpec => []SecretsStayHome
<1>1. RequestInit => RequestIInv /\ RequestSurvives /\ SecretsStayHome
  BY RequestStarts
<1>2. RequestIInv /\ RequestSurvives /\ SecretsStayHome /\ [RequestNext]_requestVars
      => (RequestIInv /\ RequestSurvives /\ SecretsStayHome)'
  BY RequestSteps
<1> QED
  BY <1>1, <1>2, PTL DEF RequestSpec
=============================================================================
