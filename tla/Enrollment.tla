----------------------------- MODULE Enrollment -----------------------------
(* Accounts that are added by an OAuth flow of a plugin (admin.rs                  *)
(* start_plugin_auth ... complete_plugin_auth_manual, with PluginAuthSessions of   *)
(* auth.rs): the pending flows, the browser's callback and the pasted one, the     *)
(* exchange of the code, the second check of provider and plugin, the account. The *)
(* handlers of several browsers interleave with each other and with administrators *)
(* that change the provider or the plugin.                                         *)
EXTENDS Integers, FiniteSets, FiniteSetsExt

CONSTANTS
  Browsers,     \* each has an administrator's session; the initiator of its flows
  Bindings,     \* credential bindings of a provider, plugin:<id>/<strategy>
  Gone,         \* no such row, or no cookie
  FlowTtl,      \* PLUGIN_AUTH_TTL
  MaxFlows, MaxSwaps, MaxDay  \* bounds

VARIABLES
  reviewed,     \* the plugin is one with a loopback redirect
  day,          \* the clock
  flows,        \* pending flows: state -> [by, binding, till]
  started,      \* states created so far
  outcomes,     \* completed: state -> [by, result, till]
  provider,     \* its row: [mode, binding], or Gone
  strategy,     \* the binding that the plugin's manifest gives, or Gone
  swaps,        \* changes of provider and plugin so far
  accounts_,    \* accounts of the provider: [state, label, priority, status, checked]
  browser,      \* Browsers -> the handler that is running
  spoiled       \* history: states that a callback with another cookie consumed
enrollVars == <<reviewed, day, flows, started, outcomes, provider, strategy, swaps, accounts_, browser, spoiled>>

ASSUME EnrollBounds == FlowTtl \in Nat \ {0} /\ Cardinality(Bindings) >= 1

Free == [at |-> "idle", state |-> 0, by |-> Gone, binding |-> Gone, seen |-> Gone, place |-> 0, result |-> Gone]
Now(b, rec) == browser' = [browser EXCEPT ![b] = rec]
Goes(b, to) == Now(b, [browser[b] EXCEPT !.at = to])
rowVars == <<reviewed, provider, strategy, swaps>>

\* the sweep that create, peek and take begin with
LiveFlows == {s \in DOMAIN flows : flows[s].till > day}
Keeping(ss) == [s \in ss |-> flows[s]]

-----------------------------------------------------------------------------
(* Starting a flow *)

\* validate_plugin_auth_enrollment
MayEnroll(row, binding) == row # Gone /\ row.mode = "auth_flow" /\ row.binding = binding

\* start_provider_credential_enrollment and start_plugin_auth up to the state:
\* the provider's row, then the plugin's
StartRead(b) ==
  /\ browser[b].at = "idle" /\ started < MaxFlows
  /\ provider # Gone /\ provider.mode = "auth_flow"
  /\ Now(b, [Free EXCEPT !.at = "start", !.seen = provider])
  /\ UNCHANGED <<day, flows, started, outcomes, rowVars, accounts_, spoiled>>
StartCreate(b) ==
  /\ browser[b].at = "start"
  /\ IF strategy # Gone /\ MayEnroll(browser[b].seen, strategy) /\ started < MaxFlows
     THEN LET s == started + 1
          IN /\ started' = s
             /\ flows' = [t \in LiveFlows \cup {s} |->
                            IF t = s THEN [by |-> b, binding |-> strategy, till |-> day + FlowTtl]
                            ELSE flows[t]]
             /\ Now(b, [Free EXCEPT !.at = "begin", !.state = s])
     ELSE Now(b, Free) /\ UNCHANGED <<started, flows>>
  /\ UNCHANGED <<day, outcomes, rowVars, accounts_, spoiled>>

\* auth_begin and the checks of its URL: most failures revoke the state, a URL that
\* cannot be parsed or has no host leaves it to expire
StartAnswer(b, answer) ==
  /\ browser[b].at = "begin"
  /\ flows' = IF answer = "refused" THEN Keeping(DOMAIN flows \ {browser[b].state}) ELSE flows
  /\ Now(b, Free)
  /\ UNCHANGED <<day, started, outcomes, rowVars, accounts_, spoiled>>

-----------------------------------------------------------------------------
(* Consuming a state *)

\* take and take_loopback_callback: the state is removed, whoever presents it
LeftAfter_bug(s, fits) == IF fits THEN LiveFlows \ {s} ELSE LiveFlows
LeftAfter(s, fits) == LiveFlows \ {s}
Take(b, s, fits) ==
  /\ flows' = Keeping(LeftAfter(s, fits))
  /\ Now(b, IF fits THEN [Free EXCEPT !.at = "code", !.state = s, !.by = flows[s].by,
                                     !.binding = flows[s].binding] ELSE Free)
  /\ spoiled' = IF fits THEN spoiled ELSE spoiled \cup {s}

\* plugin_auth_callback: with a cookie its initiator, without one the reviewed
\* plugins' loopback redirect
Callback(b, s, cookie) ==
  /\ browser[b].at = "idle" /\ s \in LiveFlows
  /\ Take(b, s, IF cookie = Gone THEN reviewed ELSE cookie = flows[s].by)
  /\ UNCHANGED <<day, started, outcomes, rowVars, accounts_>>
\* a state that is unknown, consumed or expired
CallbackUnknown(b, s) ==
  /\ browser[b].at = "idle" /\ s \in 1..started \ LiveFlows /\ flows # Keeping(LiveFlows)
  /\ flows' = Keeping(LiveFlows)
  /\ UNCHANGED <<day, started, outcomes, rowVars, accounts_, browser, spoiled>>

\* complete_plugin_auth_manual: peek consumes nothing, take follows the checks of
\* the pasted URL
ManualPeek(b, s) ==
  /\ browser[b].at = "idle" /\ s \in LiveFlows /\ flows[s].by = b /\ reviewed
  /\ flows' = Keeping(LiveFlows)
  /\ Now(b, [Free EXCEPT !.at = "pasted", !.state = s])
  /\ UNCHANGED <<day, started, outcomes, rowVars, accounts_, spoiled>>
ManualTake_bug(b) ==
  /\ browser[b].at = "pasted"
  /\ Now(b, [browser[b] EXCEPT !.at = "code", !.by = b, !.binding = strategy])
  /\ UNCHANGED <<day, started, outcomes, rowVars, accounts_, spoiled, flows>>
ManualTake(b) ==
  /\ browser[b].at = "pasted"
  /\ IF browser[b].state \in LiveFlows
     THEN Take(b, browser[b].state, TRUE)
     ELSE Now(b, Free) /\ flows' = Keeping(LiveFlows) /\ UNCHANGED spoiled
  /\ UNCHANGED <<day, started, outcomes, rowVars, accounts_>>

-----------------------------------------------------------------------------
(* complete_plugin_auth *)

Results(b, result) == Now(b, [browser[b] EXCEPT !.at = "record", !.result = result])
\* an error answer: nothing is recorded
Fails(b) == Now(b, Free)

\* the provider's error, a missing code, the exchange, the credential's form
Exchange(b, answer) ==
  /\ browser[b].at = "code"
  /\ CASE answer = "cancelled" -> Results(b, "cancelled")
       [] answer = "failed" -> Results(b, "error")
       [] answer = "unusable" -> Fails(b)
       [] answer = "ok" -> Goes(b, "plugin")
  /\ UNCHANGED <<day, flows, started, outcomes, rowVars, accounts_, spoiled>>

\* the plugin's row again: a plugin that is gone is an error, one that gives
\* another strategy is found with the provider's row
RecheckPlugin(b) ==
  /\ browser[b].at = "plugin"
  /\ IF strategy = Gone THEN Fails(b)
     ELSE Now(b, [browser[b] EXCEPT !.at = "provider", !.seen = strategy])
  /\ UNCHANGED <<day, flows, started, outcomes, rowVars, accounts_, spoiled>>
StillBound_bug(b) == provider.binding = browser[b].binding
StillBound(b) == browser[b].seen = browser[b].binding /\ MayEnroll(provider, browser[b].binding)
RecheckProvider(b) ==
  /\ browser[b].at = "provider"
  /\ IF provider = Gone THEN Fails(b)
     ELSE IF StillBound(b) THEN Now(b, [browser[b] EXCEPT !.at = "list", !.seen = provider])
     ELSE Results(b, "binding_changed")
  /\ UNCHANGED <<day, flows, started, outcomes, rowVars, accounts_, spoiled>>

\* a free label and the next priority, by the accounts that are there
Priorities == {a.priority : a \in accounts_}
ListAccounts(b) ==
  /\ browser[b].at = "list"
  /\ Now(b, [browser[b] EXCEPT !.at = "insert",
              !.place = IF Priorities = {} THEN 1 ELSE Max(Priorities) + 1])
  /\ UNCHANGED <<day, flows, started, outcomes, rowVars, accounts_, spoiled>>

\* insert_account; the foreign key refuses a provider that is gone. The reload of
\* the registry may fail after it.
InsertAccount(b) ==
  /\ browser[b].at = "insert"
  /\ IF provider = Gone THEN Fails(b) /\ UNCHANGED accounts_
     ELSE /\ accounts_' = accounts_ \cup
               {[state |-> browser[b].state, priority |-> browser[b].place, status |-> "healthy",
                 binding |-> browser[b].binding, checked |-> browser[b].seen]}
          /\ Goes(b, "reload")
  /\ UNCHANGED <<day, flows, started, outcomes, rowVars, spoiled>>
Reload(b, ok) ==
  /\ browser[b].at = "reload"
  /\ IF ok THEN Goes(b, "finalize") ELSE Fails(b)
  /\ UNCHANGED <<day, flows, started, outcomes, rowVars, accounts_, spoiled>>

\* finalize_plugin_auth_account: a credential that is refused for good disables the
\* account, a passing failure does not matter. Where the account is gone, cannot be
\* disabled or the reload after it fails, the answer is an error.
Own(b) == {a \in accounts_ : a.state = browser[b].state}
Disabled(b) == (accounts_ \ Own(b)) \cup {[a EXCEPT !.status = "disabled"] : a \in Own(b)}
Answers == {"valid", "invalid", "undisabled", "unloaded"}
Finalize_bug(b, answer) ==
  /\ browser[b].at = "finalize"
  /\ Results(b, "success")
  /\ accounts_' = IF answer = "invalid" THEN Disabled(b) ELSE accounts_
  /\ UNCHANGED <<day, flows, started, outcomes, rowVars, spoiled>>
Finalize(b, answer) ==
  /\ browser[b].at = "finalize"
  /\ \/ Own(b) = {} /\ Fails(b) /\ UNCHANGED accounts_
     \/ Own(b) # {} /\ answer = "valid" /\ Results(b, "success") /\ UNCHANGED accounts_
     \/ Own(b) # {} /\ answer = "undisabled" /\ Fails(b) /\ UNCHANGED accounts_
     \/ Own(b) # {} /\ answer = "invalid" /\ Results(b, "reauthorization_required") /\ accounts_' = Disabled(b)
     \/ Own(b) # {} /\ answer = "unloaded" /\ Fails(b) /\ accounts_' = Disabled(b)
  /\ UNCHANGED <<day, flows, started, outcomes, rowVars, spoiled>>

\* record_completion sweeps, then inserts
LiveOutcomes == {s \in DOMAIN outcomes : outcomes[s].till > day}
RecordCompletion(b) ==
  /\ browser[b].at = "record"
  /\ outcomes' = [s \in LiveOutcomes \cup {browser[b].state} |->
       IF s = browser[b].state
       THEN [by |-> browser[b].by, result |-> browser[b].result, till |-> day + FlowTtl]
       ELSE outcomes[s]]
  /\ Now(b, Free)
  /\ UNCHANGED <<day, flows, started, rowVars, accounts_, spoiled>>

\* PluginAuthSessions::status, as the dashboard polls it
FlowStatus(b, s) ==
  IF s \in LiveFlows /\ flows[s].by = b THEN "pending"
  ELSE IF s \in LiveOutcomes /\ outcomes[s].by = b THEN outcomes[s].result ELSE "unknown"

-----------------------------------------------------------------------------
(* What administrators do meanwhile *)

Swap == swaps < MaxSwaps /\ swaps' = swaps + 1
ProviderEdited(row) ==
  /\ Swap /\ provider # Gone /\ row # provider
  /\ provider' = row
  /\ UNCHANGED <<reviewed, day, flows, started, outcomes, strategy, accounts_, browser, spoiled>>
\* deletion takes the accounts with it
ProviderDeleted ==
  /\ Swap /\ provider # Gone
  /\ provider' = Gone /\ accounts_' = {}
  /\ UNCHANGED <<reviewed, day, flows, started, outcomes, strategy, browser, spoiled>>
PluginChanged(new) ==
  /\ Swap /\ new # strategy
  /\ strategy' = new
  /\ UNCHANGED <<reviewed, day, flows, started, outcomes, provider, accounts_, browser, spoiled>>

DayPasses ==
  /\ day < MaxDay
  /\ day' = day + 1
  /\ UNCHANGED <<flows, started, outcomes, rowVars, accounts_, browser, spoiled>>

\* a restart: flows and outcomes are in memory
EnrollRestart ==
  /\ flows' = << >> /\ outcomes' = << >> /\ browser' = [b \in Browsers |-> Free]
  /\ UNCHANGED <<day, started, rowVars, accounts_, spoiled>>

Rows == [mode : {"auth_flow", "manual"}, binding : Bindings]
EnrollInit ==
  /\ reviewed \in BOOLEAN
  /\ day = 0 /\ flows = << >> /\ started = 0 /\ outcomes = << >> /\ swaps = 0
  /\ strategy = (CHOOSE x \in Bindings : TRUE)
  /\ provider = [mode |-> "auth_flow", binding |-> strategy]
  /\ accounts_ = {} /\ browser = [b \in Browsers |-> Free] /\ spoiled = {}

EnrollNext ==
  \/ \E b \in Browsers :
       \/ StartRead(b) \/ StartCreate(b)
       \/ \E answer \in {"url", "refused", "unreadable"} : StartAnswer(b, answer)
       \/ \E s \in 1..started : \/ \E cookie \in Browsers \cup {Gone} : Callback(b, s, cookie)
                                \/ CallbackUnknown(b, s) \/ ManualPeek(b, s)
       \/ ManualTake(b)
       \/ \E answer \in {"cancelled", "failed", "unusable", "ok"} : Exchange(b, answer)
       \/ RecheckPlugin(b) \/ RecheckProvider(b) \/ ListAccounts(b) \/ InsertAccount(b)
       \/ \E ok \in BOOLEAN : Reload(b, ok)
       \/ \E answer \in Answers : Finalize(b, answer)
       \/ RecordCompletion(b)
  \/ \E row \in Rows : ProviderEdited(row)
  \/ ProviderDeleted
  \/ \E new \in Bindings \cup {Gone} : PluginChanged(new)
  \/ DayPasses \/ EnrollRestart

EnrollSpec == EnrollInit /\ [][EnrollNext]_enrollVars

-----------------------------------------------------------------------------
(* Properties *)

\* The variables keep their types, and only the flows that were started are known.
EnrollTypeOK ==
  /\ DOMAIN flows \subseteq 1..started /\ DOMAIN outcomes \subseteq 1..started
  /\ provider \in Rows \cup {Gone} /\ strategy \in Bindings \cup {Gone}
  /\ \A b \in Browsers : browser[b].result \in {Gone, "cancelled", "error", "binding_changed",
                                                "reauthorization_required", "success"}

\* A state is consumed exactly once: callback and pasted URL, in whatever order and
\* however often they come, add at most one account for it, and are never at work on
\* it together.
StateIsUsedOnce ==
  /\ \A s \in 1..started : Cardinality({a \in accounts_ : a.state = s}) <= 1
  /\ \A b, c \in Browsers :
       b # c /\ browser[b].by # Gone /\ browser[c].by # Gone => browser[b].state # browser[c].state

\* A callback with another session's cookie ends the flow: no account comes of it.
SpoiledIsDead == \A a \in accounts_ : a.state \notin spoiled

\* An account holds a credential of the strategy that its provider used when the
\* exchange had ended, though provider and plugin changed while the user logged in.
EnrolledAsBound ==
  \A a \in accounts_ : a.checked.mode = "auth_flow" /\ a.checked.binding = a.binding

\* What the dashboard is told is what happened: success means that the account is
\* there and healthy (unless the provider was deleted), the other ends that there is
\* none or that it is disabled.
ResultIsTrue ==
  \A b \in Browsers, s \in 1..started :
    LET mine == {a \in accounts_ : a.state = s}
    IN /\ FlowStatus(b, s) \in {"pending", "cancelled", "error", "binding_changed"} => mine = {}
       /\ FlowStatus(b, s) = "reauthorization_required" => \A a \in mine : a.status = "disabled"
       /\ FlowStatus(b, s) = "success" =>
            IF mine = {} THEN swaps > 0 ELSE \A a \in mine : a.status = "healthy"

\* However callbacks, pasted URLs, edits and restarts interleave, a flow adds at most one
\* account, of the strategy its provider had, to the session that started it, and the
\* dashboard is told what happened.
EnrollmentIsSound ==
  /\ EnrollTypeOK
  /\ StateIsUsedOnce
  /\ SpoiledIsDead
  /\ EnrolledAsBound
  /\ ResultIsTrue
=============================================================================
