---------------------------- MODULE PluginManager ----------------------------
(***************************************************************************)
(* One WASM plugin under its manager (plugins/manager.rs, plugins/store.rs *)
(* and the plugin handlers of admin.rs): what administrators do with its   *)
(* packages and permissions, and the guest calls that run meanwhile.  A    *)
(* step is what happens between two awaits; a transaction is one step.     *)
(* The guest and the file system are external.                             *)
(***************************************************************************)
EXTENDS Integers, FiniteSets, Functions

CONSTANTS
  Packages,     \* the packages of this plugin, by SHA-256
  Declares,     \* the permission grants that each package's manifest requests
  Quota,        \* the storage quota of each package
  Facts,        \* names of cached routing facts
  Settings,     \* keys of the settings that the dashboard keeps
  OwnKeys,      \* keys that the guest stores values under
  Admins,       \* slots for requests of administrators
  Callers,      \* slots for guest calls
  Uses,         \* bound: the kinds of requests and calls that each slot is for
  Global,       \* MAX_CONCURRENT_INVOCATIONS
  Threshold,    \* CIRCUIT_FAULT_THRESHOLD
  Bounds,       \* bounds of a behaviour: requests of administrators, crashes,
                \* slots for calls, the package at the start;
                \* and MAX_CONCURRENT_INVOCATIONS_PER_PLUGIN
  None          \* no row, no package

ASSUME PluginAssumption ==
  /\ None \notin Packages /\ Packages # {}
  /\ Quota \in [Packages -> Nat]
  /\ Global \in Nat \ {0} /\ Threshold \in Nat \ {0}
  /\ Bounds \subseteq [ops : Nat, crashes : Nat, callers : SUBSET Callers, permits : Nat \ {0},
                     start : Packages \cup {None}]
  /\ IsFiniteSet(Callers) /\ IsFiniteSet(Facts)
  /\ Facts \cap Settings = {} /\ OwnKeys \cap (Facts \cup Settings) = {}

VARIABLES
  row,          \* the row of plugins: the active package and whether it is enabled
  grants,       \* the rows of plugin_permissions
  retained,     \* the rows of plugin_packages
  files,        \* the packages on disk
  circuit,      \* the row of plugin_runtime_state
  kv,           \* the rows of plugin_kv: a fact to the snapshot it came with, a setting to {}
  cache,        \* component_cache: the hash it is filed under and the code
  registered,   \* AppState has the plugin's capabilities
  sem,          \* the semaphore in plugin_semaphores, by generation
  op,           \* what each administrator's request is doing
  inv,          \* what each guest call is doing
  left          \* what is left of the bounds

store == <<row, grants, retained, circuit, kv>>
memory == <<cache, registered, sem>>
vars == <<store, files, memory, op, inv, left>>

NoOp == [pc |-> "idle", kind |-> "none", sha |-> None, keys |-> {}]
NoCall == [pc |-> "idle", kind |-> "none", gen |-> 0, sha |-> None, auth |-> {},
           code |-> None]

NoRow == [sha |-> None, enabled |-> FALSE]
Installed == row # NoRow

TypeOK ==
  /\ row \in [sha : Packages \cup {None}, enabled : BOOLEAN]
  /\ retained \subseteq Packages /\ files \subseteq Packages
  /\ circuit \in [st : {"none", "closed", "open", "half_open"}, fails : 0..Threshold, due : BOOLEAN]
  /\ (row.sha = None) <=> (circuit.st = "none")
  /\ DOMAIN kv \subseteq Facts \cup Settings \cup OwnKeys /\ Range(kv) \subseteq SUBSET Facts
  /\ cache.sha = cache.code /\ cache.sha \in Packages \cup {None}
  /\ registered \in BOOLEAN
  /\ sem \in Nat
  /\ \A a \in Admins : op[a].sha \in Packages \cup {None} /\ op[a].keys \subseteq Settings
  /\ \A i \in Callers : inv[i].gen \in 0..sem
  /\ Installed \/ (grants = {} /\ DOMAIN kv = {})

\* Nothing is installed, or a package is installed, approved and enabled.
Init ==
  /\ left \in Bounds
  /\ LET pk == left.start IN
       /\ row = [sha |-> pk, enabled |-> pk # None]
       /\ grants = IF pk = None THEN {} ELSE Declares[pk]
       /\ retained = {pk} \ {None} /\ files = {pk} \ {None}
       /\ circuit = [st |-> IF pk = None THEN "none" ELSE "closed", fails |-> 0, due |-> FALSE]
       /\ registered = (pk # None)
  /\ kv = << >>
  /\ cache = [sha |-> None, code |-> None]
  /\ sem = 0
  /\ op = [a \in Admins |-> NoOp]
  /\ inv = [i \in Callers |-> NoCall]

-----------------------------------------------------------------------------
(* The compiled components *)

\* remember_component
Remember(pk) == cache' = [sha |-> pk, code |-> pk]

\* compiled_component: the cached code only if it is the row's package
Compiled_bug(pk) == IF cache.sha # None THEN cache.code ELSE pk
Compiled(pk) == IF cache.sha = pk THEN cache.code ELSE pk

Compile(pk) == cache' = IF cache.sha = pk THEN cache ELSE [sha |-> pk, code |-> pk]

-----------------------------------------------------------------------------
(* Statements of store.rs *)

\* upsert_plugin, one transaction: installed, disabled and without grants; the
\* circuit of an earlier package and the stored values stay.
Upsert(pk) ==
  /\ row' = [sha |-> pk, enabled |-> FALSE]
  /\ grants' = {}
  /\ retained' = retained \cup {pk}
  /\ circuit' = IF circuit.st = "none" THEN [circuit EXCEPT !.st = "closed"] ELSE circuit
  /\ UNCHANGED kv

\* set_enabled names the plugin only: it hits whatever package is active then
SetEnabled(on) == row' = IF Installed THEN [row EXCEPT !.enabled = on] ELSE row

\* delete_plugin with its cascade; the retained packages are kept
DeleteRow ==
  /\ row' = NoRow
  /\ grants' = {}
  /\ kv' = << >>
  /\ circuit' = [st |-> "none", fails |-> 0, due |-> FALSE]
  /\ UNCHANGED retained

\* circuit_ready
Ready ==
  CASE circuit.st \in {"none", "closed"} -> TRUE
    [] circuit.st = "half_open" -> FALSE
    [] circuit.st = "open" -> circuit.due

\* clear_plugin_failures
Cleared ==
  IF circuit.st = "none" THEN circuit
  ELSE [st |-> "closed", fails |-> 0, due |-> FALSE]

\* record_plugin_failure, its first statement; the count is cut off at the
\* threshold, which is all that it is compared with
Counted ==
  IF circuit.st = "none" THEN circuit
  ELSE [circuit EXCEPT !.fails = IF @ < Threshold THEN @ + 1 ELSE @]

\* record_plugin_failure, its last statement
Tripped ==
  IF circuit.st = "none" THEN circuit
  ELSE [circuit EXCEPT !.st = "open", !.due = FALSE]

\* reopen_plugin_circuit
Reopened ==
  IF circuit.st = "half_open" THEN [circuit EXCEPT !.st = "open", !.due = FALSE] ELSE circuit

\* kv_put_limited, under BEGIN IMMEDIATE; every value counts 1
CanPut_bug(key, pk) == Installed /\ Cardinality(DOMAIN kv) <= Quota[pk]
CanPut(key, pk) == Installed /\ Cardinality(DOMAIN kv \ {key}) + 1 <= Quota[pk]
PutKv(key, pk) ==
  kv' = IF CanPut(key, pk)
        THEN [k \in DOMAIN kv \cup {key} |-> IF k = key THEN {} ELSE kv[k]] ELSE kv

\* kv_delete
DeleteKv(key) == kv' = Restrict(kv, DOMAIN kv \ {key})

\* kv_replace_prefix_limited, for the facts
Fits(facts, pk) ==
  Installed /\ Cardinality(DOMAIN kv \ Facts) + Cardinality(facts) <= Quota[pk]
ReplaceFacts_bug(facts) ==
  kv' = [k \in DOMAIN kv \cup facts |-> IF k \in facts THEN facts ELSE kv[k]]
ReplaceFacts(facts) ==
  kv' = [k \in (DOMAIN kv \ Facts) \cup facts |-> IF k \in facts THEN facts ELSE kv[k]]

-----------------------------------------------------------------------------
(* Requests of administrators *)

Begin(a, kind, pc, sha) ==
  /\ op[a].pc = "idle" /\ left.ops > 0 /\ kind \in Uses[a]
  /\ op' = [op EXCEPT ![a] = [NoOp EXCEPT !.pc = pc, !.kind = kind, !.sha = sha]]
  /\ left' = [left EXCEPT !.ops = @ - 1]
  /\ UNCHANGED inv

At(a, pc) == op[a].pc = pc /\ UNCHANGED <<inv, left>>
Goto(a, pc) == op' = [op EXCEPT ![a].pc = pc]
Done(a) == op' = [op EXCEPT ![a] = NoOp]

\* install_plugin, install_catalog_plugin: a package that was read, checked and
\* compiled; any earlier failure leaves everything as it was
install_from_source(a) ==
  /\ \E pk \in Packages : Begin(a, "install", "persist", pk)
  /\ UNCHANGED <<store, files, memory>>

\* load_retained_package: the row is there, the file too, and the hash is right
Readable == retained \cap files

\* install_retained, of a package that can be read from the disk
install_retained(a) ==
  /\ \E pk \in Readable : Begin(a, "install", "persist", pk)
  /\ UNCHANGED <<store, files, memory>>

\* persist_package: a file under the hash is there or the new one takes its place
persist_package_bug(a) ==
  /\ At(a, "persist")
  /\ Goto(a, "upsert")
  /\ UNCHANGED <<store, files, memory>>
persist_package(a) ==
  /\ At(a, "persist")
  /\ files' = files \cup {op[a].sha}
  /\ Goto(a, "upsert")
  /\ UNCHANGED <<store, memory>>

upsert_plugin(a) ==
  /\ At(a, "upsert")
  /\ Upsert(op[a].sha)
  /\ Goto(a, "remember")
  /\ UNCHANGED <<files, memory>>

\* remember_component; rollback_plugin also drops the capabilities
remember_component(a) ==
  /\ At(a, "remember")
  /\ Remember(op[a].sha)
  /\ registered' = (registered /\ op[a].kind # "rollback")
  /\ Done(a)
  /\ UNCHANGED <<store, files, sem>>

\* rollback: another package, retained and readable
rollback(a) ==
  /\ Installed
  /\ \E pk \in Readable \ {row.sha} : Begin(a, "rollback", "upsert", pk)
  /\ UNCHANGED <<store, files, memory>>

\* enable, its first read
enable(a) ==
  /\ Installed
  /\ Begin(a, "enable", "approved", row.sha)
  /\ UNCHANGED <<store, files, memory>>

\* ensure_permissions_approved for a package whose row was read before
Approved(pk) == grants = Declares[pk]

enable_check(a) ==
  /\ At(a, "approved")
  /\ IF Approved(op[a].sha)
     THEN Goto(a, "set") /\ Compile(op[a].sha)
     ELSE Done(a) /\ UNCHANGED cache
  /\ UNCHANGED <<store, files, registered, sem>>

enable_set(a) ==
  /\ At(a, "set")
  /\ SetEnabled(TRUE)
  /\ Goto(a, "clear")
  /\ UNCHANGED <<grants, retained, circuit, kv, files, memory>>

enable_clear(a) ==
  /\ At(a, "clear")
  /\ circuit' = Cleared
  /\ Goto(a, "register")
  /\ UNCHANGED <<row, grants, retained, kv, files, memory>>

\* register_enabled_plugin_capabilities, from the row as it is by then
register_enabled_plugin_capabilities(a) ==
  /\ At(a, "register")
  /\ registered' = (registered \/ Installed)
  /\ Done(a)
  /\ UNCHANGED <<store, files, cache, sem>>

\* disable_plugin
disable(a) ==
  /\ Begin(a, "disable", "off", None)
  /\ UNCHANGED <<store, files, memory>>

disable_row(a) ==
  /\ At(a, "off")
  /\ SetEnabled(FALSE)
  /\ registered' = FALSE
  /\ Done(a)
  /\ UNCHANGED <<grants, retained, circuit, kv, files, cache, sem>>

\* remove: the rows, then the semaphore, the cached code and the capabilities
remove(a) ==
  /\ Begin(a, "remove", "drop", None)
  /\ DeleteRow
  /\ UNCHANGED <<files, memory>>

remove_rest(a) ==
  /\ At(a, "drop")
  /\ sem' = sem + 1
  /\ cache' = [sha |-> None, code |-> None]
  /\ registered' = FALSE
  /\ Done(a)
  /\ UNCHANGED <<store, files>>

\* approve_permissions: everything that the package requests
approve_permissions(a) ==
  /\ Installed
  /\ Begin(a, "approve", "grant", row.sha)
  /\ UNCHANGED <<store, files, memory>>

\* replace_permissions, which fails once the plugin is gone
replace_permissions(a) ==
  /\ At(a, "grant")
  /\ grants' = IF Installed THEN Declares[op[a].sha] ELSE grants
  /\ Done(a)
  /\ UNCHANGED <<row, retained, circuit, kv, files, memory>>

\* approve_permissions_scoped: a part of what the package requests
approve_permissions_scoped(a) ==
  /\ Installed
  /\ Begin(a, "scoped", "grant_part", row.sha)
  /\ UNCHANGED <<store, files, memory>>

replace_permissions_scoped(a) ==
  /\ At(a, "grant_part")
  /\ \E part \in SUBSET Declares[op[a].sha] : grants' = IF Installed THEN part ELSE grants
  /\ Done(a)
  /\ UNCHANGED <<row, retained, circuit, kv, files, memory>>

\* revoke_permission: the grant goes, then the plugin is disabled
revoke_permission(a) ==
  /\ Installed
  /\ \E g \in grants : grants' = grants \ {g}
  /\ Begin(a, "revoke", "off", None)
  /\ UNCHANGED <<row, retained, circuit, kv, files, memory>>

\* validate: compiles and instantiates, with no authority
validate(a) ==
  /\ Installed
  /\ Begin(a, "validate", "compile", row.sha)
  /\ UNCHANGED <<store, files, memory>>

validate_compile(a) ==
  /\ At(a, "compile")
  /\ Compile(op[a].sha)
  /\ Done(a)
  /\ UNCHANGED <<store, files, registered, sem>>

\* update_ui_settings: the row is read once, then one key after the other
update_ui_settings(a) ==
  /\ Installed
  /\ op[a].pc = "idle" /\ left.ops > 0 /\ "settings" \in Uses[a]
  /\ left' = [left EXCEPT !.ops = @ - 1]
  /\ op' = [op EXCEPT ![a] = [NoOp EXCEPT !.pc = "settings", !.kind = "settings",
                                          !.sha = row.sha, !.keys = Settings]]
  /\ UNCHANGED <<store, files, memory, inv>>

\* A value over the quota, or a bad one, ends the request after the keys before it.
put_setting(a) ==
  /\ At(a, "settings")
  /\ \E key \in op[a].keys :
       /\ PutKv(key, op[a].sha)
       /\ IF CanPut(key, op[a].sha) /\ op[a].keys # {key}
          THEN op' = [op EXCEPT ![a].keys = @ \ {key}] ELSE Done(a)
  /\ UNCHANGED <<row, grants, retained, circuit, files, memory>>

clear_setting(a) ==
  /\ At(a, "settings")
  /\ \E key \in op[a].keys :
       /\ DeleteKv(key)
       /\ IF op[a].keys = {key} THEN Done(a) ELSE op' = [op EXCEPT ![a].keys = @ \ {key}]
  /\ UNCHANGED <<row, grants, retained, circuit, files, memory>>

Administrate ==
  \E a \in Admins :
    \/ install_from_source(a) \/ install_retained(a) \/ persist_package(a)
    \/ upsert_plugin(a) \/ remember_component(a) \/ rollback(a)
    \/ enable(a) \/ enable_check(a) \/ enable_set(a) \/ enable_clear(a)
    \/ register_enabled_plugin_capabilities(a)
    \/ disable(a) \/ disable_row(a) \/ remove(a) \/ remove_rest(a)
    \/ approve_permissions(a) \/ replace_permissions(a)
    \/ approve_permissions_scoped(a) \/ replace_permissions_scoped(a)
    \/ revoke_permission(a) \/ validate(a) \/ validate_compile(a)
    \/ update_ui_settings(a) \/ put_setting(a) \/ clear_setting(a)

-----------------------------------------------------------------------------
(* Guest calls *)

HasPlugin(i) == inv[i].pc \notin {"idle", "plugin"}
HasGlobal(i) == inv[i].pc \notin {"idle", "plugin", "global"}

Step(i, pc) == inv[i].pc = pc /\ UNCHANGED <<op, left>>
To(i, pc) == inv' = [inv EXCEPT ![i].pc = pc]
End(i) == inv' = [inv EXCEPT ![i] = NoCall]

\* bump_invocation and plugin_semaphore: a call asks the semaphore that the map
\* has now.  Three things tell the capabilities apart: a "discover" asks no
\* circuit, a "cancellable" may be interrupted, a "refresh" stores facts.
Invoke(i, kind) ==
  /\ Step(i, "idle") /\ i \in left.callers /\ kind \in Uses[i]
  /\ inv' = [inv EXCEPT ![i] = [NoCall EXCEPT !.pc = "plugin", !.kind = kind, !.gen = sem]]
  /\ UNCHANGED <<store, files, memory>>

credential_resolve(i) == Invoke(i, "call")
credential_rotate(i) == Invoke(i, "call")
model_discover(i) == Invoke(i, "call")
health_probe(i) == Invoke(i, "call")
routing_facts(i) == Invoke(i, "call")
hook_request_normalized(i) == Invoke(i, "call")
hook_target_candidate(i) == Invoke(i, "call")
hook_usage_finalized(i) == Invoke(i, "call")
auth_begin(i) == Invoke(i, "call")
auth_exchange(i) == Invoke(i, "call")
adapter_wire_format(i) == Invoke(i, "call")
adapter_build_url(i) == Invoke(i, "call")
adapter_apply_auth(i) == Invoke(i, "call")
adapter_build_body(i) == Invoke(i, "call")
adapter_classify_error(i) == Invoke(i, "call")
adapter_parse_stream_chunk(i) == Invoke(i, "call")
adapter_parse_full_response(i) == Invoke(i, "call")
routing_facts_cancellable(i) == Invoke(i, "cancellable")
account_model_discover(i) == Invoke(i, "discover")

\* refresh_cached_routing_facts reads the row before it asks for a permit
refresh_cached_routing_facts(i) == Installed /\ Invoke(i, "refresh")

\* acquire_invocation_permits: the plugin's permit, then a global one
Holders(gen) == {i \in Callers : HasPlugin(i) /\ inv[i].gen = gen}

acquire_plugin_bug(i) ==
  /\ Step(i, "plugin")
  /\ To(i, "global")
  /\ UNCHANGED <<store, files, memory>>
acquire_plugin(i) ==
  /\ Step(i, "plugin")
  /\ Cardinality(Holders(inv[i].gen)) < left.permits
  /\ To(i, "global")
  /\ UNCHANGED <<store, files, memory>>

acquire_global(i) ==
  /\ Step(i, "global")
  /\ Cardinality({j \in Callers : HasGlobal(j)}) < Global
  /\ To(i, "row")
  /\ UNCHANGED <<store, files, memory>>

\* prepare: an enabled row ...
prepare_row(i) ==
  /\ Step(i, "row")
  /\ IF row.enabled THEN inv' = [inv EXCEPT ![i].pc = "grants", ![i].sha = row.sha] ELSE End(i)
  /\ UNCHANGED <<store, files, memory>>

\* ... with exactly the grants of its manifest; they are the guest's authority ...
prepare_grants(i) ==
  /\ Step(i, "grants")
  /\ IF Approved(inv[i].sha)
     THEN inv' = [inv EXCEPT ![i].pc = IF inv[i].kind = "discover" THEN "load" ELSE "ready",
                             ![i].auth = grants]
     ELSE End(i)
  /\ UNCHANGED <<store, files, memory>>

\* ... a circuit that lets it in ...
prepare_ready(i) ==
  /\ Step(i, "ready")
  /\ IF Ready THEN To(i, "load") ELSE End(i)
  /\ UNCHANGED <<store, files, memory>>

\* ... code that is compiled and instantiated (prepare_model_source compiles
\* anew and takes nothing from the cache) ...
prepare_load(i) ==
  /\ Step(i, "load")
  /\ IF inv[i].kind = "discover"
     THEN /\ inv' = [inv EXCEPT ![i].pc = "guest", ![i].code = inv[i].sha]
          /\ UNCHANGED cache
     ELSE /\ inv' = [inv EXCEPT ![i].pc = "claim", ![i].code = Compiled(inv[i].sha)]
          /\ Compile(inv[i].sha)
  /\ UNCHANGED <<store, files, registered, sem>>

prepare_fails(i) ==
  /\ Step(i, "load")
  /\ End(i)
  /\ UNCHANGED <<store, files, memory>>

\* ... and, last, the claim: the UPDATE that only one caller wins ...
claim_circuit_probe_bug(i) ==
  /\ Step(i, "claim")
  /\ To(i, "guest")
  /\ circuit' = IF circuit.st = "open" THEN [circuit EXCEPT !.st = "half_open"] ELSE circuit
  /\ UNCHANGED <<row, grants, retained, kv, files, memory>>
claim_circuit_probe(i) ==
  /\ Step(i, "claim")
  /\ IF circuit.st = "open" /\ circuit.due
     THEN To(i, "guest") /\ circuit' = [circuit EXCEPT !.st = "half_open", !.due = FALSE]
     ELSE To(i, "claimed") /\ UNCHANGED circuit
  /\ UNCHANGED <<row, grants, retained, kv, files, memory>>

\* ... or else a circuit that is closed when it is read again.
claim_read(i) ==
  /\ Step(i, "claimed")
  /\ IF circuit.st \in {"none", "closed"} THEN To(i, "guest") ELSE End(i)
  /\ UNCHANGED <<store, files, memory>>

\* The guest, external: it may store values under keys of its own, not the
\* host's settings and facts, and it returns in some way.
host_storage_put(i) ==
  /\ Step(i, "guest")
  /\ \E key \in OwnKeys : PutKv(key, inv[i].sha)
  /\ UNCHANGED <<row, grants, retained, circuit, files, memory, inv>>

host_storage_delete(i) ==
  /\ Step(i, "guest")
  /\ \E key \in OwnKeys : DeleteKv(key)
  /\ UNCHANGED <<row, grants, retained, circuit, files, memory, inv>>

returns(i) ==
  /\ Step(i, "guest")
  /\ \/ inv[i].kind = "refresh" /\ To(i, "facts")
     \/ To(i, "count")    \* a trap, a time-out or an invalid result
     \/ To(i, "clear")    \* a result, or an error that the circuit does not count
     \/ inv[i].kind = "cancellable" /\ To(i, "reopen")
  /\ UNCHANGED <<store, files, memory>>

\* build_cached_fact_snapshot, then one transaction
store_facts(i) ==
  /\ Step(i, "facts")
  /\ \E facts \in (SUBSET Facts) \ {{}} :
       IF Fits(facts, inv[i].sha)
       THEN ReplaceFacts(facts) /\ To(i, "clear")
       ELSE To(i, "count") /\ UNCHANGED kv
  /\ UNCHANGED <<row, grants, retained, circuit, files, memory>>

\* settle, settle_cancellable: record_success and the faults that do not count
settle_clear(i) ==
  /\ Step(i, "clear")
  /\ circuit' = Cleared
  /\ End(i)
  /\ UNCHANGED <<row, grants, retained, kv, files, memory>>

\* record_plugin_failure in its three statements
record_count(i) ==
  /\ Step(i, "count")
  /\ circuit' = Counted
  /\ To(i, "tally")
  /\ UNCHANGED <<row, grants, retained, kv, files, memory>>

record_tally(i) ==
  /\ Step(i, "tally")
  /\ IF circuit.fails >= Threshold THEN To(i, "trip") ELSE End(i)
  /\ UNCHANGED <<store, files, memory>>

record_trip(i) ==
  /\ Step(i, "trip")
  /\ circuit' = Tripped
  /\ End(i)
  /\ UNCHANGED <<row, grants, retained, kv, files, memory>>

settle_cancelled(i) ==
  /\ Step(i, "reopen")
  /\ circuit' = Reopened
  /\ End(i)
  /\ UNCHANGED <<row, grants, retained, kv, files, memory>>

\* The caller's future is dropped: the permits go back and nothing is recorded.
drop_call(i) ==
  /\ inv[i].pc # "idle"
  /\ End(i)
  /\ UNCHANGED <<store, files, memory, op, left>>

Invocation ==
  \E i \in Callers :
    \/ credential_resolve(i) \/ credential_rotate(i) \/ model_discover(i) \/ health_probe(i)
    \/ routing_facts(i) \/ hook_request_normalized(i) \/ hook_target_candidate(i)
    \/ hook_usage_finalized(i) \/ auth_begin(i) \/ auth_exchange(i)
    \/ adapter_wire_format(i) \/ adapter_build_url(i) \/ adapter_apply_auth(i)
    \/ adapter_build_body(i) \/ adapter_classify_error(i)
    \/ adapter_parse_stream_chunk(i) \/ adapter_parse_full_response(i)
    \/ routing_facts_cancellable(i) \/ account_model_discover(i)
    \/ refresh_cached_routing_facts(i)
    \/ acquire_plugin(i) \/ acquire_global(i)
    \/ prepare_row(i) \/ prepare_grants(i) \/ prepare_ready(i) \/ prepare_load(i)
    \/ prepare_fails(i) \/ claim_circuit_probe(i) \/ claim_read(i)
    \/ host_storage_put(i) \/ host_storage_delete(i) \/ returns(i) \/ store_facts(i)
    \/ settle_clear(i) \/ record_count(i) \/ record_tally(i) \/ record_trip(i)
    \/ settle_cancelled(i) \/ drop_call(i)

-----------------------------------------------------------------------------
\* The cooldown of an open circuit runs out.
Cooldown ==
  /\ circuit.st = "open" /\ ~circuit.due
  /\ circuit' = [circuit EXCEPT !.due = TRUE]
  /\ UNCHANGED <<row, grants, retained, kv, files, memory, op, inv, left>>

\* The process dies and starts again: the database and the files are kept, and
\* the capabilities of an enabled plugin are registered.
Restart ==
  /\ left.crashes > 0
  /\ left' = [left EXCEPT !.crashes = @ - 1]
  /\ cache' = [sha |-> None, code |-> None]
  /\ registered' = row.enabled
  /\ op' = [a \in Admins |-> NoOp]
  /\ inv' = [i \in Callers |-> NoCall]
  /\ UNCHANGED <<store, files, sem>>

Next == Administrate \/ Invocation \/ Cooldown \/ Restart

Spec == Init /\ [][Next]_vars

-----------------------------------------------------------------------------
Running(i) == inv[i].pc \in {"guest", "facts", "clear", "count", "tally", "trip", "reopen"}

\* A guest runs with exactly the grants that its own package requests: an
\* upgrade, a rollback, an approval or a revocation between the reads of
\* prepare (manager.rs:1127) never pairs one package's code with another's
\* authority.
AuthorityMatchesCode ==
  \A i \in Callers : Running(i) => /\ inv[i].code = inv[i].sha
                                 /\ inv[i].auth = Declares[inv[i].code]

\* Whatever is interrupted, every package that the database offers for a
\* rollback can be read, the active one included (manager.rs:393).
RetainedIsReadable ==
  /\ retained \subseteq files
  /\ Installed => row.sha \in retained

\* A plugin that waits for its own limit holds no global permit
\* (manager.rs:1040): under one semaphore it never holds more than its share.
PluginIsContained ==
  /\ \A g \in 0..sem : Cardinality({i \in Callers : HasGlobal(i) /\ inv[i].gen = g}) <= left.permits
  /\ Cardinality({i \in Callers : HasGlobal(i)}) <= Global

\* The cached facts are those of one refresh, never of two
\* (store.rs:534, "cannot leave keys from an older snapshot behind").
SnapshotIsWhole == \A f \in DOMAIN kv \cap Facts : kv[f] = DOMAIN kv \cap Facts

\* Settings, guests and refreshes that write at the same time stay within the
\* storage quota (store.rs:455).
StorageWithinQuota == \E pk \in Packages : Cardinality(DOMAIN kv) <= Quota[pk]

\* While a probe tries a half-open circuit no other call is let in, the
\* discovery of an account's models apart, which asks no circuit
\* (store.rs:311, manager.rs:1170).
EntersNoProbe ==
  \A i \in Callers :
    (~Running(i) /\ Running(i)' /\ inv[i].kind # "discover") => circuit.st # "half_open"

\* EntersNoProbe holds of every step.
ProbeIsAlone == [][EntersNoProbe]_vars

\* "A half-open circuit already has a probe in flight" (store.rs:289).
HalfOpenHasProbe == circuit.st = "half_open" => \E i \in Callers : Running(i)

\* A plugin runs its own code with its own grants, within its share of the permits and
\* its quota, on facts of one refresh, and can be rolled back, whatever administrators,
\* calls and crashes come between two steps of a handler.
PluginIsSound ==
  /\ TypeOK
  /\ AuthorityMatchesCode
  /\ RetainedIsReadable
  /\ PluginIsContained
  /\ SnapshotIsWhole
  /\ StorageWithinQuota
=============================================================================
