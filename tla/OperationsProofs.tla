-------------------------- MODULE OperationsProofs --------------------------
(***************************************************************************)
(* Proofs about what runs beside the requests, for any sets of packages,   *)
(* callers, administrators and facts and any bounds: the plugin manager,   *)
(* the live view, the usage log and the alerts. Each invariant is          *)
(* inductive; the lemmas that list the steps say which of them touch the   *)
(* state a conjunct is about.                                              *)
(***************************************************************************)
EXTENDS PluginManager, LiveView, Alerting, FiniteSetTheorems, SequenceTheorems, TLAPS

-----------------------------------------------------------------------------
(* The plugin manager. *)

\* Where a request of an administrator, and a call, may be.
OpStages ==
  {"idle", "persist", "upsert", "remember", "approved", "set", "clear", "register", "off", "drop",
   "grant", "grant_part", "compile", "settings"}
OpKinds ==
  {"none", "install", "rollback", "enable", "disable", "remove", "approve", "scoped", "revoke",
   "validate", "settings"}
Preparing == {"ready", "load", "claim", "claimed"}
RunningStages == {"guest", "facts", "clear", "count", "tally", "trip", "reopen"}
CallStages == {"idle", "plugin", "global", "row", "grants"} \cup Preparing \cup RunningStages
CallKinds == {"none", "call", "cancellable", "discover", "refresh"}
Grants == UNION {Declares[pk] : pk \in Packages}

\* The row, what belongs to it, and the process's memory of it: without a row there are
\* no grants and no circuit, and the cached code is the code of the cached name.
StoreInv ==
  /\ row \in [sha : Packages \cup {None}, enabled : BOOLEAN]
  /\ grants \subseteq Grants
  /\ retained \subseteq Packages /\ files \subseteq Packages
  /\ circuit \in [st : {"none", "closed", "open", "half_open"}, fails : 0..Threshold, due : BOOLEAN]
  /\ (row.sha = None) <=> (circuit.st = "none")
  /\ row.sha = None => ~row.enabled /\ grants = {}
  /\ cache \in [sha : Packages \cup {None}, code : Packages \cup {None}]
  /\ cache.sha = cache.code
  /\ registered \in BOOLEAN
  /\ sem \in Nat
  /\ RetainedIsReadable

\* A request knows its package where it writes it down, and the component it is about to
\* make the plugin's is on disk.
Named == {"persist", "upsert", "remember", "approved", "grant", "grant_part", "compile", "settings"}
OpStates == [pc : OpStages, kind : OpKinds, sha : Packages \cup {None}, keys : SUBSET Settings]
OpInv ==
  /\ op \in [Admins -> OpStates]
  /\ \A a \in Admins :
       /\ op[a].pc \in Named => op[a].sha \in Packages
       /\ op[a].pc = "upsert" => op[a].sha \in files

\* From the check of the grants on, a call has the authority its package declares; from
\* the claim on, it has the code of the same package.
CallStates(gens) ==
  [pc : CallStages, kind : CallKinds, gen : gens, sha : Packages \cup {None},
   auth : SUBSET Grants, code : Packages \cup {None}]
CallInv ==
  /\ inv \in [Callers -> CallStates(0..sem)]
  /\ \A i \in Callers :
       /\ inv[i].pc = "grants" => inv[i].sha \in Packages
       /\ inv[i].pc \in Preparing \cup RunningStages =>
            inv[i].sha \in Packages /\ inv[i].auth = Declares[inv[i].sha]
       /\ inv[i].pc \in {"claim", "claimed"} \cup RunningStages => inv[i].code = inv[i].sha

\* The plugin's keys: none without a row, the facts of one refresh, within the quota.
KvInv ==
  /\ DOMAIN kv \subseteq Facts \cup Settings \cup OwnKeys
  /\ IsFiniteSet(DOMAIN kv)
  /\ \A k \in DOMAIN kv : kv[k] \subseteq Facts
  /\ Installed \/ DOMAIN kv = {}
  /\ SnapshotIsWhole
  /\ StorageWithinQuota

\* What the environment may still do.
LeftTypes ==
  left \in [ops : Nat, crashes : Nat, callers : SUBSET Callers, permits : Nat \ {0},
            start : Packages \cup {None}]

\* Of each generation of the plugin's semaphore, and of the one they all share, no more
\* permits are out than there are.
Permits ==
  /\ \A g \in 0..sem : Cardinality(Holders(g)) <= left.permits
  /\ Cardinality({i \in Callers : HasGlobal(i)}) <= Global

\* The inductive invariant.
IInv == StoreInv /\ OpInv /\ CallInv /\ KvInv /\ LeftTypes /\ Permits
-----------------------------------------------------------------------------
\* A row names a package.
LEMMA InstalledNamesPackage == StoreInv => (Installed => row.sha \in Packages)
BY DEF StoreInv, Installed, NoRow

\* The steps of the manager, the twenty capabilities that a caller may ask for as one.
LEMMA Steps ==
  ASSUME [Next]_vars
  PROVE  \/ UNCHANGED vars
         \/ \E a \in Admins :
              \/ install_from_source(a) \/ install_retained(a) \/ persist_package(a)
              \/ upsert_plugin(a) \/ remember_component(a) \/ rollback(a) \/ enable(a)
              \/ enable_check(a) \/ enable_set(a) \/ enable_clear(a)
              \/ register_enabled_plugin_capabilities(a) \/ disable(a) \/ disable_row(a)
              \/ remove(a) \/ remove_rest(a) \/ approve_permissions(a) \/ replace_permissions(a)
              \/ approve_permissions_scoped(a) \/ replace_permissions_scoped(a)
              \/ revoke_permission(a) \/ validate(a) \/ validate_compile(a)
              \/ update_ui_settings(a) \/ put_setting(a) \/ clear_setting(a)
         \/ \E i \in Callers :
              \/ (\E kind \in CallKinds : Invoke(i, kind)) \/ acquire_plugin(i)
              \/ acquire_global(i) \/ prepare_row(i) \/ prepare_grants(i) \/ prepare_ready(i)
              \/ prepare_load(i) \/ prepare_fails(i) \/ claim_circuit_probe(i) \/ claim_read(i)
              \/ host_storage_put(i) \/ host_storage_delete(i) \/ returns(i) \/ store_facts(i)
              \/ settle_clear(i) \/ record_count(i) \/ record_tally(i) \/ record_trip(i)
              \/ settle_cancelled(i) \/ drop_call(i)
         \/ Cooldown \/ Restart
<1>1. ASSUME NEW i \in Callers,
             credential_resolve(i) \/ credential_rotate(i) \/ model_discover(i) \/ health_probe(i)
             \/ routing_facts(i) \/ hook_request_normalized(i) \/ hook_target_candidate(i) \/
                hook_usage_finalized(i) \/ auth_begin(i) \/ auth_exchange(i) \/
                adapter_wire_format(i) \/ adapter_build_url(i) \/ adapter_apply_auth(i) \/
                adapter_build_body(i) \/ adapter_classify_error(i) \/ adapter_parse_stream_chunk(i)
             \/ adapter_parse_full_response(i) \/ routing_facts_cancellable(i) \/
                account_model_discover(i) \/ refresh_cached_routing_facts(i)
      PROVE  \E kind \in CallKinds : Invoke(i, kind)
  <2>1. \E kind \in {"call", "cancellable", "discover", "refresh"} : Invoke(i, kind)
    BY <1>1 DEF credential_resolve, credential_rotate, model_discover, health_probe, routing_facts,
       hook_request_normalized, hook_target_candidate, hook_usage_finalized, auth_begin,
       auth_exchange, adapter_wire_format, adapter_build_url, adapter_apply_auth,
       adapter_build_body, adapter_classify_error, adapter_parse_stream_chunk,
       adapter_parse_full_response, routing_facts_cancellable, account_model_discover,
       refresh_cached_routing_facts
  <2> QED
    BY <2>1 DEF CallKinds
<1> QED
  BY <1>1, Zenon DEF Next, Administrate, Invocation

\* The steps that touch a request of an administrator, or the packages on disk.
LEMMA OpSteps ==
  ASSUME [Next]_vars
  PROVE  \/ UNCHANGED <<op, files>>
         \/ \E a \in Admins :
              \/ install_from_source(a) \/ install_retained(a) \/ persist_package(a)
              \/ upsert_plugin(a) \/ remember_component(a) \/ rollback(a) \/ enable(a)
              \/ enable_check(a) \/ enable_set(a) \/ enable_clear(a)
              \/ register_enabled_plugin_capabilities(a) \/ disable(a) \/ disable_row(a)
              \/ remove(a) \/ remove_rest(a) \/ approve_permissions(a) \/ replace_permissions(a)
              \/ approve_permissions_scoped(a) \/ replace_permissions_scoped(a)
              \/ revoke_permission(a) \/ validate(a) \/ validate_compile(a)
              \/ update_ui_settings(a) \/ put_setting(a) \/ clear_setting(a)
         \/ Restart
<1>1. CASE UNCHANGED vars
  BY <1>1 DEF vars, store, memory
<1>2. ASSUME NEW i \in Callers,
             (\E kind \in CallKinds : Invoke(i, kind)) \/ acquire_plugin(i) \/
             acquire_global(i) \/ prepare_row(i) \/ prepare_grants(i) \/ prepare_ready(i)
             \/ prepare_load(i) \/ prepare_fails(i) \/ claim_circuit_probe(i) \/
             claim_read(i) \/ host_storage_put(i) \/ host_storage_delete(i) \/ returns(i)
             \/ store_facts(i) \/ settle_clear(i) \/ record_count(i) \/ record_tally(i) \/
             record_trip(i) \/ settle_cancelled(i) \/ drop_call(i)
      PROVE  UNCHANGED <<op, files>>
  BY <1>2 DEF Invoke, acquire_plugin, acquire_global, prepare_row, prepare_grants, prepare_ready,
     prepare_load, prepare_fails, claim_circuit_probe, claim_read, host_storage_put,
     host_storage_delete, returns, store_facts, settle_clear, record_count, record_tally,
     record_trip, settle_cancelled, drop_call, Step, store, memory
<1>3. CASE Cooldown
  BY <1>3 DEF Cooldown, Step, store, memory
<1> QED
  BY Steps, <1>1, <1>2, <1>3, Zenon

\* The steps that touch a call, or the generation of the semaphore.
LEMMA CallSteps ==
  ASSUME [Next]_vars
  PROVE  \/ UNCHANGED <<inv, sem>>
         \/ \E a \in Admins :
              \/ remove_rest(a)
         \/ \E i \in Callers :
              \/ (\E kind \in CallKinds : Invoke(i, kind)) \/ acquire_plugin(i)
              \/ acquire_global(i) \/ prepare_row(i) \/ prepare_grants(i) \/ prepare_ready(i)
              \/ prepare_load(i) \/ prepare_fails(i) \/ claim_circuit_probe(i) \/ claim_read(i)
              \/ host_storage_put(i) \/ host_storage_delete(i) \/ returns(i) \/ store_facts(i)
              \/ settle_clear(i) \/ record_count(i) \/ record_tally(i) \/ record_trip(i)
              \/ settle_cancelled(i) \/ drop_call(i)
         \/ Restart
<1>1. CASE UNCHANGED vars
  BY <1>1 DEF vars, store, memory
<1>2. ASSUME NEW a \in Admins,
             install_from_source(a) \/ install_retained(a) \/ persist_package(a) \/
             upsert_plugin(a) \/ remember_component(a) \/ rollback(a) \/ enable(a) \/
             enable_check(a) \/ enable_set(a) \/ enable_clear(a) \/
             register_enabled_plugin_capabilities(a) \/ disable(a) \/ disable_row(a) \/
             remove(a) \/ approve_permissions(a) \/ replace_permissions(a) \/
             approve_permissions_scoped(a) \/ replace_permissions_scoped(a) \/
             revoke_permission(a) \/ validate(a) \/ validate_compile(a) \/
             update_ui_settings(a) \/ put_setting(a) \/ clear_setting(a)
      PROVE  UNCHANGED <<inv, sem>>
  BY <1>2 DEF install_from_source, install_retained, persist_package, upsert_plugin,
     remember_component, rollback, enable, enable_check, enable_set, enable_clear,
     register_enabled_plugin_capabilities, disable, disable_row, remove, approve_permissions,
     replace_permissions, approve_permissions_scoped, replace_permissions_scoped, revoke_permission,
     validate, validate_compile, update_ui_settings, put_setting, clear_setting, At, Begin, store,
     memory
<1>3. CASE Cooldown
  BY <1>3 DEF Cooldown, At, Begin, store, memory
<1> QED
  BY Steps, <1>1, <1>2, <1>3, Zenon

\* The steps that touch the row, what belongs to it, or the memory of it.
LEMMA StoreSteps ==
  ASSUME [Next]_vars
  PROVE  \/ UNCHANGED <<row, grants, retained, files, circuit, cache, registered, sem>>
         \/ \E a \in Admins :
              \/ persist_package(a) \/ upsert_plugin(a) \/ remember_component(a) \/ enable_check(a)
              \/ enable_set(a) \/ enable_clear(a) \/ register_enabled_plugin_capabilities(a)
              \/ disable_row(a) \/ remove(a) \/ remove_rest(a) \/ replace_permissions(a)
              \/ replace_permissions_scoped(a) \/ revoke_permission(a) \/ validate_compile(a)
         \/ \E i \in Callers :
              \/ prepare_load(i) \/ claim_circuit_probe(i) \/ settle_clear(i) \/ record_count(i)
              \/ record_trip(i) \/ settle_cancelled(i)
         \/ Cooldown \/ Restart
<1>1. CASE UNCHANGED vars
  BY <1>1 DEF vars, store, memory
<1>2. ASSUME NEW a \in Admins,
             install_from_source(a) \/ install_retained(a) \/ rollback(a) \/ enable(a) \/
             disable(a) \/ approve_permissions(a) \/ approve_permissions_scoped(a) \/
             validate(a) \/ update_ui_settings(a) \/ put_setting(a) \/ clear_setting(a)
      PROVE  UNCHANGED <<row, grants, retained, files, circuit, cache, registered, sem>>
  BY <1>2 DEF install_from_source, install_retained, rollback, enable, disable, approve_permissions,
     approve_permissions_scoped, validate, update_ui_settings, put_setting, clear_setting, store,
     memory
<1>3. ASSUME NEW i \in Callers,
             (\E kind \in CallKinds : Invoke(i, kind)) \/ acquire_plugin(i) \/
             acquire_global(i) \/ prepare_row(i) \/ prepare_grants(i) \/ prepare_ready(i)
             \/ prepare_fails(i) \/ claim_read(i) \/ host_storage_put(i) \/
             host_storage_delete(i) \/ returns(i) \/ store_facts(i) \/ record_tally(i) \/
             drop_call(i)
      PROVE  UNCHANGED <<row, grants, retained, files, circuit, cache, registered, sem>>
  BY <1>3 DEF Invoke, acquire_plugin, acquire_global, prepare_row, prepare_grants, prepare_ready,
     prepare_fails, claim_read, host_storage_put, host_storage_delete, returns, store_facts,
     record_tally, drop_call, store, memory
<1> QED
  BY Steps, <1>1, <1>2, <1>3, Zenon

\* The steps that touch the row or the plugin's keys.
LEMMA KvSteps ==
  ASSUME [Next]_vars
  PROVE  \/ UNCHANGED <<row, kv>>
         \/ \E a \in Admins :
              \/ upsert_plugin(a) \/ enable_set(a) \/ disable_row(a) \/ remove(a) \/ put_setting(a)
              \/ clear_setting(a)
         \/ \E i \in Callers :
              \/ host_storage_put(i) \/ host_storage_delete(i) \/ store_facts(i)
<1>1. CASE UNCHANGED vars
  BY <1>1 DEF vars, store, memory
<1>2. ASSUME NEW a \in Admins,
             install_from_source(a) \/ install_retained(a) \/ persist_package(a) \/
             remember_component(a) \/ rollback(a) \/ enable(a) \/ enable_check(a) \/
             enable_clear(a) \/ register_enabled_plugin_capabilities(a) \/ disable(a) \/
             remove_rest(a) \/ approve_permissions(a) \/ replace_permissions(a) \/
             approve_permissions_scoped(a) \/ replace_permissions_scoped(a) \/
             revoke_permission(a) \/ validate(a) \/ validate_compile(a) \/
             update_ui_settings(a)
      PROVE  UNCHANGED <<row, kv>>
  BY <1>2 DEF install_from_source, install_retained, persist_package, remember_component, rollback,
     enable, enable_check, enable_clear, register_enabled_plugin_capabilities, disable, remove_rest,
     approve_permissions, replace_permissions, approve_permissions_scoped,
     replace_permissions_scoped, revoke_permission, validate, validate_compile, update_ui_settings,
     store, memory
<1>3. ASSUME NEW i \in Callers,
             (\E kind \in CallKinds : Invoke(i, kind)) \/ acquire_plugin(i) \/
             acquire_global(i) \/ prepare_row(i) \/ prepare_grants(i) \/ prepare_ready(i)
             \/ prepare_load(i) \/ prepare_fails(i) \/ claim_circuit_probe(i) \/
             claim_read(i) \/ returns(i) \/ settle_clear(i) \/ record_count(i) \/
             record_tally(i) \/ record_trip(i) \/ settle_cancelled(i) \/ drop_call(i)
      PROVE  UNCHANGED <<row, kv>>
  BY <1>3 DEF Invoke, acquire_plugin, acquire_global, prepare_row, prepare_grants, prepare_ready,
     prepare_load, prepare_fails, claim_circuit_probe, claim_read, returns, settle_clear,
     record_count, record_tally, record_trip, settle_cancelled, drop_call, store, memory
<1>4. CASE Cooldown
  BY <1>4 DEF Cooldown, store, memory
<1>5. CASE Restart
  BY <1>5 DEF Restart, store, memory
<1> QED
  BY Steps, <1>1, <1>2, <1>3, <1>4, <1>5, Zenon

\* The steps that use up what the environment may do.
LEMMA LeftSteps ==
  ASSUME [Next]_vars
  PROVE  \/ left' = left
         \/ \E a \in Admins :
              \/ install_from_source(a) \/ install_retained(a) \/ rollback(a) \/ enable(a)
              \/ disable(a) \/ remove(a) \/ approve_permissions(a) \/ approve_permissions_scoped(a)
              \/ revoke_permission(a) \/ validate(a) \/ update_ui_settings(a)
         \/ Restart
<1>1. CASE UNCHANGED vars
  BY <1>1 DEF vars, store, memory
<1>2. ASSUME NEW a \in Admins,
             persist_package(a) \/ upsert_plugin(a) \/ remember_component(a) \/
             enable_check(a) \/ enable_set(a) \/ enable_clear(a) \/
             register_enabled_plugin_capabilities(a) \/ disable_row(a) \/ remove_rest(a)
             \/ replace_permissions(a) \/ replace_permissions_scoped(a) \/
             validate_compile(a) \/ put_setting(a) \/ clear_setting(a)
      PROVE  left' = left
  BY <1>2 DEF persist_package, upsert_plugin, remember_component, enable_check, enable_set,
     enable_clear, register_enabled_plugin_capabilities, disable_row, remove_rest,
     replace_permissions, replace_permissions_scoped, validate_compile, put_setting, clear_setting,
     At, Step
<1>3. ASSUME NEW i \in Callers,
             (\E kind \in CallKinds : Invoke(i, kind)) \/ acquire_plugin(i) \/
             acquire_global(i) \/ prepare_row(i) \/ prepare_grants(i) \/ prepare_ready(i)
             \/ prepare_load(i) \/ prepare_fails(i) \/ claim_circuit_probe(i) \/
             claim_read(i) \/ host_storage_put(i) \/ host_storage_delete(i) \/ returns(i)
             \/ store_facts(i) \/ settle_clear(i) \/ record_count(i) \/ record_tally(i) \/
             record_trip(i) \/ settle_cancelled(i) \/ drop_call(i)
      PROVE  left' = left
  BY <1>3 DEF Invoke, acquire_plugin, acquire_global, prepare_row, prepare_grants, prepare_ready,
     prepare_load, prepare_fails, claim_circuit_probe, claim_read, host_storage_put,
     host_storage_delete, returns, store_facts, settle_clear, record_count, record_tally,
     record_trip, settle_cancelled, drop_call, At, Step
<1>4. CASE Cooldown
  BY <1>4 DEF Cooldown, At, Step
<1> QED
  BY Steps, <1>1, <1>2, <1>3, <1>4, Zenon

\* No step breaks what holds of the row and of the memory of it.
LEMMA StoreStep == IInv /\ [Next]_vars => StoreInv'
<1> SUFFICES ASSUME IInv, [Next]_vars PROVE StoreInv'
  OBVIOUS
<1> USE InstalledNamesPackage, PluginAssumption
<1>1. CASE UNCHANGED <<row, grants, retained, files, circuit, cache, registered, sem>>
  BY <1>1 DEF IInv, StoreInv, store, memory, Grants, RetainedIsReadable, Installed, NoRow
<1>2. ASSUME NEW a \in Admins, persist_package(a) PROVE StoreInv'
  BY <1>2 DEF persist_package, At, Goto, store, memory, IInv, StoreInv, Grants, RetainedIsReadable,
     Installed, NoRow, OpInv, OpStates, Named
<1>3. ASSUME NEW a \in Admins, upsert_plugin(a) PROVE StoreInv'
  BY <1>3 DEF upsert_plugin, At, Upsert, Goto, memory, IInv, StoreInv, store, Grants,
     RetainedIsReadable, Installed, NoRow, OpInv, OpStates, Named
<1>4. ASSUME NEW a \in Admins, remember_component(a) PROVE StoreInv'
  BY <1>4 DEF remember_component, At, Remember, Done, store, NoOp, IInv, StoreInv, memory, Grants,
     RetainedIsReadable, Installed, NoRow, OpInv, OpStates, Named
<1>5. ASSUME NEW a \in Admins, enable_check(a) PROVE StoreInv'
  BY <1>5 DEF enable_check, At, Approved, Goto, Compile, Done, store, NoOp, IInv, StoreInv, memory,
     Grants, RetainedIsReadable, Installed, NoRow, OpInv, OpStates, Named
<1>6. ASSUME NEW a \in Admins, enable_set(a) PROVE StoreInv'
  BY <1>6 DEF enable_set, At, SetEnabled, Goto, memory, Installed, NoRow, IInv, StoreInv, store,
     Grants, RetainedIsReadable
<1>7. ASSUME NEW a \in Admins, enable_clear(a) PROVE StoreInv'
  BY <1>7 DEF enable_clear, At, Cleared, Goto, memory, IInv, StoreInv, store, Grants,
     RetainedIsReadable, Installed, NoRow
<1>8. ASSUME NEW a \in Admins, register_enabled_plugin_capabilities(a) PROVE StoreInv'
  BY <1>8 DEF register_enabled_plugin_capabilities, At, Installed, Done, store, NoRow, NoOp, IInv,
     StoreInv, memory, Grants, RetainedIsReadable
<1>9. ASSUME NEW a \in Admins, disable_row(a) PROVE StoreInv'
  BY <1>9 DEF disable_row, At, SetEnabled, Done, Installed, NoOp, NoRow, IInv, StoreInv, store,
     memory, Grants, RetainedIsReadable
<1>10. ASSUME NEW a \in Admins, remove(a) PROVE StoreInv'
  BY <1>10 DEF remove, Begin, DeleteRow, memory, NoOp, NoRow, IInv, StoreInv, store, Grants,
     RetainedIsReadable, Installed
<1>11. ASSUME NEW a \in Admins, remove_rest(a) PROVE StoreInv'
  <2>1. /\ cache' = [sha |-> None, code |-> None]
        /\ sem' = sem + 1 /\ registered' = FALSE
        /\ UNCHANGED <<row, grants, retained, files, circuit>>
    BY <1>11 DEF remove_rest, store
  <2>2. cache' \in [sha : Packages \cup {None}, code : Packages \cup {None}] /\ cache'.sha = cache'.code
    BY <2>1
  <2>3. sem' \in Nat
    <3>1. sem \in Nat
      BY DEF IInv, StoreInv
    <3> QED
      BY <3>1, <2>1
  <2>5. registered' \in BOOLEAN
    BY <2>1, Zenon
  <2>4. RetainedIsReadable'
    BY <2>1 DEF IInv, StoreInv, RetainedIsReadable, Installed, NoRow
  <2> QED
    BY <2>1, <2>2, <2>3, <2>4, <2>5 DEF IInv, StoreInv
<1>12. ASSUME NEW a \in Admins, replace_permissions(a) PROVE StoreInv'
  BY <1>12 DEF replace_permissions, At, Installed, Done, memory, NoRow, NoOp, IInv, StoreInv, store,
     Grants, RetainedIsReadable, OpInv, OpStates, Named
<1>13. ASSUME NEW a \in Admins, replace_permissions_scoped(a) PROVE StoreInv'
  BY <1>13 DEF replace_permissions_scoped, At, Installed, Done, memory, NoRow, NoOp, IInv, StoreInv,
     store, Grants, RetainedIsReadable, OpInv, OpStates, Named
<1>14. ASSUME NEW a \in Admins, revoke_permission(a) PROVE StoreInv'
  BY <1>14 DEF revoke_permission, Installed, Begin, memory, NoRow, NoOp, IInv, StoreInv, store,
     Grants, RetainedIsReadable
<1>15. ASSUME NEW a \in Admins, validate_compile(a) PROVE StoreInv'
  BY <1>15 DEF validate_compile, At, Compile, Done, store, NoOp, IInv, StoreInv, memory, Grants,
     RetainedIsReadable, Installed, NoRow, OpInv, OpStates, Named
<1>16. ASSUME NEW i \in Callers, prepare_load(i) PROVE StoreInv'
  BY <1>16 DEF prepare_load, Step, Compiled, Compile, store, IInv, StoreInv, memory, Grants,
     RetainedIsReadable, Installed, NoRow, CallInv, CallStates, Preparing
<1>17. ASSUME NEW i \in Callers, claim_circuit_probe(i) PROVE StoreInv'
  BY <1>17 DEF claim_circuit_probe, Step, To, memory, IInv, StoreInv, store, Grants,
     RetainedIsReadable, Installed, NoRow
<1>18. ASSUME NEW i \in Callers, settle_clear(i) PROVE StoreInv'
  BY <1>18 DEF settle_clear, Step, Cleared, End, memory, NoCall, IInv, StoreInv, store, Grants,
     RetainedIsReadable, Installed, NoRow
<1>19. ASSUME NEW i \in Callers, record_count(i) PROVE StoreInv'
  BY <1>19 DEF record_count, Step, Counted, To, memory, IInv, StoreInv, store, Grants,
     RetainedIsReadable, Installed, NoRow
<1>20. ASSUME NEW i \in Callers, record_trip(i) PROVE StoreInv'
  BY <1>20 DEF record_trip, Step, Tripped, End, memory, NoCall, IInv, StoreInv, store, Grants,
     RetainedIsReadable, Installed, NoRow
<1>21. ASSUME NEW i \in Callers, settle_cancelled(i) PROVE StoreInv'
  BY <1>21 DEF settle_cancelled, Step, Reopened, End, memory, NoCall, IInv, StoreInv, store, Grants,
     RetainedIsReadable, Installed, NoRow
<1>22. CASE Cooldown
  BY <1>22 DEF Cooldown, memory, IInv, StoreInv, store, Grants, RetainedIsReadable, Installed, NoRow
<1>23. CASE Restart
  BY <1>23 DEF Restart, NoOp, NoCall, store, IInv, StoreInv, memory, Grants, RetainedIsReadable,
     Installed, NoRow
<1> QED
  BY StoreSteps, <1>1, <1>2, <1>3, <1>4, <1>5, <1>6, <1>7, <1>8, <1>9, <1>10, <1>11, <1>12, <1>13,
     <1>14, <1>15, <1>16, <1>17, <1>18, <1>19, <1>20, <1>21, <1>22, <1>23

\* No step breaks what holds of the administrators' requests.
LEMMA OpStep == IInv /\ [Next]_vars => OpInv'
<1> SUFFICES ASSUME IInv, [Next]_vars PROVE OpInv'
  OBVIOUS
<1>1. CASE UNCHANGED <<op, files>>
  BY <1>1 DEF IInv, OpInv, OpStates, OpStages, OpKinds, Named
<1>2. ASSUME NEW a \in Admins, install_from_source(a) PROVE OpInv'
  <2>1. PICK pk \in Packages : Begin(a, "install", "persist", pk)
    BY <1>2 DEF install_from_source
  <2> QED
    BY <1>2, <2>1, InstalledNamesPackage DEF install_from_source, Begin, NoOp, IInv, OpInv, OpStates,
       OpStages, OpKinds, Named
<1>3. ASSUME NEW a \in Admins, install_retained(a) PROVE OpInv'
  <2>1. PICK pk \in Readable : Begin(a, "install", "persist", pk)
    BY <1>3 DEF install_retained
  <2> QED
    BY <1>3, <2>1, InstalledNamesPackage DEF install_retained, Readable, Begin, NoOp, IInv, OpInv,
       OpStates, OpStages, OpKinds, Named, StoreInv
<1>4. ASSUME NEW a \in Admins, persist_package(a) PROVE OpInv'
  BY <1>4 DEF persist_package, At, Goto, IInv, OpInv, OpStates, OpStages, OpKinds, Named
<1>5. ASSUME NEW a \in Admins, upsert_plugin(a) PROVE OpInv'
  BY <1>5 DEF upsert_plugin, At, Upsert, Goto, IInv, OpInv, OpStates, OpStages, OpKinds, Named
<1>6. ASSUME NEW a \in Admins, remember_component(a) PROVE OpInv'
  BY <1>6 DEF remember_component, At, Remember, Done, NoOp, IInv, OpInv, OpStates, OpStages,
     OpKinds, Named
<1>7. ASSUME NEW a \in Admins, rollback(a) PROVE OpInv'
  <2>1. PICK pk \in Readable \ {row.sha} : Begin(a, "rollback", "upsert", pk)
    BY <1>7 DEF rollback
  <2> QED
    BY <1>7, <2>1, InstalledNamesPackage DEF rollback, Readable, Begin, NoOp, IInv, OpInv, OpStates,
       OpStages, OpKinds, Named, StoreInv
<1>8. ASSUME NEW a \in Admins, enable(a) PROVE OpInv'
  BY <1>8, InstalledNamesPackage DEF enable, Installed, Begin, store, memory, NoRow, NoOp, IInv,
     OpInv, OpStates, OpStages, OpKinds, Named
<1>9. ASSUME NEW a \in Admins, enable_check(a) PROVE OpInv'
  BY <1>9 DEF enable_check, At, Approved, Goto, Compile, Done, NoOp, IInv, OpInv, OpStates,
     OpStages, OpKinds, Named
<1>10. ASSUME NEW a \in Admins, enable_set(a) PROVE OpInv'
  BY <1>10 DEF enable_set, At, Goto, IInv, OpInv, OpStates, OpStages, OpKinds, Named
<1>11. ASSUME NEW a \in Admins, enable_clear(a) PROVE OpInv'
  BY <1>11 DEF enable_clear, At, Cleared, Goto, IInv, OpInv, OpStates, OpStages, OpKinds, Named
<1>12. ASSUME NEW a \in Admins, register_enabled_plugin_capabilities(a) PROVE OpInv'
  BY <1>12 DEF register_enabled_plugin_capabilities, At, Done, NoOp, IInv, OpInv, OpStates,
     OpStages, OpKinds, Named
<1>13. ASSUME NEW a \in Admins, disable(a) PROVE OpInv'
  BY <1>13 DEF disable, Begin, NoOp, IInv, OpInv, OpStates, OpStages, OpKinds, Named
<1>14. ASSUME NEW a \in Admins, disable_row(a) PROVE OpInv'
  BY <1>14 DEF disable_row, At, SetEnabled, Done, NoOp, IInv, OpInv, OpStates, OpStages, OpKinds,
     Named
<1>15. ASSUME NEW a \in Admins, remove(a) PROVE OpInv'
  BY <1>15 DEF remove, Begin, DeleteRow, NoOp, IInv, OpInv, OpStates, OpStages, OpKinds, Named
<1>16. ASSUME NEW a \in Admins, remove_rest(a) PROVE OpInv'
  BY <1>16 DEF remove_rest, At, Done, NoOp, IInv, OpInv, OpStates, OpStages, OpKinds, Named
<1>17. ASSUME NEW a \in Admins, approve_permissions(a) PROVE OpInv'
  BY <1>17, InstalledNamesPackage DEF approve_permissions, Installed, Begin, store, memory, NoRow,
     NoOp, IInv, OpInv, OpStates, OpStages, OpKinds, Named
<1>18. ASSUME NEW a \in Admins, replace_permissions(a) PROVE OpInv'
  BY <1>18 DEF replace_permissions, At, Done, NoOp, IInv, OpInv, OpStates, OpStages, OpKinds, Named
<1>19. ASSUME NEW a \in Admins, approve_permissions_scoped(a) PROVE OpInv'
  BY <1>19, InstalledNamesPackage DEF approve_permissions_scoped, Installed, Begin, store, memory,
     NoRow, NoOp, IInv, OpInv, OpStates, OpStages, OpKinds, Named
<1>20. ASSUME NEW a \in Admins, replace_permissions_scoped(a) PROVE OpInv'
  BY <1>20 DEF replace_permissions_scoped, At, Done, NoOp, IInv, OpInv, OpStates, OpStages, OpKinds,
     Named
<1>21. ASSUME NEW a \in Admins, revoke_permission(a) PROVE OpInv'
  BY <1>21 DEF revoke_permission, Begin, NoOp, IInv, OpInv, OpStates, OpStages, OpKinds, Named
<1>22. ASSUME NEW a \in Admins, validate(a) PROVE OpInv'
  BY <1>22, InstalledNamesPackage DEF validate, Installed, Begin, store, memory, NoRow, NoOp, IInv,
     OpInv, OpStates, OpStages, OpKinds, Named
<1>23. ASSUME NEW a \in Admins, validate_compile(a) PROVE OpInv'
  BY <1>23 DEF validate_compile, At, Compile, Done, NoOp, IInv, OpInv, OpStates, OpStages, OpKinds,
     Named
<1>24. ASSUME NEW a \in Admins, update_ui_settings(a) PROVE OpInv'
  BY <1>24, InstalledNamesPackage DEF update_ui_settings, Installed, NoOp, store, memory, NoRow,
     IInv, OpInv, OpStates, OpStages, OpKinds, Named
<1>25. ASSUME NEW a \in Admins, put_setting(a) PROVE OpInv'
  <2>1. PICK key \in op[a].keys :
               IF CanPut(key, op[a].sha) /\ op[a].keys # {key}
               THEN op' = [op EXCEPT ![a].keys = @ \ {key}] ELSE Done(a)
    BY <1>25 DEF put_setting
  <2>2. op' = [op EXCEPT ![a].keys = @ \ {key}] \/ op' = [op EXCEPT ![a] = NoOp]
    BY <2>1 DEF Done
  <2>3. op[a].keys \ {key} \in SUBSET Settings /\ files' = files /\ op[a].pc = "settings"
    BY <1>25 DEF put_setting, At, IInv, OpInv, OpStates
  <2> QED
    BY <2>2, <2>3 DEF NoOp, IInv, OpInv, OpStates, OpStages, OpKinds, Named
<1>26. ASSUME NEW a \in Admins, clear_setting(a) PROVE OpInv'
  BY <1>26 DEF clear_setting, At, DeleteKv, Done, NoOp, IInv, OpInv, OpStates, OpStages, OpKinds,
     Named
<1>27. CASE Restart
  BY <1>27 DEF Restart, NoOp, NoCall, store, IInv, OpInv, OpStates, OpStages, OpKinds, Named
<1> QED
  BY OpSteps, <1>1, <1>2, <1>3, <1>4, <1>5, <1>6, <1>7, <1>8, <1>9, <1>10, <1>11, <1>12, <1>13,
     <1>14, <1>15, <1>16, <1>17, <1>18, <1>19, <1>20, <1>21, <1>22, <1>23, <1>24, <1>25, <1>26,
     <1>27

\* No step breaks what holds of the calls.
LEMMA CallStep == IInv /\ [Next]_vars => CallInv'
<1> SUFFICES ASSUME IInv, [Next]_vars PROVE CallInv'
  OBVIOUS
<1>1. CASE UNCHANGED <<inv, sem>>
  BY <1>1 DEF IInv, CallInv, CallStates, CallStages, CallKinds, Preparing, RunningStages, StoreInv
<1>2. ASSUME NEW a \in Admins, remove_rest(a) PROVE CallInv'
  BY <1>2 DEF remove_rest, At, Done, store, NoOp, IInv, CallInv, CallStates, CallStages, CallKinds,
     Preparing, RunningStages, StoreInv
<1>3. ASSUME NEW i \in Callers, NEW kind \in CallKinds, Invoke(i, kind) PROVE CallInv'
  <2> DEFINE call == [NoCall EXCEPT !.pc = "plugin", !.kind = kind, !.gen = sem]
  <2>1. inv' = [inv EXCEPT ![i] = call] /\ sem' = sem
    BY <1>3, Zenon DEF Invoke, memory
  <2>2. sem \in 0..sem
    BY DEF IInv, StoreInv
  <2>3. call \in CallStates(0..sem) /\ call.pc = "plugin"
    BY <2>2 DEF NoCall, CallStates, CallStages
  <2> HIDE DEF call
  <2> QED
    BY <2>1, <2>3 DEF IInv, CallInv, Preparing, RunningStages
<1>4. ASSUME NEW i \in Callers, acquire_plugin(i) PROVE CallInv'
  BY <1>4 DEF acquire_plugin, Step, Holders, To, store, memory, HasPlugin, IInv, CallInv,
     CallStates, CallStages, CallKinds, Preparing, RunningStages, StoreInv
<1>5. ASSUME NEW i \in Callers, acquire_global(i) PROVE CallInv'
  BY <1>5 DEF acquire_global, Step, HasGlobal, To, store, memory, IInv, CallInv, CallStates,
     CallStages, CallKinds, Preparing, RunningStages, StoreInv
<1>6. ASSUME NEW i \in Callers, prepare_row(i) PROVE CallInv'
  BY <1>6 DEF prepare_row, Step, End, store, memory, NoCall, IInv, CallInv, CallStates, CallStages,
     CallKinds, Preparing, RunningStages, StoreInv
<1>7. ASSUME NEW i \in Callers, prepare_grants(i) PROVE CallInv'
  BY <1>7 DEF prepare_grants, Step, Approved, End, store, memory, NoCall, IInv, CallInv, CallStates,
     CallStages, CallKinds, Preparing, RunningStages, StoreInv
<1>8. ASSUME NEW i \in Callers, prepare_ready(i) PROVE CallInv'
  BY <1>8 DEF prepare_ready, Step, To, End, store, memory, NoCall, IInv, CallInv, CallStates,
     CallStages, CallKinds, Preparing, RunningStages, StoreInv
<1>9. ASSUME NEW i \in Callers, prepare_load(i) PROVE CallInv'
  BY <1>9 DEF prepare_load, Step, Compiled, Compile, store, IInv, CallInv, CallStates, CallStages,
     CallKinds, Preparing, RunningStages, StoreInv
<1>10. ASSUME NEW i \in Callers, prepare_fails(i) PROVE CallInv'
  BY <1>10 DEF prepare_fails, Step, End, store, memory, NoCall, IInv, CallInv, CallStates,
     CallStages, CallKinds, Preparing, RunningStages, StoreInv
<1>11. ASSUME NEW i \in Callers, claim_circuit_probe(i) PROVE CallInv'
  BY <1>11 DEF claim_circuit_probe, Step, To, memory, IInv, CallInv, CallStates, CallStages,
     CallKinds, Preparing, RunningStages, StoreInv
<1>12. ASSUME NEW i \in Callers, claim_read(i) PROVE CallInv'
  BY <1>12 DEF claim_read, Step, To, End, store, memory, NoCall, IInv, CallInv, CallStates,
     CallStages, CallKinds, Preparing, RunningStages, StoreInv
<1>13. ASSUME NEW i \in Callers, host_storage_put(i) PROVE CallInv'
  BY <1>13 DEF host_storage_put, Step, PutKv, memory, CanPut, Installed, NoRow, IInv, CallInv,
     CallStates, CallStages, CallKinds, Preparing, RunningStages, StoreInv
<1>14. ASSUME NEW i \in Callers, host_storage_delete(i) PROVE CallInv'
  BY <1>14 DEF host_storage_delete, Step, DeleteKv, memory, IInv, CallInv, CallStates, CallStages,
     CallKinds, Preparing, RunningStages, StoreInv
<1>15. ASSUME NEW i \in Callers, returns(i) PROVE CallInv'
  BY <1>15 DEF returns, Step, To, store, memory, IInv, CallInv, CallStates, CallStages, CallKinds,
     Preparing, RunningStages, StoreInv
<1>16. ASSUME NEW i \in Callers, store_facts(i) PROVE CallInv'
  BY <1>16 DEF store_facts, Step, Fits, ReplaceFacts, To, memory, Installed, NoRow, IInv, CallInv,
     CallStates, CallStages, CallKinds, Preparing, RunningStages, StoreInv
<1>17. ASSUME NEW i \in Callers, settle_clear(i) PROVE CallInv'
  BY <1>17 DEF settle_clear, Step, Cleared, End, memory, NoCall, IInv, CallInv, CallStates,
     CallStages, CallKinds, Preparing, RunningStages, StoreInv
<1>18. ASSUME NEW i \in Callers, record_count(i) PROVE CallInv'
  BY <1>18 DEF record_count, Step, Counted, To, memory, IInv, CallInv, CallStates, CallStages,
     CallKinds, Preparing, RunningStages, StoreInv
<1>19. ASSUME NEW i \in Callers, record_tally(i) PROVE CallInv'
  BY <1>19 DEF record_tally, Step, To, End, store, memory, NoCall, IInv, CallInv, CallStates,
     CallStages, CallKinds, Preparing, RunningStages, StoreInv
<1>20. ASSUME NEW i \in Callers, record_trip(i) PROVE CallInv'
  BY <1>20 DEF record_trip, Step, Tripped, End, memory, NoCall, IInv, CallInv, CallStates,
     CallStages, CallKinds, Preparing, RunningStages, StoreInv
<1>21. ASSUME NEW i \in Callers, settle_cancelled(i) PROVE CallInv'
  BY <1>21 DEF settle_cancelled, Step, Reopened, End, memory, NoCall, IInv, CallInv, CallStates,
     CallStages, CallKinds, Preparing, RunningStages, StoreInv
<1>22. ASSUME NEW i \in Callers, drop_call(i) PROVE CallInv'
  BY <1>22 DEF drop_call, End, store, memory, NoCall, IInv, CallInv, CallStates, CallStages,
     CallKinds, Preparing, RunningStages, StoreInv
<1>23. CASE Restart
  BY <1>23 DEF Restart, NoOp, NoCall, store, IInv, CallInv, CallStates, CallStages, CallKinds,
     Preparing, RunningStages, StoreInv
<1> QED
  BY CallSteps, <1>1, <1>2, <1>3, <1>4, <1>5, <1>6, <1>7, <1>8, <1>9, <1>10, <1>11, <1>12, <1>13,
     <1>14, <1>15, <1>16, <1>17, <1>18, <1>19, <1>20, <1>21, <1>22, <1>23

-----------------------------------------------------------------------------
(* The stored values. *)

\* A key that is written after its size was checked keeps the keys within the quota.
LEMMA PutKeepsKv ==
  ASSUME KvInv, StoreInv, NEW key \in Settings \cup OwnKeys, NEW pk \in Packages, PutKv(key, pk), row' = row
  PROVE  KvInv'
<1> USE PluginAssumption
<1>1. CASE ~CanPut(key, pk)
  <2>1. kv' = kv
    BY <1>1 DEF PutKv
  <2> QED
    BY <2>1 DEF KvInv, SnapshotIsWhole, StorageWithinQuota, Installed
<1>2. CASE CanPut(key, pk)
  <2>1. kv' = [k \in DOMAIN kv \cup {key} |-> IF k = key THEN {} ELSE kv[k]]
    BY <1>2 DEF PutKv
  <2>2. DOMAIN kv' = DOMAIN kv \cup {key}
    BY <2>1
  <2>3. key \notin Facts
    OBVIOUS
  <2>4. IsFiniteSet(DOMAIN kv')
    BY <2>2, FS_AddElement DEF KvInv
  <2>5. Cardinality(DOMAIN kv') = Cardinality(DOMAIN kv \ {key}) + 1
    <3>1. IsFiniteSet(DOMAIN kv \ {key})
      BY FS_RemoveElement DEF KvInv
    <3>2. (DOMAIN kv \ {key}) \cup {key} = DOMAIN kv'
      BY <2>2
    <3> QED
      BY <3>1, <3>2, FS_AddElement
  <2>6. StorageWithinQuota'
    BY <1>2, <2>5 DEF CanPut, StorageWithinQuota
  <2>7. SnapshotIsWhole'
    BY <2>1, <2>2, <2>3 DEF KvInv, SnapshotIsWhole
  <2> QED
    BY <1>2, <2>1, <2>2, <2>4, <2>6, <2>7 DEF KvInv, CanPut, Installed
<1> QED
  BY <1>1, <1>2

\* So does one that is deleted.
LEMMA DeleteKeepsKv ==
  ASSUME KvInv, NEW key \in Settings \cup OwnKeys, DeleteKv(key), row' = row
  PROVE  KvInv'
<1> USE PluginAssumption
<1>1. kv' = [k \in DOMAIN kv \ {key} |-> kv[k]]
  BY DEF DeleteKv, Restrict
<1>2. DOMAIN kv' = DOMAIN kv \ {key}
  BY <1>1
<1>3. IsFiniteSet(DOMAIN kv') /\ Cardinality(DOMAIN kv') <= Cardinality(DOMAIN kv)
  BY <1>2, FS_Subset DEF KvInv
<1>4. Cardinality(DOMAIN kv') \in Nat /\ Cardinality(DOMAIN kv) \in Nat
  BY <1>3, FS_CardinalityType DEF KvInv
<1>5. StorageWithinQuota'
  BY <1>3, <1>4 DEF KvInv, StorageWithinQuota
<1>6. SnapshotIsWhole'
  BY <1>1, <1>2 DEF KvInv, SnapshotIsWhole
<1> QED
  BY <1>1, <1>2, <1>3, <1>5, <1>6 DEF KvInv, Installed

\* So do the facts of a refresh, which take the place of the earlier ones.
LEMMA ReplaceKeepsKv ==
  ASSUME KvInv, NEW facts \in SUBSET Facts, NEW pk \in Packages, Fits(facts, pk), ReplaceFacts(facts),
         row' = row
  PROVE  KvInv'
<1> USE PluginAssumption
<1> DEFINE others == DOMAIN kv \ Facts
<1>1. kv' = [k \in others \cup facts |-> IF k \in facts THEN facts ELSE kv[k]]
  BY DEF ReplaceFacts
<1>2. DOMAIN kv' = others \cup facts
  BY <1>1
<1>3. IsFiniteSet(others) /\ IsFiniteSet(facts)
  BY FS_Subset DEF KvInv
<1>4. IsFiniteSet(others \cup facts)
      /\ Cardinality(others \cup facts) = Cardinality(others) + Cardinality(facts) - Cardinality({})
  <2>1. others \cap facts = {}
    OBVIOUS
  <2> HIDE DEF others
  <2>2. Cardinality(others \cup facts)
          = Cardinality(others) + Cardinality(facts) - Cardinality(others \cap facts)
    BY <1>3, FS_Union
  <2> QED
    BY <1>3, <2>1, <2>2, FS_Union
<1>5. Cardinality(DOMAIN kv') = Cardinality(others) + Cardinality(facts)
  <2>1. Cardinality(others) \in Nat /\ Cardinality(facts) \in Nat
    BY <1>3, FS_CardinalityType
  <2> QED
    BY <2>1, <1>2, <1>4, FS_EmptySet
<1>6. StorageWithinQuota'
  BY <1>5 DEF Fits, StorageWithinQuota
<1>7. SnapshotIsWhole'
  BY <1>1, <1>2 DEF SnapshotIsWhole
<1> QED
  BY <1>1, <1>2, <1>4, <1>6, <1>7 DEF KvInv, Fits, Installed

\* No step breaks what holds of the plugin's keys.
LEMMA KvStep == IInv /\ [Next]_vars => KvInv'
<1> SUFFICES ASSUME IInv, [Next]_vars PROVE KvInv'
  OBVIOUS
<1>0. KvInv /\ StoreInv
  BY DEF IInv
<1>a. ASSUME kv' = kv, Installed => Installed' PROVE KvInv'
  BY <1>0, <1>a DEF KvInv, SnapshotIsWhole, StorageWithinQuota
<1>1. CASE UNCHANGED <<row, kv>>
  BY <1>1, <1>a DEF Installed
<1>2. ASSUME NEW a \in Admins, upsert_plugin(a) PROVE KvInv'
  <2>1. op[a].sha # None
    BY <1>2, PluginAssumption DEF upsert_plugin, At, IInv, OpInv, Named
  <2> QED
    BY <1>2, <1>a, <2>1 DEF upsert_plugin, Upsert, Installed, NoRow
<1>3. ASSUME NEW a \in Admins, enable_set(a) PROVE KvInv'
  <2>1. Installed => row.sha # None
    BY <1>0, InstalledNamesPackage, PluginAssumption
  <2>2. kv' = kv /\ row' = IF Installed THEN [row EXCEPT !.enabled = TRUE] ELSE row
    BY <1>3 DEF enable_set, SetEnabled
  <2>3. Installed => Installed'
    BY <1>0, <2>1, <2>2 DEF Installed, NoRow, StoreInv
  <2> QED
    BY <1>a, <2>2, <2>3
<1>4. ASSUME NEW a \in Admins, disable_row(a) PROVE KvInv'
  <2>1. Installed => row.sha # None
    BY <1>0, InstalledNamesPackage, PluginAssumption
  <2>2. kv' = kv /\ row' = IF Installed THEN [row EXCEPT !.enabled = FALSE] ELSE row
    BY <1>4 DEF disable_row, SetEnabled
  <2>3. Installed => Installed'
    BY <1>0, <2>1, <2>2 DEF Installed, NoRow, StoreInv
  <2> QED
    BY <1>a, <2>2, <2>3
<1>5. ASSUME NEW a \in Admins, remove(a) PROVE KvInv'
  <2>1. kv' = << >>
    BY <1>5 DEF remove, DeleteRow
  <2>2. DOMAIN kv' = {}
    BY <2>1
  <2> QED
    BY <2>2, FS_EmptySet, PluginAssumption DEF KvInv, SnapshotIsWhole, StorageWithinQuota
<1>6. ASSUME NEW a \in Admins, put_setting(a) \/ clear_setting(a) PROVE KvInv'
  <2>1. op[a].keys \subseteq Settings /\ op[a].sha \in Packages /\ row' = row
    BY <1>6 DEF put_setting, clear_setting, At, IInv, OpInv, OpStates, Named
  <2>2. PICK key \in op[a].keys : PutKv(key, op[a].sha) \/ DeleteKv(key)
    BY <1>6 DEF put_setting, clear_setting
  <2> QED
    BY <1>0, <2>1, <2>2, PutKeepsKv, DeleteKeepsKv
<1>7. ASSUME NEW i \in Callers, host_storage_put(i) \/ host_storage_delete(i) PROVE KvInv'
  <2>1. inv[i].sha \in Packages /\ row' = row
    BY <1>7 DEF host_storage_put, host_storage_delete, Step, IInv, CallInv, RunningStages
  <2>2. PICK key \in OwnKeys : PutKv(key, inv[i].sha) \/ DeleteKv(key)
    BY <1>7 DEF host_storage_put, host_storage_delete
  <2> QED
    BY <1>0, <2>1, <2>2, PutKeepsKv, DeleteKeepsKv
<1>8. ASSUME NEW i \in Callers, store_facts(i) PROVE KvInv'
  <2>1. inv[i].sha \in Packages /\ row' = row
    BY <1>8 DEF store_facts, Step, IInv, CallInv, RunningStages
  <2>2. PICK facts \in SUBSET Facts :
          (Fits(facts, inv[i].sha) /\ ReplaceFacts(facts)) \/ kv' = kv
    BY <1>8 DEF store_facts
  <2>3. CASE kv' = kv
    BY <1>a, <2>1, <2>3 DEF Installed
  <2>4. CASE Fits(facts, inv[i].sha) /\ ReplaceFacts(facts)
    BY <1>0, <2>1, <2>4, ReplaceKeepsKv
  <2> QED
    BY <2>2, <2>3, <2>4
<1> QED
  BY KvSteps, <1>1, <1>2, <1>3, <1>4, <1>5, <1>6, <1>7, <1>8

-----------------------------------------------------------------------------
(* The permits. *)

\* No step changes the number of permits.
LEMMA LeftStep == IInv /\ [Next]_vars => LeftTypes' /\ left'.permits = left.permits
<1> SUFFICES ASSUME IInv, [Next]_vars PROVE LeftTypes' /\ left'.permits = left.permits
  OBVIOUS
<1>0. LeftTypes
  BY DEF IInv
<1>1. CASE left' = left
  BY <1>0, <1>1 DEF LeftTypes
<1>2. ASSUME left.ops > 0, left' = [left EXCEPT !.ops = @ - 1] PROVE LeftTypes' /\ left'.permits = left.permits
  BY <1>0, <1>2 DEF LeftTypes
<1>3. ASSUME NEW a \in Admins,
             \/ install_from_source(a) \/ install_retained(a) \/ rollback(a) \/ enable(a)
             \/ disable(a) \/ remove(a) \/ approve_permissions(a) \/ approve_permissions_scoped(a)
             \/ revoke_permission(a) \/ validate(a) \/ update_ui_settings(a)
      PROVE  left.ops > 0 /\ left' = [left EXCEPT !.ops = @ - 1]
  BY <1>3 DEF install_from_source, install_retained, rollback, enable, disable, remove,
     approve_permissions, approve_permissions_scoped, revoke_permission, validate, update_ui_settings, Begin
<1>4. CASE Restart
  BY <1>0, <1>4 DEF Restart, LeftTypes
<1> QED
  BY LeftSteps, <1>1, <1>2, <1>3, <1>4

\* Nobody has a permit that was not held before.
NoNewHolder ==
  \A i \in Callers :
    /\ HasPlugin(i)' => HasPlugin(i) /\ inv'[i].gen = inv[i].gen
    /\ HasGlobal(i)' => HasGlobal(i)

Globally == {i \in Callers : HasGlobal(i)}

\* The holders of a generation's permits, and of the shared ones, can be counted.
LEMMA HoldersAreFinite ==
  /\ \A g : IsFiniteSet(Holders(g)) /\ Cardinality(Holders(g)) \in Nat
  /\ IsFiniteSet(Globally) /\ Cardinality(Globally) \in Nat
<1>1. \A S \in SUBSET Callers : IsFiniteSet(S) /\ Cardinality(S) \in Nat
  BY FS_Subset, FS_CardinalityType, PluginAssumption
<1> QED
  BY <1>1 DEF Holders, Globally

\* Where nobody gets a permit, no more are out than before; a generation that is new has
\* none out.
LEMMA FewerHolders ==
  ASSUME IInv, NoNewHolder, left'.permits = left.permits, sem' \in {sem, sem + 1}
  PROVE  Permits'
<1>1. \A g : Holders(g)' \subseteq Holders(g)
  BY DEF NoNewHolder, Holders
<1>2. Globally' \subseteq Globally
  BY DEF NoNewHolder, Globally
<1>3. \A g : Cardinality(Holders(g)') <= Cardinality(Holders(g)) /\ Cardinality(Holders(g)') \in Nat
  BY <1>1, HoldersAreFinite, FS_Subset, FS_CardinalityType
<1>4. Cardinality(Globally') <= Cardinality(Globally) /\ Cardinality(Globally') \in Nat
  BY <1>2, HoldersAreFinite, FS_Subset, FS_CardinalityType
<1>5. sem \in Nat /\ left.permits \in Nat /\ Global \in Nat
  BY PluginAssumption DEF IInv, StoreInv, LeftTypes
<1>6. ASSUME NEW g \in 0..sem' PROVE Cardinality(Holders(g)') <= left.permits
  <2>1. CASE g \in 0..sem
    <3>1. Cardinality(Holders(g)) <= left.permits
      BY <2>1 DEF IInv, Permits
    <3> QED
      BY <1>3, <1>5, <3>1, HoldersAreFinite
  <2>2. CASE g \notin 0..sem
    <3>1. Holders(g) = {}
      BY <2>2 DEF IInv, CallInv, CallStates, Holders
    <3>2. Holders(g)' = {}
      BY <1>1, <3>1
    <3> QED
      BY <3>2, <1>5, FS_EmptySet
  <2> QED
    BY <2>1, <2>2
<1>7. Cardinality(Globally') <= Global
  <2>1. Cardinality(Globally) <= Global
    BY DEF IInv, Permits, Globally
  <2> QED
    BY <1>4, <1>5, <2>1, HoldersAreFinite
<1> QED
  BY <1>6, <1>7 DEF Permits, Globally

\* One more of fewer than n is n at most.
LEMMA OneMore ==
  ASSUME NEW S, IsFiniteSet(S), NEW x, NEW n \in Nat, Cardinality(S) < n
  PROVE  Cardinality(S \cup {x}) <= n
<1>1. Cardinality(S) \in Nat
  BY FS_CardinalityType
<1>2. Cardinality(S \cup {x}) = IF x \in S THEN Cardinality(S) ELSE Cardinality(S) + 1
  BY FS_AddElement
<1> QED
  BY <1>1, <1>2

\* No step hands out more permits than there are.
LEMMA PermitsStep == IInv /\ [Next]_vars => Permits'
<1> SUFFICES ASSUME IInv, [Next]_vars PROVE Permits'
  OBVIOUS
<1>l. left'.permits = left.permits
  BY LeftStep
<1>s. sem' \in {sem, sem + 1}
  <2>1. ASSUME NEW a \in Admins, remove_rest(a) PROVE sem' = sem + 1
    BY <2>1 DEF remove_rest
  <2>2. ASSUME NEW i \in Callers,
              (\E kind \in CallKinds : Invoke(i, kind)) \/ acquire_plugin(i) \/ acquire_global(i)
               \/ prepare_row(i) \/ prepare_grants(i) \/ prepare_ready(i) \/ prepare_load(i)
               \/ prepare_fails(i) \/ claim_circuit_probe(i) \/ claim_read(i) \/ host_storage_put(i)
               \/ host_storage_delete(i) \/ returns(i) \/ store_facts(i) \/ settle_clear(i)
               \/ record_count(i) \/ record_tally(i) \/ record_trip(i) \/ settle_cancelled(i)
               \/ drop_call(i)
        PROVE sem' = sem
    BY <2>2 DEF Invoke, acquire_plugin, acquire_global, prepare_row, prepare_grants, prepare_ready,
       prepare_load, prepare_fails, claim_circuit_probe, claim_read, host_storage_put,
       host_storage_delete, returns, store_facts, settle_clear, record_count, record_tally,
       record_trip, settle_cancelled, drop_call, memory
  <2> QED
    BY <2>1, <2>2, CallSteps DEF Restart
<1>t. inv \in [Callers -> CallStates(0..sem)]
  BY DEF IInv, CallInv
<1>n. ASSUME NoNewHolder PROVE Permits'
  BY <1>n, <1>l, <1>s, FewerHolders
\* a call that has its permits keeps them and goes on, or ends
<1>e. ASSUME NEW i \in Callers, HasGlobal(i), End(i) PROVE Permits'
  BY <1>e, <1>t, <1>n DEF End, NoCall, NoNewHolder, HasPlugin, HasGlobal
<1>g. ASSUME NEW i \in Callers, HasGlobal(i), NEW pc, To(i, pc) PROVE Permits'
  BY <1>g, <1>t, <1>n DEF To, CallStates, NoNewHolder, HasPlugin, HasGlobal
<1>1. CASE UNCHANGED <<inv, sem>>
  BY <1>1, <1>n DEF NoNewHolder, HasPlugin, HasGlobal
<1>2. ASSUME NEW a \in Admins, remove_rest(a) PROVE Permits'
  BY <1>2, <1>n DEF remove_rest, At, NoNewHolder, HasPlugin, HasGlobal
<1>3. ASSUME NEW i \in Callers, NEW kind \in CallKinds, Invoke(i, kind) PROVE Permits'
  BY <1>3, <1>n, <1>t DEF Invoke, NoCall, NoNewHolder, HasPlugin, HasGlobal
<1>4. ASSUME NEW i \in Callers, acquire_plugin(i) PROVE Permits'
  <2>0. PICK mine \in 0..sem : mine = inv[i].gen
    BY <1>t DEF CallStates
  <2>1. inv' = [inv EXCEPT ![i].pc = "global"] /\ inv[i].pc = "plugin" /\ sem' = sem
    BY <1>4, <1>t DEF acquire_plugin, Step, To, memory, CallStates
  <2>2. Globally' = Globally
    BY <1>t, <2>1 DEF Globally, HasGlobal
  <2>3. \A g : g # mine => Holders(g)' = Holders(g)
    BY <1>t, <2>0, <2>1 DEF Holders, HasPlugin, CallStates
  <2>4. Holders(mine)' = Holders(mine) \cup {i}
    BY <1>t, <2>0, <2>1 DEF CallStates, Holders, HasPlugin
  <2>5. Cardinality(Holders(mine)) < left.permits
    BY <1>4, <2>0 DEF acquire_plugin
  <2>6. Cardinality(Holders(mine) \cup {i}) <= left.permits
    <3>1. left.permits \in Nat
      BY DEF IInv, LeftTypes
    <3> QED
      BY <2>5, <3>1, HoldersAreFinite, OneMore
  <2>7. \A g \in 0..sem : Cardinality(Holders(g)) <= left.permits
    BY DEF IInv, Permits
  <2>8. \A g \in 0..sem' : Cardinality(Holders(g)') <= left'.permits
    <3> SUFFICES ASSUME NEW g \in 0..sem PROVE Cardinality(Holders(g)') <= left.permits
      BY <1>l, <2>1
    <3>1. CASE g = mine
      BY <3>1, <2>4, <2>6
    <3>2. CASE g # mine
      BY <3>2, <2>3, <2>7
    <3> QED
      BY <3>1, <3>2
  <2>9. Cardinality(Globally) <= Global
    BY DEF IInv, Permits, Globally
  <2> QED
    BY <2>2, <2>8, <2>9 DEF Permits, Globally
<1>5. ASSUME NEW i \in Callers, acquire_global(i) PROVE Permits'
  <2>1. inv' = [inv EXCEPT ![i].pc = "row"] /\ inv[i].pc = "global" /\ sem' = sem
    BY <1>5 DEF acquire_global, Step, To, memory
  <2>2. Globally' = Globally \cup {i}
    BY <1>t, <2>1 DEF Globally, HasGlobal
  <2>3. \A g : Holders(g)' = Holders(g)
    BY <1>t, <2>1 DEF Holders, HasPlugin
  <2>4. Cardinality(Globally) < Global
    BY <1>5 DEF acquire_global, Globally
  <2>5. Cardinality(Globally \cup {i}) <= Global
    BY <2>4, PluginAssumption, HoldersAreFinite, OneMore
  <2>6. \A g \in 0..sem : Cardinality(Holders(g)) <= left.permits
    BY DEF IInv, Permits
  <2>7. \A g \in 0..sem' : Cardinality(Holders(g)') <= left'.permits
    BY <1>l, <2>1, <2>3, <2>6
  <2> QED
    BY <2>2, <2>5, <2>7 DEF Permits, Globally
<1>6. ASSUME NEW i \in Callers, prepare_row(i) PROVE Permits'
  <2>1. HasGlobal(i)
    BY <1>6 DEF prepare_row, Step, HasGlobal
  <2>2. End(i) \/ inv' = [inv EXCEPT ![i].pc = "grants", ![i].sha = row.sha]
    BY <1>6 DEF prepare_row
  <2>3. ASSUME inv' = [inv EXCEPT ![i].pc = "grants", ![i].sha = row.sha] PROVE Permits'
    BY <1>n, <1>t, <2>1, <2>3 DEF CallStates, NoNewHolder, HasPlugin, HasGlobal
  <2> QED
    BY <1>e, <2>1, <2>2, <2>3
<1>7. ASSUME NEW i \in Callers, prepare_grants(i) PROVE Permits'
  <2>1. HasGlobal(i)
    BY <1>7 DEF prepare_grants, Step, HasGlobal
  <2>2. End(i) \/ \E pc : inv' = [inv EXCEPT ![i].pc = pc, ![i].auth = grants]
    BY <1>7 DEF prepare_grants
  <2>3. ASSUME \E pc : inv' = [inv EXCEPT ![i].pc = pc, ![i].auth = grants] PROVE Permits'
    BY <1>n, <1>t, <2>1, <2>3 DEF CallStates, NoNewHolder, HasPlugin, HasGlobal
  <2> QED
    BY <1>e, <2>1, <2>2, <2>3
<1>8. ASSUME NEW i \in Callers, prepare_ready(i) PROVE Permits'
  <2>1. HasGlobal(i)
    BY <1>8 DEF prepare_ready, Step, HasGlobal
  <2>2. End(i) \/ \E pc : To(i, pc)
    BY <1>8 DEF prepare_ready
  <2> QED
    BY <1>e, <1>g, <2>1, <2>2
<1>9. ASSUME NEW i \in Callers, prepare_load(i) PROVE Permits'
  <2>1. HasGlobal(i)
    BY <1>9 DEF prepare_load, Step, HasGlobal
  <2>2. \E pc, code : inv' = [inv EXCEPT ![i].pc = pc, ![i].code = code]
    BY <1>9 DEF prepare_load
  <2>3. ASSUME \E pc, code : inv' = [inv EXCEPT ![i].pc = pc, ![i].code = code] PROVE Permits'
    BY <1>n, <1>t, <2>1, <2>3 DEF CallStates, NoNewHolder, HasPlugin, HasGlobal
  <2> QED
    BY <1>e, <2>1, <2>2, <2>3
<1>10. ASSUME NEW i \in Callers, prepare_fails(i) PROVE Permits'
  <2>1. HasGlobal(i)
    BY <1>10 DEF prepare_fails, Step, HasGlobal
  <2>2. End(i) \/ \E pc : To(i, pc)
    BY <1>10 DEF prepare_fails
  <2> QED
    BY <1>e, <1>g, <2>1, <2>2
<1>11. ASSUME NEW i \in Callers, claim_circuit_probe(i) PROVE Permits'
  <2>1. HasGlobal(i)
    BY <1>11 DEF claim_circuit_probe, Step, HasGlobal
  <2>2. End(i) \/ \E pc : To(i, pc)
    BY <1>11 DEF claim_circuit_probe
  <2> QED
    BY <1>e, <1>g, <2>1, <2>2
<1>12. ASSUME NEW i \in Callers, claim_read(i) PROVE Permits'
  <2>1. HasGlobal(i)
    BY <1>12 DEF claim_read, Step, HasGlobal
  <2>2. End(i) \/ \E pc : To(i, pc)
    BY <1>12 DEF claim_read
  <2> QED
    BY <1>e, <1>g, <2>1, <2>2
<1>13. ASSUME NEW i \in Callers, host_storage_put(i) PROVE Permits'
  BY <1>13, <1>n DEF host_storage_put, NoNewHolder, HasPlugin, HasGlobal
<1>14. ASSUME NEW i \in Callers, host_storage_delete(i) PROVE Permits'
  BY <1>14, <1>n DEF host_storage_delete, NoNewHolder, HasPlugin, HasGlobal
<1>15. ASSUME NEW i \in Callers, returns(i) PROVE Permits'
  <2>1. HasGlobal(i)
    BY <1>15 DEF returns, Step, HasGlobal
  <2>2. End(i) \/ \E pc : To(i, pc)
    BY <1>15 DEF returns
  <2> QED
    BY <1>e, <1>g, <2>1, <2>2
<1>16. ASSUME NEW i \in Callers, store_facts(i) PROVE Permits'
  <2>1. HasGlobal(i)
    BY <1>16 DEF store_facts, Step, HasGlobal
  <2>2. End(i) \/ \E pc : To(i, pc)
    BY <1>16 DEF store_facts
  <2> QED
    BY <1>e, <1>g, <2>1, <2>2
<1>17. ASSUME NEW i \in Callers, settle_clear(i) PROVE Permits'
  <2>1. HasGlobal(i)
    BY <1>17 DEF settle_clear, Step, HasGlobal
  <2>2. End(i) \/ \E pc : To(i, pc)
    BY <1>17 DEF settle_clear
  <2> QED
    BY <1>e, <1>g, <2>1, <2>2
<1>18. ASSUME NEW i \in Callers, record_count(i) PROVE Permits'
  <2>1. HasGlobal(i)
    BY <1>18 DEF record_count, Step, HasGlobal
  <2>2. End(i) \/ \E pc : To(i, pc)
    BY <1>18 DEF record_count
  <2> QED
    BY <1>e, <1>g, <2>1, <2>2
<1>19. ASSUME NEW i \in Callers, record_tally(i) PROVE Permits'
  <2>1. HasGlobal(i)
    BY <1>19 DEF record_tally, Step, HasGlobal
  <2>2. End(i) \/ \E pc : To(i, pc)
    BY <1>19 DEF record_tally
  <2> QED
    BY <1>e, <1>g, <2>1, <2>2
<1>20. ASSUME NEW i \in Callers, record_trip(i) PROVE Permits'
  <2>1. HasGlobal(i)
    BY <1>20 DEF record_trip, Step, HasGlobal
  <2>2. End(i) \/ \E pc : To(i, pc)
    BY <1>20 DEF record_trip
  <2> QED
    BY <1>e, <1>g, <2>1, <2>2
<1>21. ASSUME NEW i \in Callers, settle_cancelled(i) PROVE Permits'
  <2>1. HasGlobal(i)
    BY <1>21 DEF settle_cancelled, Step, HasGlobal
  <2>2. End(i) \/ \E pc : To(i, pc)
    BY <1>21 DEF settle_cancelled
  <2> QED
    BY <1>e, <1>g, <2>1, <2>2
<1>22. ASSUME NEW i \in Callers, drop_call(i) PROVE Permits'
  BY <1>22, <1>n, <1>t DEF drop_call, End, NoCall, NoNewHolder, HasPlugin, HasGlobal
<1>23. CASE Restart
  BY <1>23, <1>n DEF Restart, NoCall, NoNewHolder, HasPlugin, HasGlobal
<1> QED
  BY CallSteps, <1>1, <1>2, <1>3, <1>4, <1>5, <1>6, <1>7, <1>8, <1>9, <1>10, <1>11, <1>12, <1>13, <1>14, <1>15, <1>16, <1>17, <1>18, <1>19, <1>20, <1>21, <1>22, <1>23

-----------------------------------------------------------------------------
\* The invariant holds at the start.
LEMMA InitIInv == Init => IInv
<1> SUFFICES ASSUME Init PROVE IInv
  OBVIOUS
<1> USE PluginAssumption
<1>1. LeftTypes /\ left.start \in Packages \cup {None}
  BY DEF Init, LeftTypes
<1>2. StoreInv
  <2>1. CASE left.start = None
    <3>1. row = NoRow /\ grants = {} /\ retained = {} /\ files = {}
      BY <2>1 DEF Init, NoRow
    <3>2. /\ circuit = [st |-> "none", fails |-> 0, due |-> FALSE]
          /\ cache = [sha |-> None, code |-> None] /\ registered = FALSE /\ sem = 0
      BY <2>1 DEF Init
    <3>3. registered \in BOOLEAN
      BY <3>2, Zenon
    <3>4. row \in [sha : Packages \cup {None}, enabled : BOOLEAN] /\ row.sha = None /\ ~row.enabled
      BY <3>1 DEF NoRow
    <3>5. circuit \in [st : {"none", "closed", "open", "half_open"}, fails : 0..Threshold, due : BOOLEAN]
      BY <3>2
    <3> QED
      BY <3>1, <3>2, <3>3, <3>4, <3>5 DEF StoreInv, RetainedIsReadable, Installed
  <2>2. CASE left.start \in Packages
    BY <2>2 DEF Init, StoreInv, RetainedIsReadable, Installed, NoRow, Grants
  <2> QED
    BY <1>1, <2>1, <2>2
<1>3. OpInv
  BY DEF Init, OpInv, OpStates, OpStages, OpKinds, NoOp, Named
<1>4. CallInv
  BY DEF Init, CallInv, CallStates, CallStages, CallKinds, NoCall, Preparing, RunningStages
<1>5. KvInv
  <2>1. DOMAIN kv = {}
    BY DEF Init
  <2> QED
    BY <2>1, FS_EmptySet DEF KvInv, SnapshotIsWhole, StorageWithinQuota
<1>6. Permits
  <2>1. \A g : Holders(g) = {}
    BY DEF Init, NoCall, Holders, HasPlugin
  <2>2. {i \in Callers : HasGlobal(i)} = {}
    BY DEF Init, NoCall, HasGlobal
  <2> QED
    <3>1. left.permits \in Nat
      BY <1>1 DEF LeftTypes
    <3>2. ASSUME NEW g PROVE Cardinality(Holders(g)) <= left.permits
      <4>1. Cardinality(Holders(g)) = 0
        BY <2>1, FS_EmptySet
      <4> QED
        BY <3>1, <4>1
    <3>3. Cardinality({i \in Callers : HasGlobal(i)}) <= Global
      BY <2>2, FS_EmptySet
    <3> QED
      BY <3>2, <3>3 DEF Permits
<1> QED
  BY <1>1, <1>2, <1>3, <1>4, <1>5, <1>6 DEF IInv

\* And it always holds.
LEMMA IInvHolds == Spec => []IInv
<1>1. IInv /\ [Next]_vars => IInv'
  BY StoreStep, OpStep, CallStep, KvStep, LeftStep, PermitsStep DEF IInv
<1> QED
  BY InitIInv, <1>1, PTL DEF Spec

\* It implies that the plugin is sound.
LEMMA IInvSuffices == IInv => PluginIsSound
<1> SUFFICES ASSUME IInv PROVE PluginIsSound
  OBVIOUS
<1>1. TypeOK
  <2>1. Range(kv) \subseteq SUBSET Facts
    BY DEF IInv, KvInv, Range
  <2>2. \A a \in Admins : op[a].sha \in Packages \cup {None} /\ op[a].keys \subseteq Settings
    BY DEF IInv, OpInv, OpStates
  <2>3. \A i \in Callers : inv[i].gen \in 0..sem
    BY DEF IInv, CallInv, CallStates
  <2>4. Installed \/ (grants = {} /\ DOMAIN kv = {})
    BY DEF IInv, StoreInv, KvInv, Installed, NoRow
  <2> QED
    BY <2>1, <2>2, <2>3, <2>4 DEF IInv, StoreInv, KvInv, TypeOK
<1>2. AuthorityMatchesCode
  BY DEF IInv, CallInv, AuthorityMatchesCode, Running, RunningStages
<1>3. PluginIsContained
  <2>1. ASSUME NEW g \in 0..sem
        PROVE  Cardinality({i \in Callers : HasGlobal(i) /\ inv[i].gen = g}) <= left.permits
    <3> DEFINE S == {i \in Callers : HasGlobal(i) /\ inv[i].gen = g}
    <3>1. S \subseteq Holders(g)
      BY DEF Holders, HasGlobal, HasPlugin
    <3> HIDE DEF S
    <3>2. Cardinality(S) <= Cardinality(Holders(g)) /\ Cardinality(S) \in Nat
      BY <3>1, HoldersAreFinite, FS_Subset, FS_CardinalityType
    <3>3. Cardinality(Holders(g)) <= left.permits /\ left.permits \in Nat
      BY DEF IInv, Permits, LeftTypes
    <3>4. Cardinality(S) <= left.permits
      BY <3>2, <3>3, HoldersAreFinite
    <3> QED
      BY <3>4 DEF S
  <2> QED
    BY <2>1 DEF IInv, Permits, PluginIsContained
<1> QED
  BY <1>1, <1>2, <1>3 DEF IInv, StoreInv, KvInv, PluginIsSound

\* In every state a plugin runs its own code with the grants that code declares, within
\* its permits and its quota, its facts are those of one refresh, and every version kept
\* for a rollback is on disk (PluginIsSound; manager.rs, the handlers of the manager and
\* the stages of a call).
THEOREM PluginAlwaysSound == Spec => []PluginIsSound
BY IInvHolds, IInvSuffices, PTL

\* A call begins to run, or goes back to run, only where the circuit let it.
LEMMA EntranceStep == IInv /\ [Next]_vars => [EntersNoProbe]_vars
<1> SUFFICES ASSUME IInv, [Next]_vars, NEW i \in Callers,
                    ~Running(i), Running(i)', inv[i].kind # "discover"
             PROVE  circuit.st # "half_open"
  BY DEF EntersNoProbe
<1>t. inv \in [Callers -> CallStates(0..sem)]
  BY DEF IInv, CallInv
\* another call's step is not this call's, and one that ends or stays is not admitted
<1>e. ASSUME NEW j \in Callers, End(j) PROVE FALSE
  BY <1>t, <1>e DEF End, NoCall, Running
<1>g. ASSUME NEW j \in Callers, NEW pc, To(j, pc), j = i => ~(pc \in RunningStages) PROVE FALSE
  BY <1>t, <1>g DEF To, CallStates, Running, RunningStages
<1>r. ASSUME NEW j \in Callers, NEW pc, To(j, pc), Running(j) PROVE FALSE
  BY <1>t, <1>r DEF To, CallStates, Running
<1>1. CASE UNCHANGED <<inv, sem>>
  BY <1>1 DEF Running
<1>2. ASSUME NEW a \in Admins, remove_rest(a) PROVE FALSE
  BY <1>2 DEF remove_rest, At, Running
<1>3. ASSUME NEW j \in Callers, NEW kind \in CallKinds, Invoke(j, kind) PROVE FALSE
  BY <1>3, <1>t DEF Invoke, NoCall, Running
<1>4. ASSUME NEW j \in Callers, acquire_plugin(j) PROVE FALSE
  BY <1>4, <1>g DEF acquire_plugin, RunningStages
<1>5. ASSUME NEW j \in Callers, acquire_global(j) PROVE FALSE
  BY <1>5, <1>g DEF acquire_global, RunningStages
<1>6. ASSUME NEW j \in Callers, prepare_row(j) PROVE FALSE
  <2>1. CASE End(j)
    BY <2>1, <1>e
  <2>2. CASE inv' = [inv EXCEPT ![j].pc = "grants", ![j].sha = row.sha]
    BY <2>2, <1>t DEF CallStates, Running
  <2> QED
    BY <1>6, <2>1, <2>2 DEF prepare_row
<1>7. ASSUME NEW j \in Callers, prepare_grants(j) PROVE FALSE
  <2>1. CASE End(j)
    BY <2>1, <1>e
  <2>2. CASE \E pc \in {"load", "ready"} : inv' = [inv EXCEPT ![j].pc = pc, ![j].auth = grants]
    BY <2>2, <1>t DEF CallStates, Running
  <2> QED
    BY <1>7, <2>1, <2>2 DEF prepare_grants
<1>8. ASSUME NEW j \in Callers, prepare_ready(j) PROVE FALSE
  BY <1>8, <1>e, <1>g DEF prepare_ready, RunningStages
<1>9. ASSUME NEW j \in Callers, prepare_load(j) PROVE FALSE
  <2>1. CASE inv[j].kind = "discover"
    BY <1>9, <2>1, <1>t DEF prepare_load, CallStates, Running
  <2>2. CASE inv[j].kind # "discover"
    <3>1. \E code : inv' = [inv EXCEPT ![j].pc = "claim", ![j].code = code]
      BY <1>9, <2>2 DEF prepare_load
    <3> QED
      BY <3>1, <1>t DEF CallStates, Running
  <2> QED
    BY <2>1, <2>2
<1>10. ASSUME NEW j \in Callers, prepare_fails(j) PROVE FALSE
  BY <1>10, <1>e DEF prepare_fails
<1>11. ASSUME NEW j \in Callers, claim_circuit_probe(j) PROVE circuit.st # "half_open"
  BY <1>11, <1>g DEF claim_circuit_probe, RunningStages
<1>12. ASSUME NEW j \in Callers, claim_read(j) PROVE circuit.st # "half_open"
  BY <1>12, <1>e DEF claim_read
<1>13. ASSUME NEW j \in Callers, host_storage_put(j) PROVE FALSE
  BY <1>13 DEF host_storage_put, Running
<1>14. ASSUME NEW j \in Callers, host_storage_delete(j) PROVE FALSE
  BY <1>14 DEF host_storage_delete, Running
<1>15. ASSUME NEW j \in Callers, returns(j) PROVE FALSE
  <2>1. Running(j) /\ (End(j) \/ \E pc : To(j, pc))
    BY <1>15 DEF returns, Step, Running
  <2> QED
    BY <2>1, <1>e, <1>r
<1>16. ASSUME NEW j \in Callers, store_facts(j) PROVE FALSE
  <2>1. Running(j) /\ (End(j) \/ \E pc : To(j, pc))
    BY <1>16 DEF store_facts, Step, Running
  <2> QED
    BY <2>1, <1>e, <1>r
<1>17. ASSUME NEW j \in Callers, settle_clear(j) PROVE FALSE
  BY <1>17, <1>e DEF settle_clear
<1>18. ASSUME NEW j \in Callers, record_count(j) PROVE FALSE
  <2>1. Running(j) /\ (End(j) \/ \E pc : To(j, pc))
    BY <1>18 DEF record_count, Step, Running
  <2> QED
    BY <2>1, <1>e, <1>r
<1>19. ASSUME NEW j \in Callers, record_tally(j) PROVE FALSE
  <2>1. Running(j) /\ (End(j) \/ \E pc : To(j, pc))
    BY <1>19 DEF record_tally, Step, Running
  <2> QED
    BY <2>1, <1>e, <1>r
<1>20. ASSUME NEW j \in Callers, record_trip(j) PROVE FALSE
  BY <1>20, <1>e DEF record_trip
<1>21. ASSUME NEW j \in Callers, settle_cancelled(j) PROVE FALSE
  BY <1>21, <1>e DEF settle_cancelled
<1>22. ASSUME NEW j \in Callers, drop_call(j) PROVE FALSE
  BY <1>22, <1>e DEF drop_call
<1>23. CASE Restart
  BY <1>23 DEF Restart, NoCall, Running
<1> QED
  BY CallSteps, <1>1, <1>2, <1>3, <1>4, <1>5, <1>6, <1>7, <1>8, <1>9, <1>10, <1>11, <1>12, <1>13,
     <1>14, <1>15, <1>16, <1>17, <1>18, <1>19, <1>20, <1>21, <1>22, <1>23

\* No call but the probe begins to run while the circuit is half open (ProbeIsAlone;
\* manager.rs, claim_circuit_probe).
THEOREM ProbeAlwaysAlone == Spec => ProbeIsAlone
BY IInvHolds, EntranceStep, PTL DEF Spec, ProbeIsAlone

-----------------------------------------------------------------------------
(* The live view. *)

\* A handler that has put its request in the order, and one that is about to.
Finals == {"runs", "trim", "gone"}
Pushers == {r \in Calls : caller[r] = "push"}

\* What came is what was evicted and, behind it, what is in the order, each request once.
OrderInv ==
  /\ pushed \in Seq(Calls) /\ arrivals \in Seq(Calls) /\ evicted \in Nat
  /\ \A i, j \in 1..Len(pushed) : pushed[i] = pushed[j] => i = j
  /\ Len(pushed) = evicted + Len(arrivals)
  /\ \A i \in 1..Len(arrivals) : arrivals[i] = pushed[evicted + i]
  /\ Len(arrivals) <= MaxLive
  /\ evicted # 0 => Len(arrivals) = MaxLive

\* A handler that has put its request in the order does not do it again.
CallerInv ==
  /\ caller \in [Calls -> {"new", "push"} \cup Finals]
  /\ \A i \in 1..Len(pushed) : caller[pushed[i]] \in Finals

\* There is an entry for what is in the order and what is about to be.
EntryInv ==
  /\ DOMAIN entries = {arrivals[i] : i \in 1..Len(arrivals)} \cup Pushers
  /\ \A r \in DOMAIN entries : entries[r] \in ToSet(Phases)

\* The inductive invariant.
ViewInv == OrderInv /\ CallerInv /\ EntryInv

\* The phases of a request.
LEMMA PhaseNames == ToSet(Phases) = {"selecting", "streaming", "committed", "done"}
BY DEF ToSet, Phases

\* The view is empty at the start.
LEMMA ViewInit == LiveInit => ViewInv
BY LiveBounds DEF LiveInit, ViewInv, OrderInv, CallerInv, EntryInv, Finals, Pushers

\* A step that changes neither the order nor who is about to be put in it.
LEMMA ViewKept ==
  ASSUME ViewInv, UNCHANGED <<arrivals, evicted, pushed>>,
         caller' \in [Calls -> {"new", "push"} \cup Finals],
         \A r \in Calls : caller[r] \in Finals <=> caller'[r] \in Finals,
         \A r \in Calls : caller[r] = "push" <=> caller'[r] = "push",
         DOMAIN entries' = DOMAIN entries,
         \A r \in DOMAIN entries : entries'[r] \in ToSet(Phases)
  PROVE  ViewInv'
<1>1. OrderInv'
  BY DEF ViewInv, OrderInv
<1>2. CallerInv'
  BY DEF ViewInv, OrderInv, CallerInv
<1>3. Pushers' = Pushers
  BY DEF Pushers
<1>4. EntryInv'
  BY <1>3 DEF ViewInv, EntryInv
<1> QED
  BY <1>1, <1>2, <1>4 DEF ViewInv

\* An entry that is about to be put in the order.
LEMMA ViewInsert ==
  ASSUME ViewInv, NEW r \in Calls, LiveInsert(r)
  PROVE  ViewInv'
<1>1. /\ caller[r] = "new" /\ caller' = [caller EXCEPT ![r] = "push"]
      /\ entries' = [q \in DOMAIN entries \cup {r} |-> IF q = r THEN "selecting" ELSE entries[q]]
      /\ UNCHANGED <<arrivals, evicted, pushed>>
  BY DEF LiveInsert, Goes_
<1>2. OrderInv'
  BY <1>1 DEF ViewInv, OrderInv
<1>3. CallerInv'
  BY <1>1 DEF ViewInv, OrderInv, CallerInv, Finals
<1>4. Pushers' = Pushers \cup {r}
  BY <1>1 DEF ViewInv, CallerInv, Pushers
<1>5. EntryInv'
  BY <1>1, <1>4, PhaseNames DEF ViewInv, EntryInv
<1> QED
  BY <1>2, <1>3, <1>5 DEF ViewInv

\* The order after a request was put in it: what is over the limit is its oldest, whose
\* handler has put it there, so that the entry that goes with it is nobody's still to come.
LEMMA ViewPush ==
  ASSUME ViewInv, NEW r \in Calls, LivePush(r)
  PROVE  ViewInv'
<1> DEFINE all == Append(arrivals, r)
<1>0. /\ pushed \in Seq(Calls) /\ arrivals \in Seq(Calls) /\ evicted \in Nat /\ MaxLive \in Nat \ {0}
      /\ Len(pushed) \in Nat /\ Len(arrivals) \in Nat
  BY LiveBounds DEF ViewInv, OrderInv
<1>1. caller[r] = "push" /\ caller' = [caller EXCEPT ![r] = "runs"] /\ pushed' = Append(pushed, r)
  BY DEF LivePush, Goes_
<1>2. \A i \in 1..Len(pushed) : pushed[i] # r
  BY <1>1 DEF ViewInv, CallerInv, Finals
<1>3. /\ all \in Seq(Calls) /\ Len(all) = Len(arrivals) + 1 /\ all[Len(all)] = r
      /\ \A i \in 1..Len(arrivals) : all[i] = arrivals[i]
  BY <1>0
<1>4. /\ pushed' \in Seq(Calls) /\ Len(pushed') = Len(pushed) + 1 /\ pushed'[Len(pushed')] = r
      /\ \A i \in 1..Len(pushed) : pushed'[i] = pushed[i]
  BY <1>0, <1>1
<1> HIDE DEF all
<1>5. \A i, j \in 1..Len(pushed') : pushed'[i] = pushed'[j] => i = j
  <2>1. \A i, j \in 1..Len(pushed) : pushed[i] = pushed[j] => i = j
    BY DEF ViewInv, OrderInv
  <2>2. \A i \in 1..Len(pushed') : i \in 1..Len(pushed) \/ i = Len(pushed')
    BY <1>0, <1>4
  <2> QED
    BY <1>2, <1>4, <2>1, <2>2
<1>6. \A i \in 1..Len(all) : all[i] = pushed'[evicted + i]
  <2>1. /\ \A i \in 1..Len(arrivals) : arrivals[i] = pushed[evicted + i]
        /\ Len(pushed) = evicted + Len(arrivals)
    BY DEF ViewInv, OrderInv
  <2>2. ASSUME NEW i \in 1..Len(arrivals) PROVE all[i] = pushed'[evicted + i]
    <3>1. evicted + i \in 1..Len(pushed)
      BY <1>0, <2>1
    <3> QED
      BY <1>3, <1>4, <2>1, <3>1
  <2>3. all[Len(all)] = pushed'[evicted + Len(all)]
    BY <1>0, <1>3, <1>4, <2>1
  <2>4. \A i \in 1..Len(all) : i \in 1..Len(arrivals) \/ i = Len(all)
    BY <1>0, <1>3
  <2> QED
    BY <2>2, <2>3, <2>4
<1>7. Pushers' = Pushers \ {r} /\ r \in Pushers
  BY <1>1 DEF ViewInv, CallerInv, Pushers
<1>8. CallerInv'
  BY <1>0, <1>1, <1>4 DEF ViewInv, CallerInv, Finals
<1>9. {all[i] : i \in 1..Len(all)} = {arrivals[i] : i \in 1..Len(arrivals)} \cup {r}
  BY <1>0, <1>3
<1>10. DOMAIN entries = {all[i] : i \in 1..Len(all)} \cup Pushers'
  BY <1>7, <1>9 DEF ViewInv, EntryInv
<1>11. CASE Len(all) <= MaxLive
  <2>1. arrivals' = all /\ entries' = entries /\ evicted' = evicted
    BY <1>0, <1>3, <1>11 DEF LivePush, all
  <2>2. OrderInv'
    BY <1>0, <1>3, <1>4, <1>5, <1>6, <1>11, <2>1 DEF ViewInv, OrderInv
  <2>3. EntryInv'
    BY <1>10, <2>1 DEF ViewInv, EntryInv
  <2> QED
    BY <1>8, <2>2, <2>3 DEF ViewInv
<1>12. CASE Len(all) > MaxLive
  <2>1. /\ arrivals' = Tail(all) /\ entries' = Without(Head(all))
        /\ evicted' = IF Head(all) \in DOMAIN entries THEN evicted + 1 ELSE evicted
    BY <1>12 DEF LivePush, Popped, all
  <2>2. Head(all) = all[1] /\ Len(Tail(all)) = Len(all) - 1 /\ Tail(all) \in Seq(Calls)
        /\ \A i \in 1..Len(all) - 1 : Tail(all)[i] = all[i + 1]
    BY <1>0, <1>3
  <2>3. Len(all) = MaxLive + 1 /\ Len(arrivals) = MaxLive
    BY <1>0, <1>3, <1>12 DEF ViewInv, OrderInv
  <2>4. evicted' = evicted + 1
    BY <1>0, <1>3, <1>10, <2>1, <2>2, <2>3
  <2>5. \A i \in 1..Len(arrivals') : arrivals'[i] = pushed'[evicted' + i]
    BY <1>0, <1>3, <1>6, <2>1, <2>2, <2>3, <2>4
  <2>6. OrderInv'
    <3>1. Len(arrivals') = MaxLive /\ arrivals' \in Seq(Calls) /\ evicted' \in Nat
      BY <1>0, <2>1, <2>2, <2>3, <2>4
    <3>2. Len(pushed') = evicted' + Len(arrivals')
      BY <1>0, <1>4, <2>3, <2>4, <3>1 DEF ViewInv, OrderInv
    <3>3. Len(arrivals') <= MaxLive
      BY <1>0, <3>1
    <3> QED
      BY <1>4, <1>5, <2>5, <3>1, <3>2, <3>3 DEF OrderInv
  <2>7. \A i, j \in 1..Len(all) : all[i] = all[j] => i = j
    <3>1. \A i \in 1..Len(all) : evicted + i \in 1..Len(pushed')
      BY <1>0, <1>3, <1>4 DEF ViewInv, OrderInv
    <3>2. ASSUME NEW i \in 1..Len(all), NEW j \in 1..Len(all), all[i] = all[j] PROVE i = j
      <4>1. pushed'[evicted + i] = pushed'[evicted + j]
        BY <1>6, <3>2
      <4>2. evicted + i = evicted + j
        BY <1>5, <3>1, <4>1
      <4> QED BY <1>0, <1>3, <4>2
    <3> QED BY <3>2
  <2>8. {arrivals'[i] : i \in 1..Len(arrivals')} = {all[i] : i \in 1..Len(all)} \ {all[1]}
    <3>1. \A i \in 1..Len(arrivals') : arrivals'[i] = all[i + 1] /\ i + 1 \in 1..Len(all) /\ i + 1 # 1
      BY <1>0, <2>1, <2>2, <2>3
    <3>2. \A j \in 1..Len(all) : j # 1 => j - 1 \in 1..Len(arrivals') /\ arrivals'[j - 1] = all[j]
      BY <1>0, <2>1, <2>2, <2>3
    <3>3. 1 \in 1..Len(all)
      BY <1>0, <2>3
    <3>4. ASSUME NEW i \in 1..Len(arrivals') PROVE arrivals'[i] \in {all[j] : j \in 1..Len(all)} \ {all[1]}
      BY <2>7, <3>1, <3>3
    <3>5. ASSUME NEW j \in 1..Len(all), all[j] # all[1]
          PROVE  all[j] \in {arrivals'[i] : i \in 1..Len(arrivals')}
      BY <3>2, <3>5
    <3> QED
      BY <3>4, <3>5
  <2>9. all[1] \notin Pushers'
    <3>1. all[1] = pushed'[evicted + 1] /\ evicted + 1 \in 1..Len(pushed')
      BY <1>0, <1>3, <1>4, <1>6, <2>3 DEF ViewInv, OrderInv
    <3>2. caller'[all[1]] \in Finals
      BY <1>8, <3>1 DEF CallerInv
    <3> QED
      BY <3>2 DEF Pushers, Finals
  <2>10. DOMAIN entries' = DOMAIN entries \ {all[1]} /\ \A q \in DOMAIN entries' : entries'[q] = entries[q]
    BY <2>1, <2>2 DEF Without
  <2>11. EntryInv'
    BY <1>10, <2>8, <2>9, <2>10 DEF ViewInv, EntryInv
  <2> QED
    BY <1>8, <2>6, <2>11 DEF ViewInv
<1> QED
  BY <1>0, <1>3, <1>11, <1>12

\* No step breaks the invariant; the tail that finish would cut is never there, for the
\* order is within the limit.
LEMMA ViewStep == ViewInv /\ [LiveNext]_liveVars => ViewInv'
<1> SUFFICES ASSUME ViewInv, [LiveNext]_liveVars PROVE ViewInv'
  OBVIOUS
<1>0. /\ caller \in [Calls -> {"new", "push"} \cup Finals]
      /\ \A r \in DOMAIN entries : entries[r] \in ToSet(Phases)
  BY DEF ViewInv, CallerInv, EntryInv
<1>1. CASE UNCHANGED liveVars
  BY <1>0, <1>1, ViewKept DEF liveVars
<1>u. ASSUME NEW r \in Calls, NEW phase \in ToSet(Phases), Update(r, phase)
      PROVE  /\ DOMAIN entries' = DOMAIN entries
             /\ \A q \in DOMAIN entries : entries'[q] \in ToSet(Phases)
  BY <1>0, <1>u DEF Update
<1>2. ASSUME NEW r \in Calls, MarkCommitted(r) PROVE ViewInv'
  BY <1>0, <1>2, <1>u, PhaseNames, ViewKept DEF MarkCommitted, Update
<1>3. ASSUME NEW r \in Calls, MarkStreaming(r) PROVE ViewInv'
  <2>1. /\ DOMAIN entries' = DOMAIN entries
        /\ \A q \in DOMAIN entries : entries'[q] \in ToSet(Phases)
    BY <1>0, <1>3, PhaseNames DEF MarkStreaming, Update, StreamingPhase
  <2> QED
    BY <1>0, <1>3, <2>1, ViewKept DEF MarkStreaming, Update
<1>4. ASSUME NEW r \in Calls, LiveFinish(r) PROVE ViewInv'
  <2>1. caller[r] = "runs" /\ caller' = [caller EXCEPT ![r] = "trim"] /\ Update(r, "done")
    BY <1>4 DEF LiveFinish, Goes_
  <2>2. UNCHANGED <<arrivals, evicted, pushed>>
    BY <2>1 DEF Update
  <2> QED
    BY <1>0, <2>1, <2>2, <1>u, PhaseNames, ViewKept DEF Finals
<1>5. ASSUME NEW r \in Calls, LiveTrim(r) PROVE ViewInv'
  <2>1. ~(Len(arrivals) > MaxLive + FinishedTail)
    BY LiveBounds DEF ViewInv, OrderInv
  <2>2. /\ caller[r] = "trim" /\ caller' = [caller EXCEPT ![r] = "gone"]
        /\ UNCHANGED <<arrivals, entries, evicted, pushed>>
    BY <1>5, <2>1 DEF LiveTrim, Goes_
  <2> QED
    BY <1>0, <2>2, ViewKept DEF Finals
<1>6. ASSUME NEW r \in Calls, LiveAbandon(r) PROVE ViewInv'
  <2>1. /\ caller[r] = "runs" /\ caller' = [caller EXCEPT ![r] = "gone"]
        /\ UNCHANGED <<arrivals, entries, evicted, pushed>>
    BY <1>6 DEF LiveAbandon, Goes_
  <2> QED
    BY <1>0, <2>1, ViewKept DEF Finals
<1> QED
  BY <1>1, <1>2, <1>3, <1>4, <1>5, <1>6, ViewInsert, ViewPush DEF LiveNext

\* As many requests as there are cannot be put in the order twice.
LEMMA PushedAreBounded == ViewInv => Len(pushed) <= MaxStarted
<1> SUFFICES ASSUME ViewInv PROVE Len(pushed) <= MaxStarted
  OBVIOUS
<1>1. pushed \in Seq(Calls) /\ Len(pushed) \in Nat /\ MaxStarted \in Nat
  BY LiveBounds DEF ViewInv, OrderInv
<1>2. pushed \in [1..Len(pushed) -> Calls]
  BY <1>1
<1>3. pushed \in Injection(1..Len(pushed), Calls)
  BY <1>2 DEF Injection, IsInjective, ViewInv, OrderInv
<1>4. IsFiniteSet(1..MaxStarted) /\ Cardinality(1..MaxStarted) = MaxStarted
  <2>1. 1 \in Int /\ MaxStarted \in Int
    BY <1>1
  <2>2. Cardinality(1..MaxStarted) = IF 1 > MaxStarted THEN 0 ELSE MaxStarted - 1 + 1
    BY <2>1, FS_Interval
  <2> QED
    BY <1>1, <2>1, <2>2, FS_Interval
<1>5. Cardinality(1..Len(pushed)) = Len(pushed)
  <2>1. 1 \in Int /\ Len(pushed) \in Int
    BY <1>1
  <2>2. Cardinality(1..Len(pushed)) = IF 1 > Len(pushed) THEN 0 ELSE Len(pushed) - 1 + 1
    BY <2>1, FS_Interval
  <2> QED
    BY <1>1, <2>2
<1>6. Cardinality(1..Len(pushed)) <= Cardinality(Calls)
  BY <1>3, <1>4, FS_Injection DEF Calls
<1> QED
  BY <1>4, <1>5, <1>6 DEF Calls

\* The invariant implies that the view is true: what is missing from it was evicted.
LEMMA ViewSuffices == ViewInv => ViewIsTrue
<1> SUFFICES ASSUME ViewInv PROVE ViewIsTrue
  OBVIOUS
<1>1. /\ pushed \in Seq(Calls) /\ arrivals \in Seq(Calls) /\ evicted \in Nat /\ MaxLive \in Nat
      /\ Len(pushed) \in Nat /\ Len(arrivals) \in Nat /\ Len(pushed) = evicted + Len(arrivals)
      /\ \A i \in 1..Len(arrivals) : arrivals[i] = pushed[evicted + i]
      /\ Len(arrivals) <= MaxLive /\ MaxStarted \in Nat
  BY LiveBounds DEF ViewInv, OrderInv
<1>2. LiveTypeOK
  BY <1>1, PushedAreBounded DEF ViewInv, EntryInv, LiveTypeOK, ToSet, Pushers
<1>3. ASSUME NEW i \in DOMAIN pushed, pushed[i] \notin DOMAIN entries PROVE Len(pushed) - i >= MaxLive
  <2>1. i \in 1..Len(pushed)
    BY <1>1
  <2>2. i <= evicted
    <3>1. SUFFICES ASSUME i > evicted PROVE FALSE
      BY <1>1, <2>1
    <3>2. i - evicted \in 1..Len(arrivals) /\ arrivals[i - evicted] = pushed[i]
      BY <1>1, <2>1, <3>1
    <3> QED
      BY <1>3, <3>2 DEF ViewInv, EntryInv
  <2> QED
    BY <1>1, <2>1, <2>2 DEF ViewInv, OrderInv
<1> QED
  BY <1>1, <1>2, <1>3 DEF OnlyOldestMissing, ViewIsTrue

\* The map and the order agree, and a request is missing from the view only if as many as
\* it holds came after it, each counted as dropped (ViewIsTrue; live.rs, start).
THEOREM ViewAlwaysTrue == LiveSpec => []ViewIsTrue
BY ViewInit, ViewStep, ViewSuffices, PTL DEF LiveSpec

-----------------------------------------------------------------------------
(* The usage log and the alerts. *)

\* The rows that the counters do not show: of the worker, one that it has counted down.
Uncounted == IF worker.at = "insert" THEN 1 ELSE 0

\* The two counters and the rows are of one number, modulo the width of the depth.
SameDepth(a, b) == \E q \in Int : a = b + q * Depths
Channel == Len(waiting)
Batch == Len(worker.batch)
Table == Len(logged)
DepthInv == SameDepth(depth + sending, Channel + Batch - Uncounted)

\* The channel, the batch and the table; every row is at one of them or dropped.
WorkerInv ==
  /\ DOMAIN worker = {"at", "batch"} /\ worker.at \in {"recv", "drain", "row", "insert"}
  /\ worker.batch \in Seq(LogRows) /\ Len(worker.batch) <= BatchSize
  /\ (worker.at = "recv") <=> (worker.batch = << >>)
RowsInv ==
  /\ events \in 0..MaxEvents /\ ended \in 0..events
  /\ waiting \in Seq(LogRows) /\ Len(waiting) <= Capacity
  /\ sending \in Nat /\ dropped \in Nat /\ depth \in 0..(Depths - 1)
  /\ logged \in Seq(LogRows) /\ month \in 0..Len(logged)
  /\ RowsAreAccounted
QueueInv == WorkerInv /\ RowsInv /\ DepthInv

\* A number and its wrapped form are the same depth.
LEMMA WrappedIsSame ==
  ASSUME NEW n \in Int
  PROVE  Wrapped(n) \in 0..(Depths - 1) /\ SameDepth(n, Wrapped(n))
<1>1. Wrapped(n) \in 0..(Depths - 1)
  BY AlertBounds DEF Wrapped
<1>2. n = (n % Depths) + (n \div Depths) * Depths /\ n \div Depths \in Int
  BY AlertBounds
<1> QED BY <1>1, <1>2 DEF SameDepth, Wrapped

\* The same depths wrap to the same number.
LEMMA SameWraps ==
  ASSUME NEW a \in Int, NEW b \in Int, SameDepth(a, b)
  PROVE  Wrapped(a) = Wrapped(b)
<1>1. PICK q \in Int : a = b + q * Depths
  BY DEF SameDepth
<1>2. PICK r \in Int : b = Wrapped(b) + r * Depths
  BY WrappedIsSame DEF SameDepth
<1>3. Wrapped(b) \in 0..(Depths - 1)
  BY WrappedIsSame
<1>4. a = Wrapped(b) + (r + q) * Depths
  <2>1. (r + q) * Depths = r * Depths + q * Depths
    BY AlertBounds
  <2> QED BY <1>1, <1>2, <1>3, <2>1, AlertBounds
<1>5. (Wrapped(b) + (r + q) * Depths) % Depths = Wrapped(b)
  <2> DEFINE w == Wrapped(b)
             n == r + q
  <2>1. w \in 0..(Depths - 1) /\ n \in Int
    BY <1>3
  <2> HIDE DEF w, n
  <2>2. (w + n * Depths) % Depths = w
    BY <2>1, AlertBounds
  <2> QED BY <2>2 DEF w, n
<1> QED BY <1>4, <1>5 DEF Wrapped

\* Depths that are the same stay so when both move.
LEMMA SameMoves ==
  ASSUME NEW a \in Int, NEW b \in Int, NEW n \in Int, SameDepth(a, b)
  PROVE  SameDepth(a + n, b + n)
<1>1. PICK q \in Int : a = b + q * Depths
  BY DEF SameDepth
<1>2. q * Depths \in Int
  BY AlertBounds
<1>3. a + n = (b + n) + q * Depths
  <2> DEFINE p == q * Depths
  <2>1. p \in Int /\ a = b + p
    BY <1>1, <1>2
  <2> HIDE DEF p
  <2>2. a + n = (b + n) + p
    BY <2>1
  <2> QED BY <2>2 DEF p
<1> QED BY <1>3 DEF SameDepth

\* Wrapping one of them changes nothing.
LEMMA SameThroughWrap ==
  ASSUME NEW a \in Int, NEW b \in Int, NEW n \in Int, SameDepth(a + n, b)
  PROVE  SameDepth(Wrapped(a) + n, b)
<1>1. PICK q \in Int : a + n = b + q * Depths
  BY DEF SameDepth
<1>2. PICK r \in Int : a = Wrapped(a) + r * Depths
  BY WrappedIsSame DEF SameDepth
<1>3. Wrapped(a) \in Int
  BY WrappedIsSame, AlertBounds
<1>4. q * Depths \in Int /\ r * Depths \in Int /\ (q - r) * Depths = q * Depths - r * Depths
  BY AlertBounds
<1>5. Wrapped(a) + n = b + (q - r) * Depths
  <2> DEFINE p == q * Depths
             s == r * Depths
             w == Wrapped(a)
  <2>1. /\ p \in Int /\ s \in Int /\ w \in Int
        /\ a + n = b + p /\ a = w + s /\ (q - r) * Depths = p - s
    BY <1>1, <1>2, <1>3, <1>4
  <2> HIDE DEF p, s, w
  <2>2. w + n = b + (p - s)
    BY <2>1
  <2> QED BY <2>1, <2>2 DEF w
<1>6. q - r \in Int
  OBVIOUS
<1> QED BY <1>5, <1>6 DEF SameDepth

\* The head of a row and what is left of it.
LEMMA RowsMove ==
  ASSUME NEW rows_ \in Seq(LogRows), rows_ # << >>
  PROVE  /\ Head(rows_) \in LogRows /\ Tail(rows_) \in Seq(LogRows)
         /\ Len(Tail(rows_)) = Len(rows_) - 1 /\ Len(rows_) \in Nat \ {0}
BY HeadTailProperties, EmptySeq, LenProperties

\* What is counted are numbers.
QueueNumbers ==
  /\ depth \in Int /\ sending \in Nat /\ Uncounted \in Int
  /\ Channel \in Nat /\ Batch \in Nat /\ Table \in Nat
  /\ dropped \in Nat /\ ended \in Nat /\ events \in Nat
  /\ ended = Channel + Batch + Table + dropped /\ ended <= events
\* The counts that the arithmetic about the queue needs to be numbers.
LEMMA NumbersHold == QueueInv => QueueNumbers
<1> SUFFICES ASSUME QueueInv PROVE QueueNumbers
  OBVIOUS
<1>1. Channel \in Nat /\ Batch \in Nat /\ Table \in Nat
  BY LenProperties DEF QueueInv, RowsInv, WorkerInv, Channel, Batch, Table
<1>2. depth \in Int /\ sending \in Nat /\ Uncounted \in Int
  BY AlertBounds DEF QueueInv, RowsInv, Uncounted
<1>3. ended = Channel + Batch + Table + dropped
  BY DEF QueueInv, RowsInv, RowsAreAccounted, Channel, Batch, Table
<1>4. dropped \in Nat /\ ended \in Nat /\ events \in Nat /\ ended <= events
  BY AlertBounds DEF QueueInv, RowsInv
<1> QED BY <1>1, <1>2, <1>3, <1>4 DEF QueueNumbers

\* The rows add up.
LEMMA SumIsAccounted == RowsAreAccounted <=> ended = Channel + Batch + Table + dropped
BY DEF RowsAreAccounted, Channel, Batch, Table
\* The count of the rows, said of the state after a step.
LEMMA SumIsAccountedNext == RowsAreAccounted' <=> ended' = Channel' + Batch' + Table' + dropped'
BY DEF RowsAreAccounted, Channel, Batch, Table

\* The depth moves with the rows.
LEMMA DepthMoves ==
  ASSUME NEW n \in Int, DepthInv, QueueNumbers, QueueNumbers',
         depth' + sending' = depth + sending + n,
         Channel' + Batch' - Uncounted' = Channel + Batch - Uncounted + n
  PROVE  DepthInv'
<1>1. depth + sending \in Int /\ Channel + Batch - Uncounted \in Int
  BY DEF QueueNumbers
<1>2. SameDepth(depth + sending + n, Channel + Batch - Uncounted + n)
  BY <1>1, SameMoves DEF DepthInv
<1> QED BY <1>2 DEF DepthInv, SameDepth

\* A request's row is sent, or dropped when the channel is full.
LEMMA EnqueueKeeps ==
  ASSUME QueueInv, NEW r \in LogRows, Enqueue(r)
  PROVE  QueueInv'
<1>n. QueueNumbers
  BY NumbersHold
<1>1. WorkerInv'
  BY DEF QueueInv, WorkerInv, Enqueue
<1>2. /\ events' = events + 1 /\ events < MaxEvents /\ ended' = ended + 1
      /\ depth' = depth /\ worker' = worker /\ logged' = logged /\ month' = month
  BY DEF Enqueue, RequestEnds, Occurs, sourceVars
<1>3. Uncounted' = Uncounted /\ Batch' = Batch /\ Table' = Table
  BY <1>2 DEF Uncounted, Batch, Table
<1>4. events' \in 0..MaxEvents /\ ended' \in 0..events'
  BY <1>2, <1>n, AlertBounds DEF QueueNumbers
<1>5. /\ sending' \in Nat /\ dropped' \in Nat /\ Channel' = Len(waiting') /\ waiting' \in Seq(LogRows)
      /\ Channel' <= Capacity
      /\ \/ Channel' = Channel + 1 /\ dropped' = dropped /\ sending' = sending + 1
         \/ Channel' = Channel /\ dropped' = dropped + 1 /\ sending' = sending
  <2>1. CASE Len(waiting) < Capacity
    <3>1. waiting' = Append(waiting, r) /\ sending' = sending + 1 /\ dropped' = dropped
      BY <2>1 DEF Enqueue
    <3>2. waiting' \in Seq(LogRows) /\ Len(waiting') = Len(waiting) + 1
      BY <3>1, AppendProperties DEF QueueInv, RowsInv
    <3>3. Channel' = Len(waiting') /\ Channel' = Channel + 1 /\ Channel < Capacity
      BY <2>1, <3>2 DEF Channel
    <3>4. Channel' <= Capacity /\ sending' \in Nat /\ dropped' \in Nat
      BY <1>n, <3>1, <3>3, AlertBounds DEF QueueNumbers
    <3> QED BY <3>1, <3>2, <3>3, <3>4
  <2>2. CASE ~(Len(waiting) < Capacity)
    <3>1. waiting' = waiting /\ sending' = sending /\ dropped' = dropped + 1
      BY <2>2 DEF Enqueue
    <3>2. waiting' \in Seq(LogRows) /\ Channel' = Channel /\ Channel' = Len(waiting') /\ Channel' <= Capacity
      BY <3>1 DEF QueueInv, RowsInv, Channel
    <3> QED BY <1>n, <3>1, <3>2 DEF QueueNumbers
  <2> QED BY <2>1, <2>2
<1>6. ended' = Channel' + Batch' + Table' + dropped'
  BY <1>n, <1>2, <1>3, <1>5 DEF QueueNumbers
<1>7. RowsInv'
  BY <1>2, <1>4, <1>5, <1>6, SumIsAccountedNext DEF QueueInv, RowsInv
<1>8. QueueNumbers'
  BY <1>n, <1>2, <1>3, <1>4, <1>5, <1>6, AlertBounds DEF QueueNumbers
<1>9. DepthInv'
  <2>1. depth' + sending' = depth + sending + (sending' - sending)
    BY <1>n, <1>2, <1>5 DEF QueueNumbers
  <2>2. Channel' + Batch' - Uncounted' = Channel + Batch - Uncounted + (sending' - sending)
    BY <1>n, <1>3, <1>5 DEF QueueNumbers
  <2>3. sending' - sending \in Int
    BY <1>n, <1>5 DEF QueueNumbers
  <2> QED BY <1>8, <1>n, <2>1, <2>2, <2>3, DepthMoves DEF QueueInv
<1> QED BY <1>1, <1>7, <1>9 DEF QueueInv

\* A sender counts the row that it has sent.
LEMMA CountUpKeeps ==
  ASSUME QueueInv, CountUp
  PROVE  QueueInv'
<1>n. QueueNumbers
  BY NumbersHold
<1>1. WorkerInv'
  BY DEF QueueInv, WorkerInv, CountUp
<1>2. /\ events' = events /\ ended' = ended /\ depth' = Wrapped(depth + 1) /\ sending' = sending - 1
      /\ sending > 0 /\ worker' = worker /\ logged' = logged /\ month' = month /\ waiting' = waiting
      /\ dropped' = dropped
  BY DEF CountUp, Works, sourceVars
<1>3. /\ depth + 1 \in Int /\ sending - 1 \in Nat /\ (depth + 1) + (sending - 1) = depth + sending
      /\ Channel + Batch - Uncounted \in Int
  BY <1>2, <1>n DEF QueueNumbers
<1>4. depth' \in 0..(Depths - 1)
  BY <1>2, <1>3, WrappedIsSame
<1>5. RowsInv'
  BY <1>2, <1>3, <1>4 DEF QueueInv, RowsInv, RowsAreAccounted
<1>6. SameDepth(Wrapped(depth + 1) + (sending - 1), Channel + Batch - Uncounted)
  <2>1. SameDepth((depth + 1) + (sending - 1), Channel + Batch - Uncounted)
    BY <1>3 DEF QueueInv, DepthInv
  <2>2. sending - 1 \in Int
    BY <1>3
  <2> QED BY <1>3, <2>1, <2>2, SameThroughWrap
<1>7. DepthInv'
  BY <1>2, <1>6 DEF DepthInv, SameDepth, Uncounted, Channel, Batch
<1> QED BY <1>1, <1>5, <1>7 DEF QueueInv

\* A row goes from the channel to the batch.
LEMMA ReceiveKeeps ==
  ASSUME QueueInv, Receive \/ Drain
  PROVE  QueueInv'
<1>n. QueueNumbers
  BY NumbersHold
<1>1. /\ events' = events /\ ended' = ended /\ depth' = depth /\ sending' = sending
      /\ logged' = logged /\ month' = month /\ dropped' = dropped
  BY DEF Receive, Drain, Works, sourceVars
<1>2. /\ waiting' \in Seq(LogRows) /\ WorkerInv' /\ Uncounted = 0 /\ Uncounted' = 0
      /\ \/ Len(waiting') = Len(waiting) - 1 /\ Len(worker'.batch) = Len(worker.batch) + 1
         \/ waiting' = waiting /\ worker'.batch = worker.batch
  <2>1. CASE Receive
    <3>1. worker.batch = << >> /\ waiting # << >> /\ waiting \in Seq(LogRows)
      BY <2>1 DEF Receive, QueueInv, WorkerInv, RowsInv
    <3>2. waiting' = Tail(waiting) /\ worker' = [at |-> "drain", batch |-> <<Head(waiting)>>]
      BY <2>1 DEF Receive
    <3>3. Head(waiting) \in LogRows /\ Tail(waiting) \in Seq(LogRows) /\ Len(Tail(waiting)) = Len(waiting) - 1
      BY <3>1, RowsMove
    <3>4. Len(worker.batch) = 0 /\ Len(worker'.batch) = 1 /\ worker'.batch \in Seq(LogRows) /\ worker'.batch # << >>
      BY <3>1, <3>2, <3>3
    <3>5. Uncounted = 0 /\ Uncounted' = 0
      BY <2>1, <3>2 DEF Receive, Uncounted
    <3>6. DOMAIN worker' = {"at", "batch"} /\ worker'.at = "drain" /\ 1 <= BatchSize
      BY <3>2, AlertBounds
    <3>7. WorkerInv'
      BY <3>4, <3>6 DEF WorkerInv
    <3>8. Len(worker'.batch) = Len(worker.batch) + 1
      BY <3>4
    <3>9. waiting' \in Seq(LogRows) /\ Len(waiting') = Len(waiting) - 1
      BY <3>2, <3>3
    <3> QED BY <3>5, <3>7, <3>8, <3>9
  <2>2. CASE Drain
    <3>1. /\ DOMAIN worker = {"at", "batch"} /\ worker.batch \in Seq(LogRows) /\ worker.batch # << >>
          /\ worker.at = "drain" /\ Len(worker.batch) <= BatchSize /\ waiting \in Seq(LogRows)
      BY <2>2 DEF Drain, QueueInv, WorkerInv, RowsInv
    <3>2. CASE waiting # << >> /\ ~BatchFull(worker.batch)
      <4>1. waiting' = Tail(waiting) /\ worker' = [worker EXCEPT !.batch = Append(@, Head(waiting))]
        BY <2>2, <3>2 DEF Drain
      <4>2. Head(waiting) \in LogRows /\ Tail(waiting) \in Seq(LogRows) /\ Len(Tail(waiting)) = Len(waiting) - 1
        BY <3>1, <3>2, RowsMove
      <4>3. /\ Append(worker.batch, Head(waiting)) \in Seq(LogRows)
            /\ Append(worker.batch, Head(waiting)) # << >>
            /\ Len(Append(worker.batch, Head(waiting))) = Len(worker.batch) + 1
        BY <3>1, <4>2, AppendProperties
      <4>4. worker'.at = "drain" /\ worker'.batch = Append(worker.batch, Head(waiting)) /\ DOMAIN worker' = {"at", "batch"}
        BY <3>1, <4>1
      <4>5. Len(worker'.batch) <= BatchSize
        <5>1. Batch' = Batch + 1 /\ ~(Batch >= BatchSize)
          BY <3>2, <4>3, <4>4 DEF Batch, BatchFull
        <5>2. Batch' <= BatchSize
          BY <5>1, <1>n, AlertBounds DEF QueueNumbers
        <5> QED BY <5>2 DEF Batch
      <4>6. WorkerInv'
        BY <4>3, <4>4, <4>5 DEF WorkerInv
      <4>7. Uncounted = 0 /\ Uncounted' = 0
        BY <3>1, <4>4 DEF Uncounted
      <4> QED BY <4>1, <4>2, <4>3, <4>4, <4>6, <4>7
    <3>3. CASE ~(waiting # << >> /\ ~BatchFull(worker.batch))
      <4>1. waiting' = waiting /\ worker' = [worker EXCEPT !.at = "row"]
        BY <2>2, <3>3 DEF Drain
      <4>2. worker'.at = "row" /\ worker'.batch = worker.batch /\ DOMAIN worker' = {"at", "batch"}
        BY <3>1, <4>1
      <4>3. WorkerInv'
        BY <3>1, <4>2 DEF WorkerInv
      <4> QED BY <3>1, <4>1, <4>2, <4>3 DEF Uncounted
    <3> QED BY <3>2, <3>3
  <2> QED BY <2>1, <2>2
<1>3. /\ Table' = Table
      /\ \/ Channel' = Channel - 1 /\ Batch' = Batch + 1
         \/ Channel' = Channel /\ Batch' = Batch
  BY <1>1, <1>2 DEF Channel, Batch, Table
<1>4. Channel' \in Nat /\ Batch' \in Nat
  BY <1>2, LenProperties DEF WorkerInv, Channel, Batch
<1>5. ended' = Channel' + Batch' + Table' + dropped'
  BY <1>n, <1>1, <1>3 DEF QueueNumbers
<1>6. Len(waiting') <= Capacity
  <2>1. Channel <= Capacity
    BY DEF QueueInv, RowsInv, Channel
  <2>2. Channel' <= Capacity
    BY <1>n, <1>3, <2>1, AlertBounds DEF QueueNumbers
  <2> QED BY <2>2 DEF Channel
<1>7. RowsInv'
  BY <1>1, <1>2, <1>5, <1>6, SumIsAccountedNext DEF QueueInv, RowsInv
<1>8. DepthInv'
  <2>1. QueueNumbers'
    BY <1>n, <1>1, <1>2, <1>3, <1>4, <1>5 DEF QueueNumbers
  <2>2. /\ depth' + sending' = depth + sending + 0
        /\ Channel' + Batch' - Uncounted' = Channel + Batch - Uncounted + 0
    BY <1>n, <1>1, <1>2, <1>3 DEF QueueNumbers
  <2> QED BY <1>n, <2>1, <2>2, DepthMoves DEF QueueInv
<1> QED BY <1>2, <1>7, <1>8 DEF QueueInv

\* The worker counts a row of its batch down, and then inserts it.
LEMMA CountDownKeeps ==
  ASSUME QueueInv, CountDown
  PROVE  QueueInv'
<1>n. QueueNumbers
  BY NumbersHold
<1>1. /\ events' = events /\ ended' = ended /\ depth' = Wrapped(depth - 1) /\ sending' = sending
      /\ worker' = [worker EXCEPT !.at = "insert"] /\ worker.at = "row"
      /\ logged' = logged /\ month' = month /\ waiting' = waiting /\ dropped' = dropped
  BY DEF CountDown, Works, sourceVars
<1>2. worker'.at = "insert" /\ worker'.batch = worker.batch /\ DOMAIN worker' = {"at", "batch"}
  BY <1>1 DEF QueueInv, WorkerInv
<1>3. WorkerInv'
  BY <1>1, <1>2 DEF QueueInv, WorkerInv
<1>4. depth - 1 \in Int /\ (depth + sending) + (-1) = (depth - 1) + sending
  BY <1>n DEF QueueNumbers
<1>5. depth' \in 0..(Depths - 1)
  BY <1>1, <1>4, WrappedIsSame
<1>6. RowsInv'
  BY <1>1, <1>2, <1>5 DEF QueueInv, RowsInv, RowsAreAccounted
<1>7. Uncounted = 0 /\ Uncounted' = 1
  BY <1>1, <1>2 DEF Uncounted
<1>8. SameDepth((depth - 1) + sending, Channel + Batch - 1)
  <2>1. /\ depth + sending \in Int /\ Channel + Batch - Uncounted \in Int
        /\ (Channel + Batch - Uncounted) + (-1) = Channel + Batch - 1
    BY <1>7, <1>n DEF QueueNumbers
  <2>2. SameDepth((depth + sending) + (-1), (Channel + Batch - Uncounted) + (-1))
    BY <2>1, SameMoves DEF QueueInv, DepthInv
  <2> QED BY <1>4, <2>1, <2>2
<1>9. SameDepth(Wrapped(depth - 1) + sending, Channel + Batch - 1)
  <2>1. Channel + Batch - 1 \in Int /\ sending \in Int
    BY <1>n DEF QueueNumbers
  <2> QED BY <1>4, <1>8, <2>1, SameThroughWrap
<1>10. DepthInv'
  BY <1>1, <1>2, <1>7, <1>9 DEF DepthInv, SameDepth, Channel, Batch
<1> QED BY <1>3, <1>6, <1>10 DEF QueueInv

\* A row that is inserted is in the table, and one that is not was dropped.
LEMMA InsertKeeps ==
  ASSUME QueueInv, NEW ok \in BOOLEAN, Insert(ok)
  PROVE  QueueInv'
<1>n. QueueNumbers
  BY NumbersHold
<1> DEFINE batch == worker.batch
<1>1. /\ events' = events /\ ended' = ended /\ depth' = depth /\ sending' = sending
      /\ month' = month /\ waiting' = waiting
  BY DEF Insert, Works, sourceVars
<1>2. /\ worker.at = "insert" /\ batch \in Seq(LogRows) /\ batch # << >> /\ Len(batch) <= BatchSize
      /\ worker' = [at |-> IF Len(batch) = 1 THEN "recv" ELSE "row", batch |-> Tail(batch)]
  BY DEF Insert, QueueInv, WorkerInv
<1>3. /\ Head(batch) \in LogRows /\ Tail(batch) \in Seq(LogRows)
      /\ Len(Tail(batch)) = Len(batch) - 1 /\ Len(batch) \in Nat \ {0}
  BY <1>2, RowsMove
<1>4. /\ logged' = IF ok THEN Append(logged, Head(batch)) ELSE logged
      /\ dropped' = IF ok THEN dropped ELSE dropped + 1
  BY DEF Insert, LostRow
<1>5. /\ logged' \in Seq(LogRows)
      /\ \/ Len(logged') = Len(logged) + 1 /\ dropped' = dropped
         \/ Len(logged') = Len(logged) /\ dropped' = dropped + 1
  BY <1>3, <1>4, AppendProperties DEF QueueInv, RowsInv
<1>6. /\ Batch' = Batch - 1 /\ Batch # 0 /\ Channel' = Channel
      /\ \/ Table' = Table + 1 /\ dropped' = dropped
         \/ Table' = Table /\ dropped' = dropped + 1
  BY <1>1, <1>2, <1>3, <1>5 DEF Batch, Channel, Table
<1>7. WorkerInv'
  <2>1. Len(Tail(batch)) = 0 <=> Tail(batch) = << >>
    BY <1>3, EmptySeq
  <2>2. (Len(batch) = 1) <=> (Len(Tail(batch)) = 0)
    <3> DEFINE size == Len(batch)
               rest == Len(Tail(batch))
    <3>1. size \in Nat /\ rest = size - 1
      BY <1>3
    <3> HIDE DEF size, rest
    <3>2. size = 1 <=> rest = 0
      BY <3>1
    <3> QED BY <3>2 DEF size, rest
  <2>3. worker'.at = (IF Len(batch) = 1 THEN "recv" ELSE "row") /\ worker'.batch = Tail(batch)
        /\ DOMAIN worker' = {"at", "batch"}
    BY <1>2
  <2>4. Len(worker'.batch) <= BatchSize
    <3>1. Batch <= BatchSize /\ Batch \in Nat
      BY <1>2, <1>n DEF Batch, QueueNumbers
    <3>2. Batch' <= BatchSize
      BY <1>6, <3>1, AlertBounds
    <3> QED BY <3>2 DEF Batch
  <2> QED BY <1>3, <2>1, <2>2, <2>3, <2>4 DEF WorkerInv
<1>8. Batch' \in Nat /\ Table' \in Nat /\ dropped' \in Nat /\ ended' = Channel' + Batch' + Table' + dropped'
  <2>1. /\ Channel \in Nat /\ Batch \in Nat /\ Table \in Nat /\ dropped \in Nat
        /\ ended = Channel + Batch + Table + dropped /\ ended' = ended
    BY <1>1, <1>n DEF QueueNumbers
  <2>2. CASE Table' = Table + 1 /\ dropped' = dropped
    BY <1>6, <2>1, <2>2
  <2>3. CASE Table' = Table /\ dropped' = dropped + 1
    BY <1>6, <2>1, <2>3
  <2> QED BY <1>6, <2>2, <2>3
<1>9. RowsInv'
  <2>1. month' \in 0..Table /\ Table <= Table'
    BY <1>1, <1>6, <1>n DEF QueueInv, RowsInv, Table, QueueNumbers
  <2>2. month' \in 0..Len(logged')
    <3>1. month' \in 0..Table'
      BY <2>1, <1>n, <1>8 DEF QueueNumbers
    <3> QED BY <3>1 DEF Table
  <2> QED BY <1>1, <1>5, <1>8, <2>2, SumIsAccountedNext DEF QueueInv, RowsInv
<1>10. DepthInv'
  <2>1. Uncounted = 1 /\ Uncounted' = 0
    BY <1>2 DEF Uncounted
  <2>2. QueueNumbers'
    <3>1. Uncounted' \in Int /\ Channel' \in Nat
      BY <1>n, <1>6, <2>1 DEF QueueNumbers
    <3>2. depth' \in Int /\ sending' \in Nat /\ ended' \in Nat /\ events' \in Nat /\ ended' <= events'
      BY <1>n, <1>1 DEF QueueNumbers
    <3> QED BY <1>8, <3>1, <3>2 DEF QueueNumbers
  <2>3. /\ depth' + sending' = depth + sending + 0
        /\ Channel' + Batch' - Uncounted' = Channel + Batch - Uncounted + 0
    BY <1>n, <1>1, <1>6, <2>1 DEF QueueNumbers
  <2> QED BY <1>n, <2>2, <2>3, DepthMoves DEF QueueInv
<1> QED BY <1>7, <1>9, <1>10 DEF QueueInv

\* The other steps leave the queue and its rows alone.
LEMMA QueueRests ==
  ASSUME QueueInv, UNCHANGED queueVars,
         (Happens /\ month' \in 0..Len(logged)) \/ UNCHANGED <<events, ended, month>>
  PROVE  QueueInv'
<1>1. /\ depth' = depth /\ sending' = sending /\ logged' = logged /\ waiting' = waiting
      /\ dropped' = dropped /\ worker' = worker
  BY DEF queueVars
<1>2. WorkerInv' /\ DepthInv'
  BY <1>1 DEF QueueInv, WorkerInv, DepthInv, SameDepth, Uncounted, Channel, Batch
<1>3. ended' = ended /\ events' \in 0..MaxEvents /\ ended' \in 0..events' /\ month' \in 0..Len(logged)
  BY AlertBounds DEF QueueInv, RowsInv, Happens, Occurs
<1>4. RowsInv'
  BY <1>1, <1>3 DEF QueueInv, RowsInv, RowsAreAccounted
<1> QED BY <1>2, <1>4 DEF QueueInv

\* What else the loop watches; the samples of a window are bounded.
SourceInv ==
  /\ acctStatus \in [Accts -> {"healthy", "cooldown", "exhausted", Deleted}]
  /\ routeOn \subseteq RouteIds /\ backupFailed \in BOOLEAN /\ credFails \in Nat
  /\ \E S : samples \in Seq(S)
  /\ Len(samples) <= MaxSamples

\* The latency alert fires only for a breach that has lasted, and an alert for a
\* credential that has been sent is firing.
EvalInv ==
  /\ DOMAIN eval = {"at", "accts", "todo"} /\ eval.todo \in Seq(RouteIds)
  /\ eval.at \in {"idle", "usage", "accounts", "routes", "route", "latency", "queue", "backup",
                  "budgets", "credential"}
BreachInv ==
  /\ moment \in 0..MaxMoment /\ calm \in 0..moment
  /\ breachSince \in calm..moment \cup {NoTime}
  /\ Slow \in active => breachSince # NoTime /\ moment - breachSince >= Sustain
SentInv ==
  /\ alerted \in BOOLEAN /\ steady \in BOOLEAN
  /\ alerted => Credential \in active
LoopInv == EvalInv /\ BreachInv /\ SentInv

\* Of two numbers, the larger one.
LEMMA LargerOne ==
  ASSUME NEW n \in Int
  PROVE  Max({1, n}) = IF n >= 1 THEN n ELSE 1
<1> DEFINE m == IF n >= 1 THEN n ELSE 1
<1>1. m \in {1, n} /\ \A y \in {1, n} : m >= y
  OBVIOUS
<1>2. \A x \in {1, n} : (\A y \in {1, n} : x >= y) => x = m
  OBVIOUS
<1> HIDE DEF m
<1>3. Max({1, n}) = m
  BY <1>1, <1>2 DEF Max
<1> QED BY <1>3 DEF m

\* Trimming bounds the samples.
LEMMA TrimmedIsShort ==
  ASSUME NEW S, NEW s \in Seq(S)
  PROVE  Trimmed(s) \in Seq(S) /\ Len(Trimmed(s)) <= MaxSamples
<1> DEFINE old == {i \in DOMAIN s : \A j \in 1..i : s[j].at < moment - SampleAge}
           young == SubSeq(s, Cardinality(old) + 1, Len(s))
           from == Max({1, Len(young) - MaxSamples + 1})
<1>1. Len(s) \in Nat /\ DOMAIN s = 1..Len(s) /\ \A i \in 1..Len(s) : s[i] \in S
  BY LenProperties, ElementOfSeq
<1>2. Cardinality(old) \in Nat
  <2>1. old \subseteq 1..Len(s)
    BY <1>1
  <2>2. IsFiniteSet(1..Len(s))
    BY <1>1, FS_Interval
  <2> QED BY <2>1, <2>2, FS_Subset, FS_CardinalityType
<1>3. young \in Seq(S)
  <2> DEFINE c == Cardinality(old)
  <2>1. c \in Nat
    BY <1>2
  <2> HIDE DEF c
  <2>2. \A i \in (c + 1)..Len(s) : s[i] \in S
    BY <1>1, <2>1
  <2>3. SubSeq(s, c + 1, Len(s)) \in Seq(S)
    BY <1>1, <2>1, <2>2, SubSeqProperties
  <2> QED BY <2>3 DEF c
<1>4. Trimmed(s) = SubSeq(young, from, Len(young))
  BY DEF Trimmed
<1> HIDE DEF young, old
<1>5. Len(young) \in Nat /\ \A i \in 1..Len(young) : young[i] \in S
  BY <1>3, LenProperties, ElementOfSeq
<1>6. from \in Nat /\ from >= 1 /\ from >= Len(young) - MaxSamples + 1
  <2>1. Len(young) - MaxSamples + 1 \in Int
    BY <1>5, AlertBounds
  <2> QED BY <2>1, LargerOne
<1> HIDE DEF from
<1>7. /\ SubSeq(young, from, Len(young)) \in Seq(S)
      /\ Len(SubSeq(young, from, Len(young))) = IF from <= Len(young) THEN Len(young) - from + 1 ELSE 0
  <2>1. \A i \in from..Len(young) : young[i] \in S
    BY <1>5, <1>6
  <2> QED BY <1>5, <1>6, <2>1, SubSeqProperties
<1>8. (IF from <= Len(young) THEN Len(young) - from + 1 ELSE 0) <= MaxSamples
  BY <1>5, <1>6, AlertBounds
<1> QED BY <1>4, <1>7, <1>8

\* A sample that is recorded.
LEMMA LatencyKeeps ==
  ASSUME SourceInv, NEW ms, RecordLatency(ms)
  PROVE  (\E S : samples' \in Seq(S)) /\ Len(samples') <= MaxSamples
<1>1. PICK S : samples \in Seq(S)
  BY DEF SourceInv
<1> DEFINE T == S \cup {[at |-> moment, ms |-> ms]}
<1>2. samples \in Seq(T) /\ [at |-> moment, ms |-> ms] \in T
  BY <1>1, SeqMonotonic
<1>3. Append(samples, [at |-> moment, ms |-> ms]) \in Seq(T)
  BY <1>2, AppendProperties
<1>4. samples' = Trimmed(Append(samples, [at |-> moment, ms |-> ms]))
  BY DEF RecordLatency
<1> HIDE DEF T
<1>5. samples' \in Seq(T) /\ Len(samples') <= MaxSamples
  BY <1>3, <1>4, TrimmedIsShort
<1> QED BY <1>5

\* What the steps of the sources, and of the loop, leave alone.
SourceStep == UNCHANGED <<moment, queueVars, loopVars>> /\ Happens
LoopStep == UNCHANGED <<moment, queueVars, sourceVars, events, ended>>

\* The steps.
LEMMA AlertSteps ==
  ASSUME [AlertNext]_alertVars
  PROVE  \/ \E r \in LogRows : Enqueue(r)
         \/ CountUp \/ Receive \/ Drain \/ CountDown
         \/ \E ok \in BOOLEAN : Insert(ok)
         \/ MonthEnds
         \/ \E a \in Accts, s \in {"healthy", "cooldown", "exhausted", Deleted} : StatusChanges(a, s)
         \/ \E r \in RouteIds : RouteSwitched(r)
         \/ \E failed \in BOOLEAN : BackupEnds(failed)
         \/ \E ok \in BOOLEAN : CredentialResolved(ok)
         \/ \E ms \in Latencies : RecordLatency(ms)
         \/ MomentPasses
         \/ EvalBegin \/ QueryFails \/ JudgeUsage \/ JudgeAccounts \/ ListRoutes \/ JudgeRoute \/ RoutesDone
         \/ JudgeLatency \/ JudgeQueue \/ JudgeBackup \/ JudgeBudgets \/ JudgeCredential
         \/ UNCHANGED alertVars
BY DEF AlertNext, UsageNext, HealthNext, SpeedNext, LoopNext

\* The sources' steps change the sources only, which stay what they are.
LEMMA SourceSteps ==
  ASSUME SourceInv, QueueInv,
         \/ MonthEnds
         \/ \E a \in Accts, s \in {"healthy", "cooldown", "exhausted", Deleted} : StatusChanges(a, s)
         \/ \E r \in RouteIds : RouteSwitched(r)
         \/ \E failed \in BOOLEAN : BackupEnds(failed)
         \/ \E ok \in BOOLEAN : CredentialResolved(ok)
         \/ \E ms \in Latencies : RecordLatency(ms)
  PROVE  SourceStep /\ SourceInv' /\ month' \in 0..Len(logged)
<1>0. month \in 0..Len(logged)
  BY DEF QueueInv, RowsInv
<1>1. CASE MonthEnds
  <2>1. /\ SourceStep /\ month' = Len(logged)
        /\ UNCHANGED <<acctStatus, routeOn, backupFailed, credFails, samples>>
    BY <1>1 DEF MonthEnds, SourceStep
  <2>2. Len(logged) \in Nat
    BY LenProperties DEF QueueInv, RowsInv
  <2> QED BY <2>1, <2>2 DEF SourceInv
<1>2. CASE \E a \in Accts, s \in {"healthy", "cooldown", "exhausted", Deleted} : StatusChanges(a, s)
  <2>1. PICK a \in Accts, s \in {"healthy", "cooldown", "exhausted", Deleted} : StatusChanges(a, s)
    BY <1>2
  <2>2. /\ SourceStep /\ UNCHANGED <<month, routeOn, backupFailed, credFails, samples>>
        /\ acctStatus' = [acctStatus EXCEPT ![a] = s]
    BY <2>1 DEF StatusChanges, SourceStep
  <2> QED BY <1>0, <2>2 DEF SourceInv
<1>3. CASE \E r \in RouteIds : RouteSwitched(r)
  <2>1. PICK r \in RouteIds : RouteSwitched(r)
    BY <1>3
  <2>2. /\ SourceStep /\ UNCHANGED <<month, acctStatus, backupFailed, credFails, samples>>
        /\ routeOn' \subseteq routeOn \cup {r}
    BY <2>1 DEF RouteSwitched, SourceStep
  <2> QED BY <1>0, <2>2 DEF SourceInv
<1>4. CASE \E failed \in BOOLEAN : BackupEnds(failed)
  <2>1. SourceStep /\ UNCHANGED <<month, acctStatus, routeOn, credFails, samples>> /\ backupFailed' \in BOOLEAN
    BY <1>4 DEF BackupEnds, SourceStep
  <2> QED BY <1>0, <2>1 DEF SourceInv
<1>5. CASE \E ok \in BOOLEAN : CredentialResolved(ok)
  <2>1. /\ SourceStep /\ UNCHANGED <<month, acctStatus, routeOn, backupFailed, samples>>
        /\ credFails' = 0 \/ credFails' = credFails + 1
    BY <1>5 DEF CredentialResolved, SourceStep
  <2> QED BY <1>0, <2>1 DEF SourceInv
<1>6. CASE \E ms \in Latencies : RecordLatency(ms)
  <2>1. PICK ms \in Latencies : RecordLatency(ms)
    BY <1>6
  <2>2. SourceStep /\ UNCHANGED <<month, acctStatus, routeOn, backupFailed, credFails>>
    BY <2>1 DEF RecordLatency, SourceStep
  <2>3. (\E S : samples' \in Seq(S)) /\ Len(samples') <= MaxSamples
    BY <2>1, LatencyKeeps
  <2> QED BY <1>0, <2>2, <2>3 DEF SourceInv
<1> QED BY <1>1, <1>2, <1>3, <1>4, <1>5, <1>6

\* The first part of an alert's key says what it is about.
LEMMA KeyKinds ==
  /\ Fallback[1] = "high_fallback_rate" /\ Errors[1] = "high_error_rate" /\ Slow[1] = "high_added_latency"
  /\ Full[1] = "usage_queue_saturated" /\ Backup[1] = "backup_failed"
  /\ Credential[1] = "credential_refresh_failed"
  /\ \A a : Unhealthy(a)[1] = "account_unhealthy" /\ Unhealthy(a)[2] = a
  /\ \A r : Unavailable(r)[1] = "route_unavailable" /\ Unavailable(r)[2] = r
  /\ \A k : Spent(k)[1] = "key_budget" /\ Spent(k)[2] = k
BY DEF Fallback, Errors, Slow, Full, Backup, Credential, Unhealthy, Unavailable, Spent

\* A section judges alerts of its kinds only.
JudgesOnly(kinds) == \A key : key[1] \notin kinds => (key \in active' <=> key \in active)

\* Where the evaluation goes, and what it does to the alerts and the evaluation's own state.
Goes(from, to) ==
  LoopStep /\ eval.at = from /\ eval'.at = to /\ DOMAIN eval' = {"at", "accts", "todo"}
Rests == UNCHANGED <<breachSince, calm>>

\* An evaluation begins with the usage.
LEMMA BeginGoes ==
  ASSUME EvalInv, EvalBegin
  PROVE  /\ Goes("idle", "usage") /\ steady' = TRUE /\ Rests /\ eval'.todo = eval.todo
         /\ active' = active /\ alerted' = alerted
BY DEF EvalInv, EvalBegin, On, Evaluated, Goes, LoopStep, Rests

\* A query that fails ends it, with what it has judged.
LEMMA FailureGoes ==
  ASSUME EvalInv, QueryFails
  PROVE  /\ Goes(eval.at, "idle") /\ steady' = FALSE /\ Rests /\ eval'.todo = << >>
         /\ active' = active /\ alerted' = alerted
BY DEF EvalInv, QueryFails, On, Evaluated, Goes, LoopStep, Rests

\* The usage section judges the two rates, or nothing when the rows are too few.
LEMMA UsageGoes ==
  ASSUME EvalInv, JudgeUsage
  PROVE  /\ Goes("usage", "accounts") /\ steady' = steady /\ Rests /\ eval'.todo = eval.todo
         /\ JudgesOnly({"high_fallback_rate", "high_error_rate"}) /\ alerted' = alerted
         /\ Len(RecentUsage) >= MinRows =>
              /\ Fallback \in active' <=> HighFallback(RecentUsage)
              /\ Errors \in active' <=> HighErrors(RecentUsage)
<1>1. /\ Goes("usage", "accounts") /\ steady' = steady /\ Rests /\ eval'.todo = eval.todo /\ alerted' = alerted
  BY DEF EvalInv, JudgeUsage, On, GoOn, Evaluated, Goes, LoopStep, Rests
<1>2. CASE Len(RecentUsage) >= MinRows
  <2> DEFINE bad == IfBad(Fallback, HighFallback(RecentUsage)) \cup IfBad(Errors, HighErrors(RecentUsage))
  <2>1. active' = (active \ {Fallback, Errors}) \cup bad
    BY <1>2 DEF JudgeUsage, Judge
  <2>2. Fallback # Errors
    BY KeyKinds
  <2>3. \A key : key \in bad <=>
          (key = Fallback /\ HighFallback(RecentUsage)) \/ (key = Errors /\ HighErrors(RecentUsage))
    BY DEF IfBad
  <2> HIDE DEF bad
  <2>4. JudgesOnly({"high_fallback_rate", "high_error_rate"})
    BY <2>1, <2>3, KeyKinds DEF JudgesOnly
  <2> QED BY <1>1, <2>1, <2>2, <2>3, <2>4
<1>3. CASE ~(Len(RecentUsage) >= MinRows)
  BY <1>1, <1>3 DEF JudgeUsage, JudgesOnly
<1> QED BY <1>2, <1>3

\* The accounts section judges the listed accounts by what it lists, and keeps the list.
LEMMA AccountsGo ==
  ASSUME EvalInv, JudgeAccounts
  PROVE  /\ Goes("accounts", "routes") /\ steady' = steady /\ Rests /\ eval'.todo = eval.todo
         /\ JudgesOnly({"account_unhealthy"}) /\ alerted' = alerted
         /\ eval'.accts = [a \in {b \in Accts : acctStatus[b] # Deleted} |-> acctStatus[a]]
         /\ \A a \in Accts : acctStatus[a] # Deleted => (Unhealthy(a) \in active' <=> IsUnhealthy(acctStatus[a]))
<1> DEFINE listed == {a \in Accts : acctStatus[a] # Deleted}
<1>1. /\ Goes("accounts", "routes") /\ steady' = steady /\ Rests /\ eval'.todo = eval.todo /\ alerted' = alerted
      /\ eval'.accts = [a \in listed |-> acctStatus[a]]
  BY DEF EvalInv, JudgeAccounts, On, Evaluated, Goes, LoopStep, Rests
<1>2. active' = (active \ {Unhealthy(a) : a \in listed})
                \cup {Unhealthy(a) : a \in {b \in listed : IsUnhealthy(acctStatus[b])}}
  BY DEF JudgeAccounts, Judge
<1>3. JudgesOnly({"account_unhealthy"})
  BY <1>2, KeyKinds DEF JudgesOnly
<1>4. ASSUME NEW a \in listed PROVE Unhealthy(a) \in active' <=> IsUnhealthy(acctStatus[a])
  <2>1. \A b : Unhealthy(a) = Unhealthy(b) => a = b
    BY KeyKinds
  <2> QED BY <1>2, <2>1
<1> QED BY <1>1, <1>3, <1>4

\* The listing of the routes judges nothing.
LEMMA ListGoes ==
  ASSUME EvalInv, ListRoutes
  PROVE  /\ Goes("routes", "route") /\ steady' = steady /\ Rests /\ eval'.todo = SetToSeq(routeOn)
         /\ active' = active /\ alerted' = alerted /\ eval'.accts = eval.accts
BY DEF EvalInv, ListRoutes, On, Evaluated, Goes, LoopStep, Rests

\* A route is judged with the accounts that were listed before.
LEMMA RouteGoes ==
  ASSUME EvalInv, JudgeRoute
  PROVE  /\ Goes("route", "route") /\ steady' = steady /\ Rests /\ eval'.todo = Tail(eval.todo)
         /\ eval.todo # << >> /\ alerted' = alerted /\ eval'.accts = eval.accts
         /\ \A key : key # Unavailable(Head(eval.todo)) => (key \in active' <=> key \in active)
         /\ Unavailable(Head(eval.todo)) \in active' <=>
              RouteModels[Head(eval.todo)] # {} /\ ~HasHealthyTarget(Head(eval.todo), eval.accts)
<1>1. /\ Goes("route", "route") /\ steady' = steady /\ Rests /\ eval'.todo = Tail(eval.todo)
      /\ eval.todo # << >> /\ alerted' = alerted /\ eval'.accts = eval.accts
  BY DEF EvalInv, JudgeRoute, On, Evaluated, Goes, LoopStep, Rests
<1> DEFINE key0 == Unavailable(Head(eval.todo))
           bad == RouteModels[Head(eval.todo)] # {} /\ ~HasHealthyTarget(Head(eval.todo), eval.accts)
<1>2. active' = (active \ {key0}) \cup IfBad(key0, bad)
  BY DEF JudgeRoute, Judge
<1> HIDE DEF bad, key0
<1>3. (\A key : key # key0 => (key \in active' <=> key \in active)) /\ (key0 \in active' <=> bad)
  BY <1>2 DEF IfBad
<1> QED BY <1>1, <1>3 DEF bad, key0

\* After the last route the lists are dropped.
LEMMA RoutesGo ==
  ASSUME EvalInv, RoutesDone
  PROVE  /\ Goes("route", "latency") /\ steady' = steady /\ Rests /\ eval'.todo = << >>
         /\ active' = active /\ alerted' = alerted /\ eval.todo = << >>
BY DEF EvalInv, RoutesDone, On, Evaluated, Goes, LoopStep, Rests

\* The latency section starts, keeps or ends the breach.
LEMMA LatencyGoes ==
  ASSUME EvalInv, BreachInv, JudgeLatency
  PROVE  /\ Goes("latency", "queue") /\ steady' = steady /\ eval'.todo = eval.todo
         /\ JudgesOnly({"high_added_latency"}) /\ alerted' = alerted
         /\ BreachInv'
         /\ Slow \in active' <=> Breach /\ moment - breachSince' >= Sustain
<1>1. /\ Goes("latency", "queue") /\ steady' = steady /\ eval'.todo = eval.todo /\ alerted' = alerted
      /\ moment' = moment
  BY DEF EvalInv, JudgeLatency, On, GoOn, Evaluated, Goes, LoopStep
<1>2. CASE Breach
  <2> DEFINE since == IF breachSince = NoTime THEN moment ELSE breachSince
  <2>1. /\ breachSince' = since /\ calm' = calm
        /\ active' = IF moment - since >= Sustain THEN active \cup {Slow} ELSE active
    BY <1>2 DEF JudgeLatency
  <2>2. since \in calm..moment /\ since # NoTime /\ moment \in 0..MaxMoment /\ calm \in 0..moment
    BY AlertBounds DEF BreachInv
  <2>3. Slow \in active => since = breachSince /\ moment - since >= Sustain
    BY DEF BreachInv
  <2> HIDE DEF since
  <2>4. Slow \in active' <=> moment - since >= Sustain
    BY <2>1, <2>3
  <2>5. JudgesOnly({"high_added_latency"})
    BY <2>1, KeyKinds DEF JudgesOnly
  <2>6. BreachInv'
    BY <1>1, <2>1, <2>2, <2>4 DEF BreachInv
  <2> QED BY <1>1, <1>2, <2>1, <2>4, <2>5, <2>6
<1>3. CASE ~Breach
  <2>1. breachSince' = NoTime /\ active' = active \ {Slow} /\ calm' = moment
    BY <1>3 DEF JudgeLatency, Relieved
  <2>2. JudgesOnly({"high_added_latency"}) /\ Slow \notin active'
    BY <2>1, KeyKinds DEF JudgesOnly
  <2>3. BreachInv'
    BY <1>1, <2>1, <2>2 DEF BreachInv
  <2> QED BY <1>1, <1>3, <2>2, <2>3
<1> QED BY <1>2, <1>3

\* The queue section judges the depth that the queue shows.
LEMMA QueueGoes ==
  ASSUME EvalInv, JudgeQueue
  PROVE  /\ Goes("queue", "backup") /\ steady' = steady /\ Rests /\ eval'.todo = eval.todo
         /\ JudgesOnly({"usage_queue_saturated"}) /\ alerted' = alerted
         /\ Full \in active' <=> Saturated
<1>1. /\ Goes("queue", "backup") /\ steady' = steady /\ Rests /\ eval'.todo = eval.todo /\ alerted' = alerted
  BY DEF EvalInv, JudgeQueue, On, GoOn, Evaluated, Goes, LoopStep, Rests
<1>2. active' = (active \ {Full}) \cup IfBad(Full, Saturated)
  BY DEF JudgeQueue, Judge
<1>3. JudgesOnly({"usage_queue_saturated"}) /\ (Full \in active' <=> Saturated)
  BY <1>2, KeyKinds DEF JudgesOnly, IfBad
<1> QED BY <1>1, <1>3

\* The backup section judges the last backup.
LEMMA BackupGoes ==
  ASSUME EvalInv, JudgeBackup
  PROVE  /\ Goes("backup", "budgets") /\ steady' = steady /\ Rests /\ eval'.todo = eval.todo
         /\ JudgesOnly({"backup_failed"}) /\ alerted' = alerted
         /\ Backup \in active' <=> backupFailed
<1>1. /\ Goes("backup", "budgets") /\ steady' = steady /\ Rests /\ eval'.todo = eval.todo /\ alerted' = alerted
  BY DEF EvalInv, JudgeBackup, On, GoOn, Evaluated, Goes, LoopStep, Rests
<1>2. active' = (active \ {Backup}) \cup IfBad(Backup, backupFailed)
  BY DEF JudgeBackup, Judge
<1>3. JudgesOnly({"backup_failed"}) /\ (Backup \in active' <=> backupFailed)
  BY <1>2, KeyKinds DEF JudgesOnly, IfBad
<1> QED BY <1>1, <1>3

\* The budgets section judges the keys with a budget by the rows of the month.
LEMMA BudgetsGo ==
  ASSUME EvalInv, JudgeBudgets
  PROVE  /\ Goes("budgets", "credential") /\ steady' = steady /\ Rests /\ eval'.todo = eval.todo
         /\ JudgesOnly({"key_budget"}) /\ alerted' = alerted
         /\ \A k \in DOMAIN Budget : Budget[k] > 0 =>
              (Spent(k) \in active' <=> AtLeast(Spend(k, ThisMonth), Budget[k], 80))
<1>1. /\ Goes("budgets", "credential") /\ steady' = steady /\ Rests /\ eval'.todo = eval.todo /\ alerted' = alerted
  BY DEF EvalInv, JudgeBudgets, On, GoOn, Evaluated, Goes, LoopStep, Rests
<1> DEFINE limited == {k \in DOMAIN Budget : Budget[k] > 0}
           bad(k) == AtLeast(Spend(k, ThisMonth), Budget[k], 80)
<1>2. active' = (active \ {Spent(k) : k \in limited}) \cup {Spent(k) : k \in {b \in limited : bad(b)}}
  BY DEF JudgeBudgets, Judge
<1> HIDE DEF bad
<1>3. JudgesOnly({"key_budget"})
  BY <1>2, KeyKinds DEF JudgesOnly
<1>4. ASSUME NEW k \in limited PROVE Spent(k) \in active' <=> bad(k)
  <2>1. \A b : Spent(k) = Spent(b) => k = b
    BY KeyKinds
  <2> QED BY <1>2, <2>1
<1> QED BY <1>1, <1>3, <1>4 DEF bad

\* The credential section judges the credentials, and remembers what it has sent.
LEMMA CredentialGoes ==
  ASSUME EvalInv, SentInv, credFails \in Nat, JudgeCredential
  PROVE  /\ Goes("credential", "idle") /\ steady' = steady /\ Rests /\ eval'.todo = eval.todo
         /\ JudgesOnly({"credential_refresh_failed"}) /\ alerted' = (credFails > 0)
         /\ Credential \in active' <=> credFails > 0
<1>1. /\ Goes("credential", "idle") /\ steady' = steady /\ Rests /\ eval'.todo = eval.todo
      /\ alerted' = (credFails > 0)
      /\ active' = IF credFails = 0 THEN active \ {Credential}
                   ELSE IF alerted THEN active ELSE active \cup {Credential}
  BY DEF EvalInv, JudgeCredential, On, GoOn, Evaluated, Goes, LoopStep, Rests
<1>2. JudgesOnly({"credential_refresh_failed"})
  BY <1>1, KeyKinds DEF JudgesOnly
<1>3. Credential \in active' <=> credFails > 0
  BY <1>1 DEF SentInv
<1> QED BY <1>1, <1>2, <1>3

\* What an evaluation has told, section by section.
UsageTold ==
  Len(RecentUsage) >= MinRows =>
    /\ Fallback \in active <=> HighFallback(RecentUsage)
    /\ Errors \in active <=> HighErrors(RecentUsage)
AccountsTold ==
  \A a \in Accts : acctStatus[a] # Deleted => (Unhealthy(a) \in active <=> IsUnhealthy(acctStatus[a]))
RouteTold(r) ==
  RouteModels[r] # {} =>
    (Unavailable(r) \in active <=>
       \A m \in RouteModels[r] : m \in DOMAIN ModelOwner =>
         \A a \in Accts : OwnerOf[a] = ModelOwner[m] => acctStatus[a] # "healthy")
FullTold == Full \in active <=> Saturated
BackupTold == Backup \in active <=> backupFailed
BudgetsTold ==
  \A k \in DOMAIN Budget : Budget[k] > 0 => (Spent(k) \in active <=> AtLeast(Spend(k, ThisMonth), Budget[k], 80))
CredentialTold == Credential \in active <=> credFails > 0
SlowTold == Slow \in active <=> Breach /\ moment - breachSince >= Sustain

\* The accounts that it has listed, and the routes that it has still to judge.
AccountsListed == eval.accts = [a \in {b \in Accts : acctStatus[b] # Deleted} |-> acctStatus[a]]
RoutesTold == \A r \in routeOn : RouteTold(r)
RestToTell == \A r \in routeOn : RouteTold(r) \/ \E i \in 1..Len(eval.todo) : eval.todo[i] = r

\* An evaluation during which nothing changes has told what the sections behind it are
\* about.
SteadyInv ==
  steady =>
    /\ eval.at # "usage" => UsageTold
    /\ eval.at \notin {"usage", "accounts"} => AccountsTold
    /\ eval.at \in {"routes", "route"} => AccountsListed
    /\ eval.at = "route" => RestToTell
    /\ eval.at \notin {"usage", "accounts", "routes", "route"} => RoutesTold
    /\ eval.at \in {"queue", "backup", "budgets", "credential", "idle"} => SlowTold
    /\ eval.at \in {"backup", "budgets", "credential", "idle"} => FullTold
    /\ eval.at \in {"budgets", "credential", "idle"} => BackupTold
    /\ eval.at \in {"credential", "idle"} => BudgetsTold
    /\ eval.at = "idle" => CredentialTold

\* Each element of a finite set is in its sequence.
LEMMA SequenceOfSet ==
  ASSUME NEW S, IsFiniteSet(S)
  PROVE  /\ SetToSeq(S) \in Seq(S)
         /\ \A x \in S : \E i \in 1..Len(SetToSeq(S)) : SetToSeq(S)[i] = x
<1> DEFINE n == Cardinality(S)
<1>1. n \in Nat /\ ExistsBijection(1..n, S)
  BY FS_CardinalityType
<1>2. PICK g : g \in Injection(1..n, S)
  BY <1>1 DEF ExistsBijection, Bijection
<1>3. g \in [1..n -> S] /\ IsInjective(g)
  BY <1>2 DEF Injection
<1>4. SetToSeq(S) \in [1..n -> S] /\ IsInjective(SetToSeq(S))
  BY <1>3 DEF SetToSeq
<1>5. SetToSeq(S) \in Injection(1..n, S)
  BY <1>4 DEF Injection
<1>6. Cardinality(1..n) = n
  <2> HIDE DEF n
  <2>1. Cardinality(1..n) = IF 1 > n THEN 0 ELSE n - 1 + 1
    BY <1>1, FS_Interval
  <2> QED BY <1>1, <2>1
<1>7. SetToSeq(S) \in Surjection(1..n, S)
  BY <1>5, <1>6, FS_Injection
<1>8. SetToSeq(S) \in Seq(S) /\ Len(SetToSeq(S)) = n
  <2> DEFINE q == SetToSeq(S)
  <2> HIDE DEF n, q
  <2>1. q \in [1..n -> S]
    BY <1>4 DEF q
  <2>2. q \in Seq(S) /\ Len(q) = n
    BY <1>1, <2>1
  <2> QED BY <2>2 DEF q
<1> QED BY <1>7, <1>8 DEF Surjection

\* The sources of a section, unchanged, and its alerts not judged: it is as it was.
LEMMA UsageStays ==
  ASSUME LoopStep, \A key : key \in {Fallback, Errors} => (key \in active' <=> key \in active)
  PROVE  UsageTold => UsageTold'
<1>1. RecentUsage' = RecentUsage
  BY DEF LoopStep, queueVars, RecentUsage
<1>2. HighFallback(RecentUsage)' = HighFallback(RecentUsage) /\ HighErrors(RecentUsage)' = HighErrors(RecentUsage)
  BY <1>1
<1> QED BY <1>1, <1>2 DEF UsageTold, Fallback, Errors

\* What a section has told stays told while its keys and its source do: the accounts.
LEMMA AccountsStay ==
  ASSUME LoopStep, \A a : Unhealthy(a) \in active' <=> Unhealthy(a) \in active
  PROVE  AccountsTold => AccountsTold'
BY DEF LoopStep, sourceVars, AccountsTold, IsUnhealthy, Unhealthy

\* The same of one route.
LEMMA RouteStays ==
  ASSUME LoopStep, NEW r, Unavailable(r) \in active' <=> Unavailable(r) \in active
  PROVE  RouteTold(r) => RouteTold(r)'
BY DEF LoopStep, sourceVars, RouteTold, Unavailable

\* The same of the queue.
LEMMA FullStays ==
  ASSUME LoopStep, Full \in active' <=> Full \in active
  PROVE  FullTold => FullTold'
BY DEF LoopStep, queueVars, FullTold, Saturated, AtLeast, Full

\* The same of the backup.
LEMMA BackupStays ==
  ASSUME LoopStep, Backup \in active' <=> Backup \in active
  PROVE  BackupTold => BackupTold'
BY DEF LoopStep, sourceVars, BackupTold, Backup

\* The same of the budgets.
LEMMA BudgetsStay ==
  ASSUME LoopStep, \A k : Spent(k) \in active' <=> Spent(k) \in active
  PROVE  BudgetsTold => BudgetsTold'
<1>1. ThisMonth' = ThisMonth
  BY DEF LoopStep, queueVars, sourceVars, ThisMonth
<1>2. \A k : Spend(k, ThisMonth') = Spend(k, ThisMonth)
  BY <1>1
<1> QED BY <1>1, <1>2 DEF BudgetsTold, Spent, AtLeast

\* The same of the credentials.
LEMMA CredentialStays ==
  ASSUME LoopStep, Credential \in active' <=> Credential \in active
  PROVE  CredentialTold => CredentialTold'
BY DEF LoopStep, sourceVars, CredentialTold, Credential

\* The same of the latency.
LEMMA SlowStays ==
  ASSUME LoopStep, Slow \in active' <=> Slow \in active, breachSince' = breachSince
  PROVE  SlowTold => SlowTold'
<1>1. Breach' <=> Breach
  BY DEF LoopStep, sourceVars, Breach
<1> QED BY <1>1 DEF LoopStep, SlowTold, Slow

\* A route with no healthy target among the listed accounts has none.
LEMMA NoHealthyTarget ==
  ASSUME AccountsListed, NEW r
  PROVE  ~HasHealthyTarget(r, eval.accts) <=>
           \A m \in RouteModels[r] : m \in DOMAIN ModelOwner =>
             \A a \in Accts : OwnerOf[a] = ModelOwner[m] => acctStatus[a] # "healthy"
<1> DEFINE listed == {b \in Accts : acctStatus[b] # Deleted}
           owners == {OwnerOf[a] : a \in {b \in DOMAIN eval.accts : eval.accts[b] = "healthy"}}
<1>1. DOMAIN eval.accts = listed /\ \A a \in listed : eval.accts[a] = acctStatus[a]
  BY DEF AccountsListed
<1>2. \A p : p \in owners <=> \E a \in Accts : acctStatus[a] = "healthy" /\ OwnerOf[a] = p
  <2>1. Deleted # "healthy"
    BY AlertBounds
  <2> QED BY <1>1, <2>1
<1>3. HasHealthyTarget(r, eval.accts) <=> \E m \in RouteModels[r] : TargetsProvider(m) \cap owners # {}
  BY DEF HasHealthyTarget, HealthyOwners
<1> HIDE DEF owners
<1>4. \A m : TargetsProvider(m) \cap owners # {} <=> m \in DOMAIN ModelOwner /\ ModelOwner[m] \in owners
  BY DEF TargetsProvider
<1> QED BY <1>2, <1>3, <1>4

\* Every section whose alerts are not judged stays as it was.
LEMMA SectionsStay ==
  ASSUME LoopStep, NEW kinds, JudgesOnly(kinds)
  PROVE  /\ {"high_fallback_rate", "high_error_rate"} \cap kinds = {} => (UsageTold => UsageTold')
         /\ "account_unhealthy" \notin kinds => (AccountsTold => AccountsTold')
         /\ "route_unavailable" \notin kinds => (RoutesTold => RoutesTold')
         /\ "route_unavailable" \notin kinds /\ eval'.todo = eval.todo => (RestToTell => RestToTell')
         /\ "high_added_latency" \notin kinds /\ Rests => (SlowTold => SlowTold')
         /\ "usage_queue_saturated" \notin kinds => (FullTold => FullTold')
         /\ "backup_failed" \notin kinds => (BackupTold => BackupTold')
         /\ "key_budget" \notin kinds => (BudgetsTold => BudgetsTold')
         /\ "credential_refresh_failed" \notin kinds => (CredentialTold => CredentialTold')
         /\ eval'.accts = eval.accts => (AccountsListed => AccountsListed')
<1>1. routeOn' = routeOn /\ acctStatus' = acctStatus
  BY DEF LoopStep, sourceVars
<1>2. ASSUME "route_unavailable" \notin kinds, NEW r, RouteTold(r) PROVE RouteTold(r)'
  <2>1. Unavailable(r) \in active' <=> Unavailable(r) \in active
    BY <1>2, KeyKinds DEF JudgesOnly
  <2> QED BY <1>2, <2>1, RouteStays
<1>3. "route_unavailable" \notin kinds => (RoutesTold => RoutesTold')
  BY <1>1, <1>2 DEF RoutesTold
<1>4. "route_unavailable" \notin kinds /\ eval'.todo = eval.todo => (RestToTell => RestToTell')
  BY <1>1, <1>2 DEF RestToTell
<1>5. {"high_fallback_rate", "high_error_rate"} \cap kinds = {} => (UsageTold => UsageTold')
  <2> SUFFICES ASSUME {"high_fallback_rate", "high_error_rate"} \cap kinds = {} PROVE UsageTold => UsageTold'
    OBVIOUS
  <2>1. \A key : key \in {Fallback, Errors} => (key \in active' <=> key \in active)
    BY KeyKinds DEF JudgesOnly
  <2> QED BY <2>1, UsageStays
<1>6. "account_unhealthy" \notin kinds => (AccountsTold => AccountsTold')
  <2> SUFFICES ASSUME "account_unhealthy" \notin kinds PROVE AccountsTold => AccountsTold'
    OBVIOUS
  <2>1. \A a : Unhealthy(a) \in active' <=> Unhealthy(a) \in active
    BY KeyKinds DEF JudgesOnly
  <2> QED BY <2>1, AccountsStay
<1>7. "high_added_latency" \notin kinds /\ Rests => (SlowTold => SlowTold')
  <2> SUFFICES ASSUME "high_added_latency" \notin kinds, Rests PROVE SlowTold => SlowTold'
    OBVIOUS
  <2>1. (Slow \in active' <=> Slow \in active) /\ breachSince' = breachSince
    BY KeyKinds DEF JudgesOnly, Rests
  <2> QED BY <2>1, SlowStays
<1>8. "usage_queue_saturated" \notin kinds => (FullTold => FullTold')
  BY KeyKinds, FullStays DEF JudgesOnly
<1>9. "backup_failed" \notin kinds => (BackupTold => BackupTold')
  BY KeyKinds, BackupStays DEF JudgesOnly
<1>10. "key_budget" \notin kinds => (BudgetsTold => BudgetsTold')
  <2> SUFFICES ASSUME "key_budget" \notin kinds PROVE BudgetsTold => BudgetsTold'
    OBVIOUS
  <2>1. \A k : Spent(k) \in active' <=> Spent(k) \in active
    BY KeyKinds DEF JudgesOnly
  <2> QED BY <2>1, BudgetsStay
<1>11. "credential_refresh_failed" \notin kinds => (CredentialTold => CredentialTold')
  BY KeyKinds, CredentialStays DEF JudgesOnly
<1>12. eval'.accts = eval.accts => (AccountsListed => AccountsListed')
  BY <1>1 DEF AccountsListed
<1> QED BY <1>3, <1>4, <1>5, <1>6, <1>7, <1>8, <1>9, <1>10, <1>11, <1>12

\* Nothing is judged by the steps between the sections.
LEMMA NothingJudged == active' = active => JudgesOnly({})
BY DEF JudgesOnly

\* The route that is judged is told, and the others are as they were.
LEMMA RouteIsTold ==
  ASSUME EvalInv, AccountsListed, RestToTell, JudgeRoute
  PROVE  RestToTell'
<1> DEFINE q == eval.todo
<1>1. PICK c : c = Head(q)
  OBVIOUS
<1>2. /\ LoopStep /\ eval'.todo = Tail(q) /\ q # << >> /\ q \in Seq(RouteIds)
      /\ \A key : key # Unavailable(c) => (key \in active' <=> key \in active)
      /\ Unavailable(c) \in active' <=> RouteModels[c] # {} /\ ~HasHealthyTarget(c, eval.accts)
  BY <1>1, RouteGoes DEF EvalInv, Goes
<1>3. routeOn' = routeOn /\ acctStatus' = acctStatus
  BY <1>2 DEF LoopStep, sourceVars
<1>4. RouteTold(c)'
  <2>1. RouteModels[c] # {} =>
          (Unavailable(c) \in active' <=>
             \A m \in RouteModels[c] : m \in DOMAIN ModelOwner =>
               \A a \in Accts : OwnerOf[a] = ModelOwner[m] => acctStatus[a] # "healthy")
    BY <1>2, NoHealthyTarget
  <2> QED BY <1>3, <2>1 DEF RouteTold, Unavailable
<1>5. ASSUME NEW r, r # c, RouteTold(r) PROVE RouteTold(r)'
  <2>1. Unavailable(r) # Unavailable(c)
    BY <1>5, KeyKinds
  <2> QED BY <1>2, <1>5, <2>1, RouteStays
<1>6. ASSUME NEW i \in 1..Len(q), q[i] # c PROVE \E j \in 1..Len(Tail(q)) : Tail(q)[j] = q[i]
  <2>1. /\ Len(q) \in Nat /\ Len(Tail(q)) = Len(q) - 1
        /\ \A j \in 1..Len(Tail(q)) : Tail(q)[j] = q[j + 1]
    BY <1>2, HeadTailProperties, LenProperties
  <2>2. Head(q) = q[1]
    BY <1>2
  <2>3. i # 1
    BY <1>1, <1>6, <2>2
  <2>4. i - 1 \in 1..Len(Tail(q)) /\ (i - 1) + 1 = i
    <3> HIDE DEF q
    <3> QED BY <2>1, <2>3
  <2>5. Tail(q)[i - 1] = q[i]
    BY <2>1, <2>4
  <2> QED BY <2>4, <2>5
<1>7. ASSUME NEW r \in routeOn PROVE RouteTold(r)' \/ \E i \in 1..Len(eval'.todo) : eval'.todo[i] = r
  <2>1. CASE r = c
    BY <1>4, <2>1
  <2>2. CASE r # c /\ RouteTold(r)
    BY <1>5, <2>2
  <2>3. CASE r # c /\ \E i \in 1..Len(q) : q[i] = r
    <3>1. PICK i \in 1..Len(q) : q[i] = r
      BY <2>3
    <3> QED BY <1>2, <1>6, <2>3, <3>1
  <2> QED BY <2>1, <2>2, <2>3 DEF RestToTell
<1> QED BY <1>3, <1>7 DEF RestToTell

\* When the routes are listed, all of them are to be judged.
LEMMA AllToTell ==
  ASSUME SourceInv, EvalInv, ListRoutes
  PROVE  RestToTell'
<1>1. routeOn' = routeOn /\ eval'.todo = SetToSeq(routeOn)
  BY ListGoes DEF Goes, LoopStep, sourceVars
<1>2. IsFiniteSet(routeOn)
  BY FS_Subset, AlertBounds DEF SourceInv
<1> QED BY <1>1, <1>2, SequenceOfSet DEF RestToTell

\* Each step of the evaluation tells what it is to tell and leaves the rest.
LEMMA SteadySteps ==
  ASSUME SourceInv, LoopInv, SteadyInv,
         \/ EvalBegin \/ QueryFails \/ JudgeUsage \/ JudgeAccounts \/ ListRoutes \/ JudgeRoute \/ RoutesDone
         \/ JudgeLatency \/ JudgeQueue \/ JudgeBackup \/ JudgeBudgets \/ JudgeCredential
  PROVE  SteadyInv'
<1>0. EvalInv /\ BreachInv /\ SentInv /\ credFails \in Nat
  BY DEF LoopInv, SourceInv
<1>1. CASE EvalBegin
  <2>1. eval'.at = "usage"
    BY <1>0, <1>1, BeginGoes DEF Goes
  <2> QED BY <2>1 DEF SteadyInv
<1>2. CASE QueryFails
  <2>1. steady' = FALSE
    BY <1>0, <1>2, FailureGoes
  <2> QED BY <2>1 DEF SteadyInv
<1> SUFFICES ASSUME steady, steady',
                    \/ JudgeUsage \/ JudgeAccounts \/ ListRoutes \/ JudgeRoute \/ RoutesDone
                    \/ JudgeLatency \/ JudgeQueue \/ JudgeBackup \/ JudgeBudgets \/ JudgeCredential
             PROVE  SteadyInv'
  <2>1. JudgeUsage \/ JudgeAccounts \/ ListRoutes \/ JudgeRoute \/ RoutesDone
        \/ JudgeLatency \/ JudgeQueue \/ JudgeBackup \/ JudgeBudgets \/ JudgeCredential => steady' = steady
    BY <1>0, UsageGoes, AccountsGo, ListGoes, RouteGoes, RoutesGo, LatencyGoes, QueueGoes, BackupGoes,
       BudgetsGo, CredentialGoes
  <2>2. ~steady' => SteadyInv'
    BY DEF SteadyInv
  <2> QED BY <1>1, <1>2, <2>1, <2>2
<1>3. CASE JudgeUsage
  <2>1. /\ eval.at = "usage" /\ eval'.at = "accounts" /\ LoopStep
        /\ Len(RecentUsage) >= MinRows =>
              /\ Fallback \in active' <=> HighFallback(RecentUsage)
              /\ Errors \in active' <=> HighErrors(RecentUsage)
    BY <1>0, <1>3, UsageGoes DEF Goes
  <2>2. RecentUsage' = RecentUsage
    BY <2>1 DEF LoopStep, queueVars, RecentUsage
  <2>3. UsageTold'
    BY <2>1, <2>2 DEF UsageTold, Fallback, Errors
  <2> QED BY <2>1, <2>3 DEF SteadyInv
<1>4. CASE JudgeAccounts
  <2>1. /\ eval.at = "accounts" /\ eval'.at = "routes" /\ LoopStep /\ JudgesOnly({"account_unhealthy"})
        /\ eval'.accts = [a \in {b \in Accts : acctStatus[b] # Deleted} |-> acctStatus[a]]
        /\ \A a \in Accts : acctStatus[a] # Deleted => (Unhealthy(a) \in active' <=> IsUnhealthy(acctStatus[a]))
    BY <1>0, <1>4, AccountsGo DEF Goes
  <2>2. acctStatus' = acctStatus
    BY <2>1 DEF LoopStep, sourceVars
  <2>3. AccountsTold' /\ AccountsListed'
    BY <2>1, <2>2 DEF AccountsTold, AccountsListed, Unhealthy, IsUnhealthy
  <2>4. UsageTold'
    BY <2>1, SectionsStay DEF SteadyInv
  <2> QED BY <2>1, <2>3, <2>4 DEF SteadyInv
<1>5. CASE ListRoutes
  <2>1. eval.at = "routes" /\ eval'.at = "route" /\ LoopStep /\ JudgesOnly({}) /\ eval'.accts = eval.accts
    BY <1>0, <1>5, ListGoes, NothingJudged DEF Goes
  <2>2. UsageTold' /\ AccountsTold' /\ AccountsListed'
    BY <2>1, SectionsStay DEF SteadyInv
  <2>3. RestToTell'
    BY <1>0, <1>5, AllToTell
  <2> QED BY <2>1, <2>2, <2>3 DEF SteadyInv
<1>6. CASE JudgeRoute
  <2>1. /\ eval.at = "route" /\ eval'.at = "route" /\ LoopStep /\ eval'.accts = eval.accts
        /\ \A key : key # Unavailable(Head(eval.todo)) => (key \in active' <=> key \in active)
    BY <1>0, <1>6, RouteGoes DEF Goes
  <2>2. JudgesOnly({"route_unavailable"})
    BY <2>1, KeyKinds DEF JudgesOnly
  <2>3. UsageTold' /\ AccountsTold' /\ AccountsListed'
    BY <2>1, <2>2, SectionsStay DEF SteadyInv
  <2>4. RestToTell'
    BY <1>0, <1>6, <2>1, RouteIsTold DEF SteadyInv
  <2> QED BY <2>1, <2>3, <2>4 DEF SteadyInv
<1>7. CASE RoutesDone
  <2>1. eval.at = "route" /\ eval'.at = "latency" /\ LoopStep /\ JudgesOnly({}) /\ eval.todo = << >>
    BY <1>0, <1>7, RoutesGo, NothingJudged DEF Goes
  <2>2. RoutesTold
    BY <2>1 DEF SteadyInv, RestToTell, RoutesTold
  <2>3. UsageTold' /\ AccountsTold' /\ RoutesTold'
    BY <2>1, <2>2, SectionsStay DEF SteadyInv
  <2> QED BY <2>1, <2>3 DEF SteadyInv
<1>8. CASE JudgeLatency
  <2>1. /\ eval.at = "latency" /\ eval'.at = "queue" /\ LoopStep /\ JudgesOnly({"high_added_latency"})
        /\ Slow \in active' <=> Breach /\ moment - breachSince' >= Sustain
    BY <1>0, <1>8, LatencyGoes DEF Goes
  <2>2. UsageTold' /\ AccountsTold' /\ RoutesTold'
    BY <2>1, SectionsStay DEF SteadyInv
  <2>3. (Breach' <=> Breach) /\ moment' = moment
    BY <2>1 DEF LoopStep, sourceVars, Breach
  <2>4. SlowTold'
    BY <2>1, <2>3 DEF SlowTold, Slow
  <2> QED BY <2>1, <2>2, <2>4 DEF SteadyInv
<1>9. CASE JudgeQueue
  <2>1. /\ eval.at = "queue" /\ eval'.at = "backup" /\ LoopStep /\ JudgesOnly({"usage_queue_saturated"})
        /\ Rests /\ (Full \in active' <=> Saturated)
    BY <1>0, <1>9, QueueGoes DEF Goes
  <2>2. UsageTold' /\ AccountsTold' /\ RoutesTold' /\ SlowTold'
    BY <2>1, SectionsStay DEF SteadyInv
  <2>3. FullTold'
    BY <2>1 DEF LoopStep, queueVars, FullTold, Saturated, AtLeast, Full
  <2> QED BY <2>1, <2>2, <2>3 DEF SteadyInv
<1>10. CASE JudgeBackup
  <2>1. /\ eval.at = "backup" /\ eval'.at = "budgets" /\ LoopStep /\ JudgesOnly({"backup_failed"})
        /\ Rests /\ (Backup \in active' <=> backupFailed)
    BY <1>0, <1>10, BackupGoes DEF Goes
  <2>2. UsageTold' /\ AccountsTold' /\ RoutesTold' /\ SlowTold' /\ FullTold'
    BY <2>1, SectionsStay DEF SteadyInv
  <2>3. BackupTold'
    BY <2>1 DEF LoopStep, sourceVars, BackupTold, Backup
  <2> QED BY <2>1, <2>2, <2>3 DEF SteadyInv
<1>11. CASE JudgeBudgets
  <2>1. /\ eval.at = "budgets" /\ eval'.at = "credential" /\ LoopStep /\ JudgesOnly({"key_budget"}) /\ Rests
        /\ \A k \in DOMAIN Budget : Budget[k] > 0 =>
             (Spent(k) \in active' <=> AtLeast(Spend(k, ThisMonth), Budget[k], 80))
    BY <1>0, <1>11, BudgetsGo DEF Goes
  <2>2. UsageTold' /\ AccountsTold' /\ RoutesTold' /\ SlowTold' /\ FullTold' /\ BackupTold'
    BY <2>1, SectionsStay DEF SteadyInv
  <2>3. ThisMonth' = ThisMonth
    BY <2>1 DEF LoopStep, queueVars, sourceVars, ThisMonth
  <2>4. \A k : Spend(k, ThisMonth') = Spend(k, ThisMonth)
    BY <2>3
  <2>5. BudgetsTold'
    BY <2>1, <2>3, <2>4 DEF BudgetsTold, Spent, AtLeast
  <2> QED BY <2>1, <2>2, <2>5 DEF SteadyInv
<1>12. CASE JudgeCredential
  <2>1. /\ eval.at = "credential" /\ eval'.at = "idle" /\ LoopStep /\ JudgesOnly({"credential_refresh_failed"})
        /\ Rests /\ (Credential \in active' <=> credFails > 0)
    BY <1>0, <1>12, CredentialGoes DEF Goes
  <2>2. /\ UsageTold' /\ AccountsTold' /\ RoutesTold' /\ SlowTold' /\ FullTold' /\ BackupTold'
        /\ BudgetsTold'
    BY <2>1, SectionsStay DEF SteadyInv
  <2>3. CredentialTold'
    BY <2>1 DEF LoopStep, sourceVars, CredentialTold, Credential
  <2> QED BY <2>1, <2>2, <2>3 DEF SteadyInv
<1> QED BY <1>3, <1>4, <1>5, <1>6, <1>7, <1>8, <1>9, <1>10, <1>11, <1>12

\* A step of the evaluation that judges neither latency nor credentials.
LEMMA LoopRests ==
  ASSUME LoopInv, LoopStep, Rests, alerted' = alerted, steady' \in BOOLEAN, EvalInv',
         NEW kinds, JudgesOnly(kinds), "high_added_latency" \notin kinds, "credential_refresh_failed" \notin kinds
  PROVE  LoopInv'
<1>1. (Slow \in active' <=> Slow \in active) /\ (Credential \in active' <=> Credential \in active)
  BY KeyKinds DEF JudgesOnly
<1>2. moment' = moment /\ breachSince' = breachSince /\ calm' = calm
  BY DEF LoopStep, Rests
<1>3. BreachInv'
  BY <1>1, <1>2 DEF LoopInv, BreachInv, Slow
<1>4. SentInv'
  BY <1>1 DEF LoopInv, SentInv, Credential
<1> QED BY <1>3, <1>4 DEF LoopInv

\* Wherever an evaluation goes, its list is one of routes.
LEMMA EvalGoes ==
  ASSUME EvalInv, NEW from, NEW to, Goes(from, to), eval'.todo \in Seq(RouteIds),
         to \in {"idle", "usage", "accounts", "routes", "route", "latency", "queue", "backup", "budgets",
                 "credential"}
  PROVE  EvalInv' /\ LoopStep
BY DEF EvalInv, Goes

\* The steps of the evaluation keep it in order.
LEMMA LoopKeeps ==
  ASSUME SourceInv, LoopInv,
         \/ EvalBegin \/ QueryFails \/ JudgeUsage \/ JudgeAccounts \/ ListRoutes \/ JudgeRoute \/ RoutesDone
         \/ JudgeLatency \/ JudgeQueue \/ JudgeBackup \/ JudgeBudgets \/ JudgeCredential
  PROVE  LoopInv' /\ LoopStep
<1>0. /\ EvalInv /\ BreachInv /\ SentInv /\ credFails \in Nat /\ steady \in BOOLEAN
      /\ eval.todo \in Seq(RouteIds) /\ << >> \in Seq(RouteIds)
  BY EmptySeq DEF LoopInv, SourceInv, SentInv, EvalInv
<1>1. CASE EvalBegin
  <2>1. EvalInv' /\ LoopStep /\ Rests /\ alerted' = alerted /\ JudgesOnly({}) /\ steady' = TRUE
    BY <1>0, <1>1, BeginGoes, EvalGoes, NothingJudged
  <2> QED BY <2>1, LoopRests
<1>2. CASE QueryFails
  <2>1. EvalInv' /\ LoopStep /\ Rests /\ alerted' = alerted /\ JudgesOnly({}) /\ steady' = FALSE
    BY <1>0, <1>2, FailureGoes, EvalGoes, NothingJudged
  <2> QED BY <2>1, LoopRests
<1>3. CASE JudgeUsage
  <2>1. /\ EvalInv' /\ LoopStep /\ Rests /\ alerted' = alerted /\ steady' \in BOOLEAN
        /\ JudgesOnly({"high_fallback_rate", "high_error_rate"})
    BY <1>0, <1>3, UsageGoes, EvalGoes
  <2> QED BY <2>1, LoopRests
<1>4. CASE JudgeAccounts
  <2>1. /\ EvalInv' /\ LoopStep /\ Rests /\ alerted' = alerted /\ steady' \in BOOLEAN
        /\ JudgesOnly({"account_unhealthy"})
    BY <1>0, <1>4, AccountsGo, EvalGoes
  <2> QED BY <2>1, LoopRests
<1>5. CASE ListRoutes
  <2>1. routeOn \subseteq RouteIds /\ IsFiniteSet(routeOn)
    BY FS_Subset, AlertBounds DEF SourceInv
  <2>2. SetToSeq(routeOn) \in Seq(RouteIds)
    BY <2>1, SequenceOfSet, SeqMonotonic
  <2>3. EvalInv' /\ LoopStep /\ Rests /\ alerted' = alerted /\ JudgesOnly({}) /\ steady' \in BOOLEAN
    BY <1>0, <1>5, <2>2, ListGoes, EvalGoes, NothingJudged
  <2> QED BY <2>3, LoopRests
<1>6. CASE JudgeRoute
  <2>1. Tail(eval.todo) \in Seq(RouteIds)
    BY <1>0, <1>6, RouteGoes, HeadTailProperties
  <2>2. JudgesOnly({"route_unavailable"})
    <3>1. \A key : key # Unavailable(Head(eval.todo)) => (key \in active' <=> key \in active)
      BY <1>0, <1>6, RouteGoes
    <3> QED BY <3>1, KeyKinds DEF JudgesOnly
  <2>3. EvalInv' /\ LoopStep /\ Rests /\ alerted' = alerted /\ steady' \in BOOLEAN
    BY <1>0, <1>6, <2>1, RouteGoes, EvalGoes
  <2> QED BY <2>2, <2>3, LoopRests
<1>7. CASE RoutesDone
  <2>1. EvalInv' /\ LoopStep /\ Rests /\ alerted' = alerted /\ JudgesOnly({}) /\ steady' \in BOOLEAN
    BY <1>0, <1>7, RoutesGo, EvalGoes, NothingJudged
  <2> QED BY <2>1, LoopRests
<1>8. CASE JudgeLatency
  <2>1. /\ EvalInv' /\ LoopStep /\ alerted' = alerted /\ steady' \in BOOLEAN
        /\ BreachInv' /\ JudgesOnly({"high_added_latency"})
    BY <1>0, <1>8, LatencyGoes, EvalGoes
  <2>2. Credential \in active' <=> Credential \in active
    BY <2>1, KeyKinds DEF JudgesOnly
  <2>3. SentInv'
    BY <1>0, <2>1, <2>2 DEF SentInv, Credential
  <2> QED BY <2>1, <2>3 DEF LoopInv
<1>9. CASE JudgeQueue
  <2>1. /\ EvalInv' /\ LoopStep /\ Rests /\ alerted' = alerted /\ steady' \in BOOLEAN
        /\ JudgesOnly({"usage_queue_saturated"})
    BY <1>0, <1>9, QueueGoes, EvalGoes
  <2> QED BY <2>1, LoopRests
<1>10. CASE JudgeBackup
  <2>1. /\ EvalInv' /\ LoopStep /\ Rests /\ alerted' = alerted /\ steady' \in BOOLEAN
        /\ JudgesOnly({"backup_failed"})
    BY <1>0, <1>10, BackupGoes, EvalGoes
  <2> QED BY <2>1, LoopRests
<1>11. CASE JudgeBudgets
  <2>1. /\ EvalInv' /\ LoopStep /\ Rests /\ alerted' = alerted /\ steady' \in BOOLEAN
        /\ JudgesOnly({"key_budget"})
    BY <1>0, <1>11, BudgetsGo, EvalGoes
  <2> QED BY <2>1, LoopRests
<1>12. CASE JudgeCredential
  <2>1. /\ EvalInv' /\ LoopStep /\ Rests /\ alerted' = (credFails > 0) /\ steady' \in BOOLEAN
        /\ JudgesOnly({"credential_refresh_failed"}) /\ (Credential \in active' <=> credFails > 0)
    BY <1>0, <1>12, CredentialGoes, EvalGoes
  <2>2. Slow \in active' <=> Slow \in active
    BY <2>1, KeyKinds DEF JudgesOnly
  <2>3. moment' = moment /\ breachSince' = breachSince /\ calm' = calm
    BY <2>1 DEF LoopStep, Rests
  <2>4. BreachInv'
    BY <1>0, <2>2, <2>3 DEF BreachInv, Slow
  <2>5. SentInv'
    <3>1. alerted' \in BOOLEAN /\ steady' \in BOOLEAN
      BY <2>1
    <3>2. alerted' => Credential \in active'
      BY <2>1
    <3> QED BY <3>1, <3>2 DEF SentInv, Credential
  <2> QED BY <2>1, <2>4, <2>5 DEF LoopInv
<1> QED BY <1>1, <1>2, <1>3, <1>4, <1>5, <1>6, <1>7, <1>8, <1>9, <1>10, <1>11, <1>12

\* While something else moves the evaluation does not, and is no longer steady.
LEMMA LoopWaits ==
  ASSUME LoopInv, UNCHANGED loopVars, steady' = FALSE, moment' = moment \/ MomentPasses
  PROVE  LoopInv' /\ SteadyInv'
<1>1. /\ breachSince' = breachSince /\ calm' = calm /\ active' = active /\ alerted' = alerted /\ eval' = eval
  BY DEF loopVars
<1>2. EvalInv' /\ SentInv' /\ SteadyInv'
  BY <1>1 DEF LoopInv, EvalInv, SentInv, SteadyInv, Credential
<1>3. moment' = moment \/ (moment' = moment + 1 /\ moment < MaxMoment)
  BY DEF MomentPasses
<1>4. BreachInv'
  <2>1. CASE moment' = moment
    BY <1>1, <2>1 DEF LoopInv, BreachInv, Slow
  <2>2. CASE moment' = moment + 1 /\ moment < MaxMoment
    <3>1. /\ moment' \in 0..MaxMoment /\ calm \in 0..moment'
          /\ breachSince \in calm..moment' \cup {NoTime}
      BY <2>2, AlertBounds DEF LoopInv, BreachInv
    <3>2. Slow \in active => breachSince # NoTime /\ moment' - breachSince >= Sustain
      BY <2>2, AlertBounds DEF LoopInv, BreachInv
    <3> QED BY <1>1, <3>1, <3>2 DEF BreachInv, Slow
  <2> QED BY <1>3, <2>1, <2>2
<1> QED BY <1>2, <1>4 DEF LoopInv

\* The inductive invariant.
AlertInv == QueueInv /\ SourceInv /\ LoopInv /\ SteadyInv

\* Nothing is queued and nothing fires at the start.
LEMMA AlertStart == AlertInit => AlertInv
<1> SUFFICES ASSUME AlertInit PROVE AlertInv
  OBVIOUS
<1> USE AlertBounds
<1>1. << >> \in Seq(LogRows) /\ << >> \in Seq(RouteIds) /\ Len(<< >>) = 0
  BY EmptySeq
<1>2. WorkerInv
  BY <1>1 DEF AlertInit, WorkerInv
<1>3. RowsInv
  BY <1>1 DEF AlertInit, RowsInv, RowsAreAccounted
<1>4. DepthInv
  <2>1. depth + sending = 0 /\ Channel + Batch - Uncounted = 0
    BY <1>1 DEF AlertInit, Channel, Batch, Uncounted
  <2>2. 0 = 0 + 0 * Depths
    OBVIOUS
  <2> QED BY <2>1, <2>2 DEF DepthInv, SameDepth
<1>5. SourceInv
  <2>1. acctStatus \in [Accts -> {"healthy", "cooldown", "exhausted", Deleted}]
    BY DEF AlertInit
  <2>2. samples \in Seq({0}) /\ Len(samples) <= MaxSamples
    BY <1>1 DEF AlertInit
  <2> QED BY <2>1, <2>2 DEF AlertInit, SourceInv
<1>6. LoopInv
  <2>1. EvalInv
    BY <1>1 DEF AlertInit, EvalInv
  <2>2. BreachInv
    BY DEF AlertInit, BreachInv
  <2>3. SentInv
    BY DEF AlertInit, SentInv
  <2> QED BY <2>1, <2>2, <2>3 DEF LoopInv
<1>7. SteadyInv
  BY DEF AlertInit, SteadyInv
<1> QED BY <1>2, <1>3, <1>4, <1>5, <1>6, <1>7 DEF AlertInv, QueueInv

\* The sources are the same when nobody changes them.
LEMMA SourcesRest ==
  SourceInv /\ UNCHANGED <<acctStatus, routeOn, backupFailed, credFails, samples>> => SourceInv'
BY DEF SourceInv

\* The invariant is kept by every step.
LEMMA AlertStep == AlertInv /\ [AlertNext]_alertVars => AlertInv'
<1> SUFFICES ASSUME AlertInv, [AlertNext]_alertVars PROVE AlertInv'
  OBVIOUS
<1>0. QueueInv /\ SourceInv /\ LoopInv /\ SteadyInv
  BY DEF AlertInv
<1>1. CASE \/ \E r \in LogRows : Enqueue(r)
           \/ CountUp \/ Receive \/ Drain \/ CountDown
           \/ \E ok \in BOOLEAN : Insert(ok)
  <2>1. QueueInv'
    BY <1>0, <1>1, EnqueueKeeps, CountUpKeeps, ReceiveKeeps, CountDownKeeps, InsertKeeps
  <2>2. UNCHANGED sourceVars /\ UNCHANGED loopVars /\ moment' = moment /\ steady' = FALSE
    BY <1>1 DEF Enqueue, CountUp, Receive, Drain, CountDown, Insert, RequestEnds, Occurs, Works
  <2>3. SourceInv'
    BY <1>0, <2>2, SourcesRest DEF sourceVars
  <2> QED BY <1>0, <2>1, <2>2, <2>3, LoopWaits DEF AlertInv
<1>2. CASE \/ MonthEnds
           \/ \E a \in Accts, s \in {"healthy", "cooldown", "exhausted", Deleted} : StatusChanges(a, s)
           \/ \E r \in RouteIds : RouteSwitched(r)
           \/ \E failed \in BOOLEAN : BackupEnds(failed)
           \/ \E ok \in BOOLEAN : CredentialResolved(ok)
           \/ \E ms \in Latencies : RecordLatency(ms)
  <2>1. SourceStep /\ SourceInv' /\ month' \in 0..Len(logged)
    BY <1>0, <1>2, SourceSteps
  <2>2. UNCHANGED queueVars /\ UNCHANGED loopVars /\ moment' = moment /\ Happens /\ steady' = FALSE
    BY <2>1 DEF SourceStep, Happens, Occurs
  <2>3. QueueInv'
    BY <1>0, <2>1, <2>2, QueueRests
  <2> QED BY <1>0, <2>1, <2>2, <2>3, LoopWaits DEF AlertInv
<1>3. CASE MomentPasses
  <2>1. /\ UNCHANGED queueVars /\ UNCHANGED sourceVars /\ UNCHANGED loopVars /\ steady' = FALSE
        /\ UNCHANGED <<events, ended>>
    BY <1>3 DEF MomentPasses, Works
  <2>2. QueueInv'
    BY <1>0, <2>1, QueueRests DEF sourceVars
  <2>3. SourceInv'
    BY <1>0, <2>1, SourcesRest DEF sourceVars
  <2> QED BY <1>0, <1>3, <2>1, <2>2, <2>3, LoopWaits DEF AlertInv
<1>4. CASE \/ EvalBegin \/ QueryFails \/ JudgeUsage \/ JudgeAccounts \/ ListRoutes \/ JudgeRoute \/ RoutesDone
           \/ JudgeLatency \/ JudgeQueue \/ JudgeBackup \/ JudgeBudgets \/ JudgeCredential
  <2>1. LoopInv' /\ LoopStep /\ SteadyInv'
    BY <1>0, <1>4, LoopKeeps, SteadySteps
  <2>2. QueueInv'
    BY <1>0, <2>1, QueueRests DEF LoopStep, sourceVars
  <2>3. SourceInv'
    BY <1>0, <2>1, SourcesRest DEF LoopStep, sourceVars
  <2> QED BY <2>1, <2>2, <2>3 DEF AlertInv
<1>5. CASE UNCHANGED alertVars
  <2>1. /\ UNCHANGED queueVars /\ UNCHANGED sourceVars /\ UNCHANGED loopVars
        /\ UNCHANGED <<moment, events, ended, steady>>
    BY <1>5 DEF alertVars
  <2>2. QueueInv'
    BY <1>0, <2>1, QueueRests DEF sourceVars
  <2>3. SourceInv'
    BY <1>0, <2>1, SourcesRest DEF sourceVars
  <2>4. LoopStep /\ Rests /\ JudgesOnly({}) /\ eval' = eval /\ alerted' = alerted /\ steady' = steady
    BY <2>1, NothingJudged DEF LoopStep, Rests, loopVars
  <2>5. LoopInv'
    BY <1>0, <2>4, LoopRests DEF LoopInv, EvalInv, SentInv
  <2>6. SteadyInv'
    BY <1>0, <2>4, SectionsStay DEF SteadyInv
  <2> QED BY <2>2, <2>3, <2>5, <2>6 DEF AlertInv
<1> QED BY <1>1, <1>2, <1>3, <1>4, <1>5, AlertSteps

\* What the invariant says of rows and alerts.
LEMMA AlertInvMeans == AlertInv => AlertingIsTrue
<1> SUFFICES ASSUME AlertInv PROVE AlertingIsTrue
  OBVIOUS
<1>0. QueueInv /\ SourceInv /\ LoopInv /\ SteadyInv
  BY DEF AlertInv
<1>1. AlertTypeOK
  <2>1. /\ events \in 0..MaxEvents /\ ended \in 0..events
        /\ waiting \in Seq(LogRows) /\ Len(waiting) <= Capacity
        /\ sending \in Nat /\ dropped \in Nat /\ depth \in 0..(Depths - 1)
        /\ logged \in Seq(LogRows) /\ month \in 0..Len(logged)
    BY <1>0 DEF QueueInv, RowsInv
  <2>2. /\ worker.at \in {"recv", "drain", "row", "insert"}
        /\ worker.batch \in Seq(LogRows) /\ Len(worker.batch) <= BatchSize
        /\ (worker.at = "recv") <=> (worker.batch = << >>)
    BY <1>0 DEF QueueInv, WorkerInv
  <2>3. moment \in 0..MaxMoment /\ calm \in 0..MaxMoment /\ breachSince \in 0..MaxMoment \cup {NoTime}
    BY <1>0, AlertBounds DEF LoopInv, BreachInv
  <2> QED BY <1>0, <2>1, <2>2, <2>3 DEF AlertTypeOK, SourceInv, LoopInv, SentInv, EvalInv
<1>2. DepthSettles
  <2>1. depth + sending \in Int /\ Channel + Batch - Uncounted \in Int
    BY <1>0, NumbersHold DEF QueueNumbers
  <2>2. Wrapped(depth + sending) = Wrapped(Channel + Batch - Uncounted)
    BY <1>0, <2>1, SameWraps DEF QueueInv, DepthInv
  <2> QED BY <2>2 DEF DepthSettles, Channel, Batch, Uncounted
<1>3. RowsAreAccounted
  BY <1>0 DEF QueueInv, RowsInv
<1>4. AlertsFollow
  <2> SUFFICES ASSUME eval.at = "idle", steady PROVE AlertsFollow
    BY DEF AlertsFollow
  <2>1. /\ UsageTold /\ AccountsTold /\ RoutesTold /\ SlowTold /\ FullTold /\ BackupTold /\ BudgetsTold
        /\ CredentialTold
    BY <1>0 DEF SteadyInv
  <2> QED BY <2>1 DEF AlertsFollow, UsageTold, AccountsTold, RoutesTold, RouteTold, SlowTold, FullTold,
                      BackupTold, BudgetsTold, CredentialTold, AtLeast
<1>5. LatencyIsSustained
  BY <1>0, AlertBounds DEF LatencyIsSustained, LoopInv, BreachInv
<1> QED BY <1>1, <1>2, <1>3, <1>4, <1>5 DEF AlertingIsTrue

\* Whatever the threads of the usage log, the sources and the evaluations do: each row of
\* a finished request is in one place or counted as dropped, the depth comes back to the
\* number of rows that wait, and after an evaluation during which nothing changed exactly
\* the alerts whose conditions hold are firing (logqueue.rs, alerts.rs).
THEOREM AlertingAlwaysTrue == AlertSpec => []AlertingIsTrue
<1>1. AlertSpec => []AlertInv
  BY AlertStart, AlertStep, PTL DEF AlertSpec
<1> QED BY <1>1, AlertInvMeans, PTL
=============================================================================
