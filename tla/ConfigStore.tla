----------------------------- MODULE ConfigStore -----------------------------
(***************************************************************************)
(* The administrator's side of the gateway: the configuration tables, the  *)
(* admin.rs handlers that edit them while other handlers are at work, the  *)
(* export and import of a configuration, the providers a plugin brings     *)
(* along, and the registry's snapshot that requests are routed by.         *)
(*                                                                         *)
(* No handler uses a transaction.  A handler is therefore the sequence of  *)
(* the SQL statements it has left, todo[h]: one step runs the first of     *)
(* them, a statement that depends on what was read puts others in front,   *)
(* and one that fails (a constraint, a row that is gone, a store that does *)
(* not answer, a caller that leaves) ends the handler where it is.         *)
(***************************************************************************)
EXTENDS Integers, Sequences, SequencesExt, FiniteSets, TLC

CONSTANTS
  Names,       \* names of providers
  NewNames,    \* of these, the ones an administrator gives
  Upstreams,   \* upstream model ids
  RouteNames,
  Aliases,     \* names of aliases
  Transports,  \* transport overrides an administrator sets
  AccountEdits,\* label, status and new key of an account
  TargetLists, \* lists of targets an administrator gives a route
  Seeds,       \* pairs: a configuration to start with, the one a document is of
  MaxProviders, MaxAccounts, MaxModels, MaxRoutes,  \* bounds on ids handed out
  MaxHandlers, \* bound on the handlers started
  None

Handlers == 1..MaxHandlers  \* numbered in the order they start

NoAuth == "__kinetix_noauth__"  \* label of the account a credential-free provider gets
Legacy == "public"              \* label (and mask) of such an account of an older release
Labels == {NoAuth, Legacy, "key"}
Modes == {"manual", "auth_flow", "none"}

ProviderRow == [name : Names, mode : Modes, bound : BOOLEAN]
AccountRow == [provider : 1..MaxProviders, label : Labels, disabled : BOOLEAN]
ModelRow == [provider : 1..MaxProviders, upstream : Upstreams, enabled : BOOLEAN,
             override : Transports \cup {None}, gone : BOOLEAN]
TargetRow == [account : 1..MaxAccounts \cup {None}, model : 1..MaxModels]
AliasRow == [type : {"model"}, id : 1..MaxModels] \cup [type : {"route"}, id : 1..MaxRoutes]

Live(table) == {i \in DOMAIN table : table[i] # None}

\* What the tables may hold, of rows of their types; a row that is gone is None.
Configs ==
  [providers : [1..MaxProviders -> ProviderRow \cup {None}],
   accounts : [1..MaxAccounts -> AccountRow \cup {None}],
   models : [1..MaxModels -> ModelRow \cup {None}],
   routes : [1..MaxRoutes -> RouteNames \cup {None}],
   targets : [1..MaxRoutes -> Seq(TargetRow)],
   aliases : [Aliases -> AliasRow \cup {None}]]

\* No row names one that is gone (the foreign keys of the schema).
Whole(b) ==
  /\ \A a \in Live(b.accounts) : b.providers[b.accounts[a].provider] # None
  /\ \A m \in Live(b.models) : b.providers[b.models[m].provider] # None
  /\ \A r \in DOMAIN b.targets : \A t \in Range(b.targets[r]) :
       /\ b.routes[r] # None /\ b.models[t.model] # None
       /\ t.account # None => b.accounts[t.account] # None

ModelKeys == Names \X Upstreams

\* An import's maps from names to ids.
Knowledge == [providers : [Names -> 1..MaxProviders \cup {None}],
              models : [ModelKeys -> 1..MaxModels \cup {None}]]

ASSUME ConfigAssumption ==
  /\ {MaxProviders, MaxAccounts, MaxModels, MaxRoutes, MaxHandlers} \subseteq Nat
  /\ NewNames \subseteq Names /\ Names # {} /\ IsFiniteSet(Aliases)
  /\ \A edit \in AccountEdits : edit.label \in Labels /\ {edit.disabled, edit.key} \subseteq BOOLEAN
  /\ TargetLists \subseteq Seq(TargetRow)
  /\ \A pair \in Seeds : {pair[1], pair[2]} \subseteq Configs /\ Whole(pair[1])
  /\ None \notin Nat \cup RouteNames \cup ModelKeys
  /\ None \notin Configs \cup Knowledge \cup ProviderRow \cup AccountRow \cup ModelRow \cup AliasRow

(***************************************************************************)
(* Column bound of a provider: its URL and bindings are those of the       *)
(* plugin's integration.  Column gone of a model: discovery flagged it as  *)
(* disappeared; override: configured_transport.                            *)
(***************************************************************************)
VARIABLES
  providers, accounts, models, routes, targets, aliases,  \* the tables
  made,    \* ids handed out, per table
  snap,    \* the registry's snapshot
  doc,     \* the last exported document
  todo,    \* [Handlers -> the statements that are left]
  last,    \* [Handlers -> the id of the last insert]
  known,   \* [Handlers -> an import's maps from names to ids]
  buf,     \* [Handlers -> rows read for a snapshot or an export]
  op,      \* [Handlers -> what it is doing]
  base,    \* history: the tables when it started, or None when another was at work
  given,   \* history: the override the administrator last gave each model
  starts

tables == <<providers, accounts, models, routes, targets, aliases>>
local == <<last, known, buf>>
seen == <<op, base, starts>>
configVars == <<tables, made, snap, doc, todo, local, seen, given>>

Config == [providers |-> providers, accounts |-> accounts, models |-> models,
           routes |-> routes, targets |-> targets, aliases |-> aliases]

-----------------------------------------------------------------------------
(* The registry. *)

(***************************************************************************)
(* The rows of a snapshot made of the rows b: a provider with credentials  *)
(* is not served with the synthetic account, and one without with no       *)
(* other.                                                                  *)
(***************************************************************************)
Allowed(b, a) ==
  LET p == b.accounts[a].provider IN
    /\ b.providers[p] # None
    /\ (b.providers[p].mode = "none") <=> (b.accounts[a].label = NoAuth)

Snapshot(b) ==
  [b EXCEPT !.accounts = [a \in DOMAIN b.accounts |->
     IF b.accounts[a] # None /\ Allowed(b, a) THEN b.accounts[a] ELSE None]]

Pool(s, m) == {a \in Live(s.accounts) : s.accounts[a].provider = s.models[m].provider}

(* A pinned account that is not checked to be the provider's. *)
BuildRoute_bug(s, r) ==
  UNION {{[account |-> a, model |-> t.model] :
            a \in IF t.account = None THEN Pool(s, t.model) ELSE {t.account} \cap Live(s.accounts)} :
         t \in {t \in Range(s.targets[r]) :
                  /\ s.models[t.model] # None
                  /\ s.models[t.model].enabled
                  /\ s.providers[s.models[t.model].provider] # None}}

(* The targets of route r: each model with its pinned account, or with all. *)
BuildRoute(s, r) ==
  UNION {{[account |-> a, model |-> t.model] :
            a \in {a \in Pool(s, t.model) : t.account # None => t.account = a}} :
         t \in {t \in Range(s.targets[r]) :
                  /\ s.models[t.model] # None
                  /\ s.models[t.model].enabled
                  /\ s.providers[s.models[t.model].provider] # None}}

(* The routes of the given ids that have a target. *)
Routed(s, ids) == {BuildRoute(s, r) : r \in ids \cap Live(s.routes)} \ {{}}

(* The enabled ones of the given models, each with its provider's accounts. *)
Single(s, ids) ==
  {{[account |-> a, model |-> m] : a \in Pool(s, m)} :
     m \in {m \in ids \cap Live(s.models) : s.models[m].enabled}}

(***************************************************************************)
(* The sets of targets that a client's model name can resolve to: by an    *)
(* alias, else by a route's name, else by a provider's and a model's name, *)
(* else by a bare upstream id.  The maps of the snapshot have no order, so *)
(* several sets may be possible.  A name is <<None, n>>, or <<p, n>> when it *)
(* reads p/n.                                                              *)
(***************************************************************************)
Resolve(s, name) ==
  LET requested == IF name[1] = None THEN name[2] ELSE None
      alias == IF requested \in Aliases THEN s.aliases[requested] ELSE None
      byAlias == IF alias = None THEN {}
                 ELSE IF alias.type = "route" THEN Routed(s, {alias.id})
                 ELSE Single(s, {alias.id})
      byRoute == Routed(s, {r \in Live(s.routes) : s.routes[r] = requested})
      byPair == Single(s, {m \in Live(s.models) :
                  \E p \in Live(s.providers) :
                    /\ s.models[m].provider = p
                    /\ <<s.providers[p].name, s.models[m].upstream>> = name})
      byUpstream == Single(s, {m \in Live(s.models) : s.models[m].upstream = requested})
  IN  IF byAlias # {} THEN byAlias
      ELSE IF byRoute # {} THEN byRoute
      ELSE IF byPair # {} THEN byPair ELSE byUpstream

-----------------------------------------------------------------------------
(* Statements and handlers. *)

New == 0  \* stands for the id of the handler's last insert

Stmt(do, id, row) == [do |-> do, id |-> id, row |-> row]

Run(do) == Stmt(do, None, None)

Id(h, id) == IF id = New THEN last[h] ELSE id

IsNext(h, do) == todo[h] # <<>> /\ Head(todo[h]).do = do

Done(h) == todo' = [todo EXCEPT ![h] = Tail(@)]

Expand(h, stmts) == todo' = [todo EXCEPT ![h] = stmts \o Tail(@)]

Reloading == <<Run("read_providers"), Run("read_accounts"), Run("read_models"),
            Run("read_aliases"), Run("read_routes"), Run("store")>>

Busy(h) == op[h] # "idle"

(* A handler starts: it shares the store with the ones that are at work. *)
Start(h, what, stmts) ==
  /\ h = starts + 1
  /\ starts' = h
  /\ todo' = [todo EXCEPT ![h] = stmts]
  /\ op' = [op EXCEPT ![h] = what]
  /\ base' = [g \in Handlers |->
                IF g = h /\ (\A k \in Handlers \ {h} : ~Busy(k)) THEN Config ELSE None]
  /\ UNCHANGED <<tables, made, snap, doc, local, given>>

End(h) ==
  /\ todo' = [todo EXCEPT ![h] = <<>>]
  /\ op' = [op EXCEPT ![h] = "idle"]
  /\ base' = [base EXCEPT ![h] = None]
  /\ last' = [last EXCEPT ![h] = None]
  /\ known' = [known EXCEPT ![h] = None]
  /\ buf' = [buf EXCEPT ![h] = None]
  /\ UNCHANGED <<tables, made, snap, doc, given, starts>>

(* Every statement has succeeded: the handler is about to answer 200. *)
Succeeds(h) == Busy(h) /\ todo[h] = <<>>

Return(h) == Succeeds(h) /\ End(h)

(* The store does not answer, or the caller has gone. *)
HandlerDropped(h) == todo[h] # <<>> /\ End(h)

(* UNIQUE(provider_id, upstream_id) *)
Taken(p, upstream) ==
  \E m \in Live(models) : models[m].provider = p /\ models[m].upstream = upstream

(***************************************************************************)
(* Whether a statement succeeds: the constraints of the schema, and the    *)
(* rows the handler insists on.                                            *)
(***************************************************************************)
Satisfied(h, s) ==
  CASE s.do = "insert_account" -> Id(h, s.row.provider) \in Live(providers)
    [] s.do = "insert_model" -> /\ s.row.provider \in Live(providers)
                                /\ ~Taken(s.row.provider, s.row.upstream)
    [] s.do = "insert_route" -> \A r \in Live(routes) : routes[r] # s.row
    [] s.do = "insert_route_target" -> /\ Id(h, s.id) \in Live(routes)
                                       /\ s.row.model \in Live(models)
                                       /\ s.row.account # None => s.row.account \in Live(accounts)
    [] s.do = "manual_only" -> /\ s.id \in Live(accounts)
                               /\ providers[accounts[s.id].provider].mode = "manual"
    [] s.do = "insert_alias" -> aliases[s.id] = None
    [] s.do = "import_provider" ->
         LET p == known[h].providers[s.row.name] IN p # None => p \in Live(providers)
    [] s.do = "import_account" ->
         LET p == known[h].providers[s.row.provider] IN p # None => p \in Live(providers)
    [] OTHER -> TRUE

Ready(h, do) == IsNext(h, do) /\ Satisfied(h, Head(todo[h]))

(***************************************************************************)
(* A constraint fails or a row is gone: the handler returns the error.     *)
(* Only the provisioning of a new provider logs it and reloads.            *)
(***************************************************************************)
StatementFails(h) ==
  /\ todo[h] # <<>> /\ ~Satisfied(h, Head(todo[h]))
  /\ IF op[h] = "auto_provision" /\ last[h] # None
     THEN /\ todo' = [todo EXCEPT ![h] = Reloading]
          /\ UNCHANGED <<tables, made, snap, doc, local, seen, given>>
     ELSE End(h)

-----------------------------------------------------------------------------
(* The statements of db.rs. *)

InsertProvider(h) ==
  LET p == made.providers + 1 IN
  /\ Ready(h, "insert_provider") /\ p <= MaxProviders
  /\ made' = [made EXCEPT !.providers = p]
  /\ providers' = [providers EXCEPT ![p] = Head(todo[h]).row]
  /\ last' = [last EXCEPT ![h] = p]
  /\ known' = IF known[h] = None THEN known
              ELSE [known EXCEPT ![h].providers[Head(todo[h]).row.name] = p]
  /\ Done(h)
  /\ UNCHANGED <<accounts, models, routes, targets, aliases, snap, doc, buf, seen, given>>

(* An update of a row that is gone changes nothing and succeeds. The name stands   *)
(* for the columns that the one statement writes: its URL and bindings, too.        *)
UpdateProvider(h) ==
  LET p == Head(todo[h]).id IN
  /\ Ready(h, "update_provider")
  /\ providers' = [providers EXCEPT ![p] =
                     IF @ = None THEN None ELSE [@ EXCEPT !.name = Head(todo[h]).row]]
  /\ Done(h)
  /\ UNCHANGED <<accounts, models, routes, targets, aliases, made, snap, doc, local, seen, given>>

UpdateSemantics(h) ==
  LET p == Id(h, Head(todo[h]).id) IN
  /\ Ready(h, "update_provider_credential_semantics")
  /\ providers' = [providers EXCEPT ![p] =
                     IF @ = None THEN None ELSE [@ EXCEPT !.mode = Head(todo[h]).row]]
  /\ Done(h)
  /\ UNCHANGED <<accounts, models, routes, targets, aliases, made, snap, doc, local, seen, given>>

(* The elements of s that are in R, in their order. *)
Kept(s, R) ==
  LET at == {i \in DOMAIN s : s[i] \in R}
      nth(n) == CHOOSE i \in at : Cardinality({j \in at : j <= i}) = n
  IN  [n \in 1..Cardinality(at) |-> s[nth(n)]]

(* ON DELETE CASCADE: the targets that name a deleted account or model go. *)
Cascade(gone, unserved) ==
  /\ accounts' = [a \in DOMAIN accounts |-> IF a \in gone THEN None ELSE accounts[a]]
  /\ models' = [m \in DOMAIN models |-> IF m \in unserved THEN None ELSE models[m]]
  /\ targets' = [r \in DOMAIN targets |->
       Kept(targets[r], {t \in Range(targets[r]) : t.account \notin gone /\ t.model \notin unserved})]

DeleteProvider(h) ==
  LET p == Head(todo[h]).id IN
  /\ Ready(h, "delete_provider")
  /\ providers' = [providers EXCEPT ![p] = None]
  /\ Cascade({a \in Live(accounts) : accounts[a].provider = p},
             {m \in Live(models) : models[m].provider = p})
  /\ Done(h)
  /\ UNCHANGED <<routes, aliases, made, snap, doc, local, seen, given>>

InsertAccountRow(h) ==
  LET a == made.accounts + 1
      row == Head(todo[h]).row IN
  /\ Ready(h, "insert_account") /\ a <= MaxAccounts
  /\ made' = [made EXCEPT !.accounts = a]
  /\ accounts' = [accounts EXCEPT ![a] = [provider |-> Id(h, row.provider), label |-> row.label,
                                          disabled |-> row.disabled]]
  /\ Done(h)
  /\ UNCHANGED <<providers, models, routes, targets, aliases, snap, doc, local, seen, given>>

UpdateAccountRow(h) ==
  LET s == Head(todo[h]) IN
  /\ Ready(h, "update_account")
  /\ accounts' = [accounts EXCEPT ![s.id] =
       IF @ = None THEN None
       ELSE [@ EXCEPT !.label = s.row.label, !.disabled = s.row.disabled]]
  /\ Done(h)
  /\ UNCHANGED <<providers, models, routes, targets, aliases, made, snap, doc, local, seen, given>>

(* The credential of a manual account is replaced; nothing modelled changes. *)
RotateKey(h) ==
  /\ Ready(h, "manual_only")
  /\ Done(h)
  /\ UNCHANGED <<tables, made, snap, doc, local, seen, given>>

DeleteAccount(h) ==
  /\ Ready(h, "delete_account")
  /\ Cascade({Head(todo[h]).id}, {})
  /\ Done(h)
  /\ UNCHANGED <<providers, routes, aliases, made, snap, doc, local, seen, given>>

InsertModel(h) ==
  LET m == made.models + 1
      row == Head(todo[h]).row IN
  /\ Ready(h, "insert_model") /\ m <= MaxModels
  /\ made' = [made EXCEPT !.models = m]
  /\ models' = [models EXCEPT ![m] = row]
  /\ given' = [given EXCEPT ![m] = row.override]
  /\ last' = [last EXCEPT ![h] = m]
  /\ known' = IF known[h] = None THEN known
              ELSE [known EXCEPT ![h].models[<<Head(todo[h]).id, row.upstream>>] = m]
  /\ Done(h)
  /\ UNCHANGED <<providers, accounts, routes, targets, aliases, snap, doc, buf, seen>>

UpdateModel(h) ==
  LET s == Head(todo[h]) IN
  /\ Ready(h, "update_model")
  /\ models' = [models EXCEPT ![s.id] =
       IF @ = None THEN None ELSE [@ EXCEPT !.enabled = s.row]]
  /\ Done(h)
  /\ UNCHANGED <<providers, accounts, routes, targets, aliases, made, snap, doc, local, seen, given>>

SetOverride(h) ==
  LET s == Head(todo[h])
      m == Id(h, s.id) IN
  /\ Ready(h, "set_model_transport_override")
  /\ models' = [models EXCEPT ![m] = IF @ = None THEN None ELSE [@ EXCEPT !.override = s.row]]
  /\ given' = [given EXCEPT ![m] = s.row]
  /\ Done(h)
  /\ UNCHANGED <<providers, accounts, routes, targets, aliases, made, snap, doc, local, seen>>

(* The row that was read when the discovery started is written back. *)
MergeDiscovery_bug(h) ==
  LET s == Head(todo[h]) IN
  /\ Ready(h, "merge_model_discovery")
  /\ models' = [models EXCEPT ![s.id] =
       IF @ = None THEN None ELSE [s.row.old EXCEPT !.gone = s.row.gone]]
  /\ Done(h)
  /\ UNCHANGED <<providers, accounts, routes, targets, aliases, made, snap, doc, local, seen, given>>

(* What was observed goes into the row that is there now. *)
MergeDiscovery(h) ==
  LET s == Head(todo[h]) IN
  /\ Ready(h, "merge_model_discovery")
  /\ models' = [models EXCEPT ![s.id] =
       IF @ = None THEN None ELSE [@ EXCEPT !.gone = s.row.gone]]
  /\ Done(h)
  /\ UNCHANGED <<providers, accounts, routes, targets, aliases, made, snap, doc, local, seen, given>>

(* A delete that leaves the targets of the model behind. *)
DeleteModel_bug(h) ==
  /\ Ready(h, "delete_model")
  /\ models' = [models EXCEPT ![Head(todo[h]).id] = None]
  /\ Done(h)
  /\ UNCHANGED <<providers, accounts, targets, routes, aliases, made, snap, doc, local, seen, given>>

DeleteModel(h) ==
  /\ Ready(h, "delete_model")
  /\ Cascade({}, {Head(todo[h]).id})
  /\ Done(h)
  /\ UNCHANGED <<providers, routes, aliases, made, snap, doc, local, seen, given>>

InsertRoute(h) ==
  LET r == made.routes + 1 IN
  /\ Ready(h, "insert_route") /\ r <= MaxRoutes
  /\ made' = [made EXCEPT !.routes = r]
  /\ routes' = [routes EXCEPT ![r] = Head(todo[h]).row]
  /\ last' = [last EXCEPT ![h] = r]
  /\ Done(h)
  /\ UNCHANGED <<providers, accounts, models, targets, aliases, snap, doc, known, buf, seen, given>>

(* Rows of one priority have no order of their own: a new row goes last. *)
InsertTarget(h) ==
  LET s == Head(todo[h]) IN
  /\ Ready(h, "insert_route_target")
  /\ targets' = [targets EXCEPT ![Id(h, s.id)] = Append(@, s.row)]
  /\ Done(h)
  /\ UNCHANGED <<providers, accounts, models, routes, aliases, made, snap, doc, local, seen, given>>

ClearTargets(h) ==
  /\ Ready(h, "clear_route_targets")
  /\ targets' = [targets EXCEPT ![Head(todo[h]).id] = <<>>]
  /\ Done(h)
  /\ UNCHANGED <<providers, accounts, models, routes, aliases, made, snap, doc, local, seen, given>>

DeleteRoute(h) ==
  LET r == Head(todo[h]).id IN
  /\ Ready(h, "delete_route")
  /\ routes' = [routes EXCEPT ![r] = None]
  /\ targets' = [targets EXCEPT ![r] = <<>>]
  /\ Done(h)
  /\ UNCHANGED <<providers, accounts, models, aliases, made, snap, doc, local, seen, given>>

(* The alias is looked up, then updated or inserted. *)
UpsertAlias(h) ==
  LET s == Head(todo[h]) IN
  /\ Ready(h, "upsert_alias")
  /\ Expand(h, <<Stmt(IF aliases[s.id] # None THEN "update_alias" ELSE "insert_alias", s.id, s.row)>>)
  /\ UNCHANGED <<tables, made, snap, doc, local, seen, given>>

WriteAlias(h) ==
  LET s == Head(todo[h]) IN
  /\ Ready(h, "update_alias") \/ Ready(h, "insert_alias")
  /\ aliases' = [aliases EXCEPT ![s.id] =
       IF s.do = "update_alias" /\ @ = None THEN None ELSE s.row]
  /\ Done(h)
  /\ UNCHANGED <<providers, accounts, models, routes, targets, made, snap, doc, local, seen, given>>

DeleteAlias(h) ==
  /\ Ready(h, "delete_alias")
  /\ aliases' = [aliases EXCEPT ![Head(todo[h]).id] = None]
  /\ Done(h)
  /\ UNCHANGED <<providers, accounts, models, routes, targets, made, snap, doc, local, seen, given>>

-----------------------------------------------------------------------------
(* Reading the tables, one query after the other. *)

EmptyConfig ==
  [providers |-> [p \in 1..MaxProviders |-> None], accounts |-> [a \in 1..MaxAccounts |-> None],
   models |-> [m \in 1..MaxModels |-> None], routes |-> [r \in 1..MaxRoutes |-> None],
   targets |-> [r \in 1..MaxRoutes |-> <<>>], aliases |-> [n \in Aliases |-> None]]

Filled(h) == IF buf[h] = None THEN EmptyConfig ELSE buf[h]

ReadInto(h, do, rows) ==
  /\ Ready(h, do)
  /\ buf' = [buf EXCEPT ![h] = rows]
  /\ Done(h)
  /\ UNCHANGED <<tables, made, snap, doc, last, known, seen, given>>

ReadProviders(h) == ReadInto(h, "read_providers", [Filled(h) EXCEPT !.providers = providers])
ReadAccounts(h) == ReadInto(h, "read_accounts", [Filled(h) EXCEPT !.accounts = accounts])
ReadModels(h) == ReadInto(h, "read_models", [Filled(h) EXCEPT !.models = models])
ReadAliases(h) == ReadInto(h, "read_aliases", [Filled(h) EXCEPT !.aliases = aliases])

(* The routes, and then the targets of each of them. *)
ReadRoutes(h) ==
  /\ Ready(h, "read_routes")
  /\ buf' = [buf EXCEPT ![h] = [Filled(h) EXCEPT !.routes = routes]]
  /\ Expand(h, [i \in 1..Cardinality(Live(routes)) |->
                  Stmt("read_targets", SetToSeq(Live(routes))[i], None)])
  /\ UNCHANGED <<tables, made, snap, doc, last, known, seen, given>>

ReadTargets(h) ==
  ReadInto(h, "read_targets",
           [Filled(h) EXCEPT !.targets[Head(todo[h]).id] = targets[Head(todo[h]).id]])

Store(h) ==
  /\ Ready(h, "store")
  /\ snap' = Snapshot(Filled(h))
  /\ buf' = [buf EXCEPT ![h] = None]
  /\ Done(h)
  /\ UNCHANGED <<tables, made, doc, last, known, seen, given>>

-----------------------------------------------------------------------------
(* Credential modes and the accounts that go with them. *)

Synthetic == {NoAuth, Legacy}

AccountsOf(p, labels) == {a \in Live(accounts) : accounts[a].provider = p /\ accounts[a].label \in labels}

NoAuthRow(p) == [provider |-> p, label |-> NoAuth, disabled |-> FALSE]

(* The accounts are deleted before the targets are unpinned from them. *)
Reconciliation_bug(p, mode) ==
  IF mode = "none"
  THEN IF \E a \in AccountsOf(p, Synthetic) : AccountsOf(p, Labels) = {a}
       THEN <<Stmt("reset_noauth", p, AccountsOf(p, Synthetic))>>
       ELSE <<Stmt("delete_accounts", p, Labels), Stmt("unpin", p, Labels),
              Stmt("insert_account", None, NoAuthRow(p))>>
  ELSE <<Stmt("delete_accounts", p, Synthetic), Stmt("unpin", p, Synthetic)>>

Reconciliation(p, mode) ==
  IF mode = "none"
  THEN IF \E a \in AccountsOf(p, Synthetic) : AccountsOf(p, Labels) = {a}
       THEN <<Stmt("reset_noauth", p, AccountsOf(p, Synthetic))>>
       ELSE <<Stmt("unpin", p, Labels), Stmt("delete_accounts", p, Labels),
              Stmt("insert_account", None, NoAuthRow(p))>>
  ELSE <<Stmt("unpin", p, Synthetic), Stmt("delete_accounts", p, Synthetic)>>

Reconcile(h) ==
  /\ Ready(h, "reconcile")
  /\ Expand(h, Reconciliation(Id(h, Head(todo[h]).id), Head(todo[h]).row))
  /\ UNCHANGED <<tables, made, snap, doc, local, seen, given>>

ResetNoAuth(h) ==
  LET s == Head(todo[h]) IN
  /\ Ready(h, "reset_noauth")
  /\ accounts' = [a \in DOMAIN accounts |->
       IF a \in s.row \cap Live(accounts) THEN NoAuthRow(accounts[a].provider) ELSE accounts[a]]
  /\ Done(h)
  /\ UNCHANGED <<providers, models, routes, targets, aliases, made, snap, doc, local, seen, given>>

Unpin(h) ==
  LET s == Head(todo[h])
      gone == AccountsOf(s.id, s.row) IN
  /\ Ready(h, "unpin")
  /\ targets' = [r \in DOMAIN targets |-> [i \in DOMAIN targets[r] |->
       IF targets[r][i].account \in gone THEN [targets[r][i] EXCEPT !.account = None]
       ELSE targets[r][i]]]
  /\ Done(h)
  /\ UNCHANGED <<providers, accounts, models, routes, aliases, made, snap, doc, local, seen, given>>

DeleteAccounts(h) ==
  LET s == Head(todo[h]) IN
  /\ Ready(h, "delete_accounts")
  /\ Cascade(AccountsOf(s.id, s.row), {})
  /\ Done(h)
  /\ UNCHANGED <<providers, routes, aliases, made, snap, doc, local, seen, given>>

(* The provider of a plugin's integration: the one with its bindings, or a new one. *)
Provision(h) ==
  LET mode == Head(todo[h]).row
      own == {p \in Live(providers) : providers[p].bound}
      p == IF own = {} THEN New ELSE Min(own) IN
  /\ Ready(h, "provision")
  /\ Expand(h,
       (IF own = {}
        THEN <<Stmt("insert_provider", None,
                    [name |-> CHOOSE n \in Names : TRUE, mode |-> mode, bound |-> TRUE])>>
        ELSE <<>>)
       \o <<Stmt("update_provider_credential_semantics", p, mode), Stmt("reconcile", p, mode)>>)
  /\ UNCHANGED <<tables, made, snap, doc, local, seen, given>>

-----------------------------------------------------------------------------
(* Export and import. *)

(***************************************************************************)
(* The document of the rows b.  It names providers, models and routes; the *)
(* account of a target keeps its id.  A disabled account is not exported.  *)
(***************************************************************************)
ModelKey(b, m) ==
  IF m \in Live(b.models) /\ b.providers[b.models[m].provider] # None
  THEN <<b.providers[b.models[m].provider].name, b.models[m].upstream>> ELSE None

Export(b) ==
  [providers |-> {[name |-> b.providers[p].name, mode |-> b.providers[p].mode,
                   bound |-> b.providers[p].bound] : p \in Live(b.providers)},
   accounts |-> {[provider |-> b.providers[b.accounts[a].provider].name,
                  label |-> b.accounts[a].label] :
                   a \in {a \in Live(b.accounts) : /\ b.providers[b.accounts[a].provider] # None
                                                  /\ b.accounts[a].label # NoAuth
                                                  /\ ~b.accounts[a].disabled}},
   models |-> {[key |-> ModelKey(b, m), enabled |-> b.models[m].enabled,
                override |-> b.models[m].override] :
                 m \in {m \in Live(b.models) : ModelKey(b, m) # None}},
   routes |-> {[name |-> b.routes[r],
                targets |-> [i \in DOMAIN b.targets[r] |->
                   [account |-> b.targets[r][i].account, key |-> ModelKey(b, b.targets[r][i].model)]]] :
                 r \in Live(b.routes)},
   aliases |-> {[alias |-> n, type |-> b.aliases[n].type,
                 target |-> IF b.aliases[n].type = "model" THEN ModelKey(b, b.aliases[n].id)
                            ELSE b.routes[b.aliases[n].id]] : n \in Live(b.aliases)}]

ExportDone(h) ==
  /\ Ready(h, "export_done")
  /\ doc' = Export(Filled(h))
  /\ Done(h)
  /\ UNCHANGED <<tables, made, snap, local, seen, given>>

Entries(do, rows) == [i \in 1..Cardinality(rows) |-> Stmt(do, None, SetToSeq(rows)[i])]

(* The statements that apply a document. *)
Import(d) ==
  <<Run("import_begin")>> \o Entries("import_provider", d.providers)
  \o Entries("import_account", d.accounts)
  \o <<Run("import_models")>> \o Entries("import_model", d.models)
  \o Entries("import_route", d.routes) \o Entries("import_alias", d.aliases) \o Reloading

(* Of rows with one name the last one counts. *)
LastOf(ids) == IF ids = {} THEN None ELSE Max(ids)

ImportBegin(h) ==
  /\ Ready(h, "import_begin")
  /\ known' = [known EXCEPT ![h] =
       [providers |-> [n \in Names |-> LastOf({p \in Live(providers) : providers[p].name = n})],
        models |-> [k \in ModelKeys |-> None]]]
  /\ Done(h)
  /\ UNCHANGED <<tables, made, snap, doc, last, buf, seen, given>>

ImportProvider(h) ==
  LET row == Head(todo[h]).row
      p == known[h].providers[row.name] IN
  /\ Ready(h, "import_provider")
  /\ Expand(h, IF p # None
       THEN <<Stmt("update_provider", p, row.name),
              Stmt("update_provider_credential_semantics", p, row.mode),
              Stmt("reconcile", p, row.mode)>>
       ELSE <<Stmt("insert_provider", None, row), Stmt("reconcile", New, row.mode)>>)
  /\ UNCHANGED <<tables, made, snap, doc, local, seen, given>>

(* An account that exists is added again. *)
ImportAccount_bug(h) ==
  LET row == Head(todo[h]).row
      p == known[h].providers[row.provider]
      skip == p = None \/ providers[p].mode = "none" \/ row.label = NoAuth IN
  /\ Ready(h, "import_account")
  /\ Expand(h, IF skip THEN <<>>
               ELSE <<Stmt("insert_account", None,
                           [provider |-> p, label |-> row.label, disabled |-> FALSE])>>)
  /\ UNCHANGED <<tables, made, snap, doc, local, seen, given>>

(* An account is only added: never to a credential-free provider, never over another. *)
ImportAccount(h) ==
  LET row == Head(todo[h]).row
      p == known[h].providers[row.provider]
      skip == \/ p = None
              \/ providers[p].mode = "none" \/ row.label = NoAuth
              \/ \E a \in AccountsOf(p, {row.label}) : ~accounts[a].disabled IN
  /\ Ready(h, "import_account")
  /\ Expand(h, IF skip THEN <<>>
               ELSE <<Stmt("insert_account", None,
                           [provider |-> p, label |-> row.label, disabled |-> FALSE])>>)
  /\ UNCHANGED <<tables, made, snap, doc, local, seen, given>>

ImportModels(h) ==
  /\ Ready(h, "import_models")
  /\ known' = [known EXCEPT ![h].models =
       [k \in ModelKeys |-> LastOf({m \in Live(models) : ModelKey(Config, m) = k})]]
  /\ Done(h)
  /\ UNCHANGED <<tables, made, snap, doc, last, buf, seen, given>>

ImportModel(h) ==
  LET row == Head(todo[h]).row
      p == known[h].providers[row.key[1]]
      m == known[h].models[row.key] IN
  /\ Ready(h, "import_model")
  /\ Expand(h, IF p = None THEN <<>>
       ELSE IF m # None
       THEN <<Stmt("update_model", m, row.enabled),
              Stmt("set_model_transport_override", m, row.override)>>
       ELSE <<Stmt("insert_model", row.key[1],
                   [provider |-> p, upstream |-> row.key[2], enabled |-> row.enabled,
                    override |-> None, gone |-> FALSE]),
              Stmt("set_model_transport_override", New, row.override)>>)
  /\ UNCHANGED <<tables, made, snap, doc, local, seen, given>>

InsertTargets(r, rows) == [i \in 1..Len(rows) |-> Stmt("insert_route_target", r, rows[i])]

(* Targets of models that are not known are left out. *)
ImportRoute(h) ==
  LET row == Head(todo[h]).row
      usable == Kept(row.targets, {t \in Range(row.targets) :
                                     t.key # None /\ known[h].models[t.key] # None})
      rows == [i \in 1..Len(usable) |->
                 [account |-> usable[i].account, model |-> known[h].models[usable[i].key]]]
      same == {r \in Live(routes) : routes[r] = row.name} IN
  /\ Ready(h, "import_route")
  /\ Expand(h, IF same # {}
       THEN <<Stmt("clear_route_targets", Min(same), None)>> \o InsertTargets(Min(same), rows)
       ELSE <<Stmt("insert_route", None, row.name)>> \o InsertTargets(New, rows))
  /\ UNCHANGED <<tables, made, snap, doc, local, seen, given>>

ImportAlias(h) ==
  LET row == Head(todo[h]).row
      id == IF row.target = None THEN None
            ELSE IF row.type = "model" THEN known[h].models[row.target]
            ELSE LastOf({r \in Live(routes) : routes[r] = row.target}) IN
  /\ Ready(h, "import_alias")
  /\ Expand(h, IF id = None THEN <<>>
               ELSE <<Stmt("upsert_alias", row.alias, [type |-> row.type, id |-> id])>>)
  /\ UNCHANGED <<tables, made, snap, doc, local, seen, given>>

-----------------------------------------------------------------------------
(* The handlers of admin.rs.  Their checks come before the first statement. *)

UserKey(p) == Stmt("insert_account", None, [provider |-> p, label |-> "key", disabled |-> FALSE])

create_provider(h) ==
  \E n \in NewNames, withKey \in BOOLEAN :
    Start(h, "edit", <<Stmt("insert_provider", None, [name |-> n, mode |-> "manual", bound |-> FALSE])>>
                     \o (IF withKey THEN <<UserKey(New)>> ELSE <<>>) \o Reloading)

update_provider(h) ==
  \E p \in Live(providers), n \in NewNames, withKey \in BOOLEAN :
    /\ withKey => providers[p].mode = "manual"
    /\ Start(h, "edit", <<Stmt("update_provider", p, n)>>
                        \o (IF withKey THEN <<UserKey(p)>> ELSE <<>>) \o Reloading)

delete_provider(h) ==
  \E p \in Live(providers) : Start(h, "edit", <<Stmt("delete_provider", p, None)>> \o Reloading)

create_account(h) ==
  \E p \in Live(providers) :
    /\ providers[p].mode = "manual"
    /\ Start(h, "edit", <<UserKey(p)>> \o Reloading)

(* The row is updated before a new key is refused. *)
update_account(h) ==
  \E a \in Live(accounts), edit \in AccountEdits :
    Start(h, "edit", <<Stmt("update_account", a, edit)>>
                     \o (IF edit.key THEN <<Stmt("manual_only", a, None)>> ELSE <<>>) \o Reloading)

delete_account(h) ==
  \E a \in Live(accounts) : Start(h, "edit", <<Stmt("delete_account", a, None)>> \o Reloading)

create_model(h) ==
  \E p \in Live(providers), u \in Upstreams, t \in Transports \cup {None} :
    Start(h, "edit",
      <<Stmt("insert_model", None, [provider |-> p, upstream |-> u, enabled |-> TRUE,
                                    override |-> None, gone |-> FALSE]),
        Stmt("set_model_transport_override", New, t)>> \o Reloading)

update_model(h) ==
  \E m \in Live(models), enabled \in BOOLEAN, t \in Transports \cup {None} :
    Start(h, "edit", <<Stmt("update_model", m, enabled),
                       Stmt("set_model_transport_override", m, t)>> \o Reloading)

delete_model(h) ==
  \E m \in Live(models) : Start(h, "edit", <<Stmt("delete_model", m, None)>> \o Reloading)

(* The upstream lists the models in found; there is no reload. *)
discover_models(h) ==
  \E p \in Live(providers), found \in SUBSET Upstreams :
    LET own == SetToSeq({m \in Live(models) : models[m].provider = p}) IN
      /\ own # <<>>
      /\ Start(h, "discover", [i \in DOMAIN own |->
           Stmt("merge_model_discovery", own[i],
                [old |-> models[own[i]], gone |-> models[own[i]].upstream \notin found])])

(* Nothing is checked of the accounts and models that the targets name. *)
create_route(h) ==
  \E n \in RouteNames, rows \in TargetLists :
    Start(h, "edit", <<Stmt("insert_route", None, n)>> \o InsertTargets(New, rows) \o Reloading)

update_route(h) ==
  \E r \in Live(routes), rows \in TargetLists :
    Start(h, "edit", <<Stmt("clear_route_targets", r, None)>> \o InsertTargets(r, rows) \o Reloading)

delete_route(h) ==
  \E r \in Live(routes) : Start(h, "edit", <<Stmt("delete_route", r, None)>> \o Reloading)

create_alias(h) ==
  \E n \in Aliases :
    \/ \E m \in Live(models) :
         Start(h, "edit", <<Stmt("upsert_alias", n, [type |-> "model", id |-> m])>> \o Reloading)
    \/ \E r \in Live(routes) :
         Start(h, "edit", <<Stmt("upsert_alias", n, [type |-> "route", id |-> r])>> \o Reloading)

(* An alias that is deleted while the snapshot keeps serving it. *)
delete_alias_bug(h) ==
  \E n \in Live(aliases) : Start(h, "edit", <<Stmt("delete_alias", n, None)>>)

delete_alias(h) ==
  \E n \in Live(aliases) : Start(h, "edit", <<Stmt("delete_alias", n, None)>> \o Reloading)

export_config(h) ==
  Start(h, "export", <<Run("read_providers"), Run("read_accounts"), Run("read_models"),
                       Run("read_routes"), Run("read_aliases"), Run("export_done")>>)

(* The checks of an import: a login needs the plugin it came from, a route a target. *)
Importable(d) ==
  /\ d.providers # {} \/ d.models # {} \/ d.routes # {}
  /\ \A row \in d.providers : row.mode = "auth_flow" => row.bound
  /\ \A row \in d.routes : row.targets # <<>>

import_config(h) ==
  /\ Importable(doc)
  /\ Start(h, "import", Import(doc))

setup_plugin_integration_provider(h) ==
  \E mode \in Modes : Start(h, "provision", <<Stmt("provision", None, mode)>> \o Reloading)

auto_provision_plugin_providers(h) ==
  \E mode \in Modes : Start(h, "auto_provision", <<Stmt("provision", None, mode)>> \o Reloading)

(* The background reload of server.rs. *)
ReloadTick(h) == Start(h, "reload", Reloading)

-----------------------------------------------------------------------------
ConfigInit ==
  \E pair \in Seeds : LET seed == pair[1]
                          exported == pair[2] IN
    /\ providers = seed.providers /\ accounts = seed.accounts /\ models = seed.models
    /\ routes = seed.routes /\ targets = seed.targets /\ aliases = seed.aliases
    /\ made = [providers |-> Max(Live(seed.providers) \cup Live(exported.providers) \cup {0}),
               accounts |-> Max(Live(seed.accounts) \cup Live(exported.accounts) \cup {0}),
               models |-> Max(Live(seed.models) \cup Live(exported.models) \cup {0}),
               routes |-> Max(Live(seed.routes) \cup Live(exported.routes) \cup {0})]
    /\ snap = Snapshot(seed)
    /\ doc = Export(exported)
    /\ todo = [h \in Handlers |-> <<>>]
    /\ last = [h \in Handlers |-> None]
    /\ known = [h \in Handlers |-> None]
    /\ buf = [h \in Handlers |-> None]
    /\ op = [h \in Handlers |-> "idle"]
    /\ base = [h \in Handlers |-> None]
    /\ given = [m \in 1..MaxModels |-> IF seed.models[m] = None THEN None
                                        ELSE seed.models[m].override]
    /\ starts = 0

Handler(h) ==
  \/ create_provider(h) \/ update_provider(h) \/ delete_provider(h)
  \/ create_account(h) \/ update_account(h) \/ delete_account(h)
  \/ create_model(h) \/ update_model(h) \/ delete_model(h) \/ discover_models(h)
  \/ create_route(h) \/ update_route(h) \/ delete_route(h)
  \/ create_alias(h) \/ delete_alias(h)
  \/ export_config(h) \/ import_config(h)
  \/ setup_plugin_integration_provider(h) \/ auto_provision_plugin_providers(h)
  \/ ReloadTick(h)

Statement(h) ==
  \/ InsertProvider(h) \/ UpdateProvider(h) \/ UpdateSemantics(h) \/ DeleteProvider(h)
  \/ InsertAccountRow(h) \/ UpdateAccountRow(h) \/ RotateKey(h) \/ DeleteAccount(h)
  \/ InsertModel(h) \/ UpdateModel(h) \/ SetOverride(h) \/ MergeDiscovery(h) \/ DeleteModel(h)
  \/ InsertRoute(h) \/ InsertTarget(h) \/ ClearTargets(h) \/ DeleteRoute(h)
  \/ UpsertAlias(h) \/ WriteAlias(h) \/ DeleteAlias(h)
  \/ ReadProviders(h) \/ ReadAccounts(h) \/ ReadModels(h) \/ ReadAliases(h)
  \/ ReadRoutes(h) \/ ReadTargets(h) \/ Store(h)
  \/ Reconcile(h) \/ ResetNoAuth(h) \/ Unpin(h) \/ DeleteAccounts(h) \/ Provision(h)
  \/ ExportDone(h) \/ ImportBegin(h) \/ ImportProvider(h) \/ ImportAccount(h)
  \/ ImportModels(h) \/ ImportModel(h) \/ ImportRoute(h) \/ ImportAlias(h)

ConfigNext ==
  \E h \in Handlers :
    Handler(h) \/ Statement(h) \/ StatementFails(h) \/ HandlerDropped(h) \/ Return(h)

ConfigSpec == ConfigInit /\ [][ConfigNext]_configVars

-----------------------------------------------------------------------------
ConfigTypeOK ==
  /\ Config \in Configs
  /\ made \in [providers : 0..MaxProviders, accounts : 0..MaxAccounts,
               models : 0..MaxModels, routes : 0..MaxRoutes]
  /\ given \in [1..MaxModels -> Transports \cup {None}]
  /\ known \in [Handlers -> Knowledge \cup {None}] /\ buf \in [Handlers -> Configs \cup {None}]
  /\ DOMAIN todo = Handlers /\ starts \in 0..MaxHandlers

Requested == ({None} \X (Aliases \cup RouteNames \cup Upstreams)) \cup ModelKeys

(***************************************************************************)
(* However edits and reloads overlap, a request is never given a model     *)
(* with the account of another provider, an account of a provider that is  *)
(* not served, the synthetic account of a provider that needs a            *)
(* credential, or a credential for a provider that needs none              *)
(* (registry.rs reload and build_route).                                   *)
(***************************************************************************)
CredentialStaysHome ==
  \A name \in Requested : \A served \in Resolve(snap, name) : \A t \in served :
    LET p == snap.models[t.model].provider IN
      /\ snap.accounts[t.account].provider = p
      /\ snap.providers[p] # None
      /\ snap.providers[p].mode = "none" <=> snap.accounts[t.account].label = NoAuth

(***************************************************************************)
(* Whatever is deleted while other handlers insert, no row names a row     *)
(* that is gone (the foreign keys of the schema).                          *)
(***************************************************************************)
ReferencesHold == Whole(Config)

(***************************************************************************)
(* A plugin's provider that was set up with no other handler at work has   *)
(* the accounts of its mode (one synthetic account when it needs no        *)
(* credential, none when it does) and no route has lost a target to the    *)
(* change of mode (admin.rs reconcile_provider_account_mode).              *)
(***************************************************************************)
ProvisioningKeepsTargets ==
  \A h \in Handlers :
    Succeeds(h) /\ op[h] \in {"provision", "auto_provision"} /\ base[h] # None =>
      /\ \A r \in Live(routes) : Len(targets[r]) = Len(base[h].targets[r])
      /\ LET p == Min({p \in Live(providers) : providers[p].bound}) IN
           IF providers[p].mode = "none"
           THEN /\ Cardinality(AccountsOf(p, Labels)) = 1
                /\ AccountsOf(p, {NoAuth}) = AccountsOf(p, Labels)
           ELSE AccountsOf(p, Synthetic) = {}

(* Names that identify providers, and accounts that fit their modes. *)
Portable(c) ==
  /\ \A p, q \in Live(c.providers) : c.providers[p].name = c.providers[q].name => p = q
  /\ \A p \in Live(c.providers) :
       LET own == {a \in Live(c.accounts) : c.accounts[a].provider = p} IN
         IF c.providers[p].mode = "none"
         THEN \E a \in own : own = {a} /\ c.accounts[a] = NoAuthRow(p)
         ELSE \A a \in own : c.accounts[a].label \notin Synthetic

(***************************************************************************)
(* To import, with no other handler at work, the export of the instance's  *)
(* own configuration changes nothing: no account is added or lost, no      *)
(* target unpinned, no override dropped (admin.rs export_config,           *)
(* import_config).                                                         *)
(***************************************************************************)
ImportIsIdempotent ==
  \A h \in Handlers :
    Succeeds(h) /\ op[h] = "import" /\ base[h] # None =>
      (Portable(base[h]) /\ doc = Export(base[h]) => Config = base[h])

(***************************************************************************)
(* When an edit answers 200 and no other handler was at work, requests are *)
(* routed by the tables as it left them (registry.rs: "edits take effect   *)
(* without a restart").                                                    *)
(***************************************************************************)
SuccessIsServed ==
  \A h \in Handlers :
    Succeeds(h) /\ op[h] \notin {"export", "discover"} /\ base[h] # None =>
      snap = Snapshot(Config)

(***************************************************************************)
(* A model keeps the transport override the administrator gave it last,    *)
(* also when a discovery that read the row before writes its findings      *)
(* after (db.rs merge_model_discovery).                                    *)
(***************************************************************************)
OverrideIsKept == \A m \in Live(models) : models[m].override = given[m]

\* Edits are whole, whatever ran beside them or cut them off: references hold, overrides
\* are kept, and an edit, an import or a provisioning that ran alone and answered 200 has
\* done what it says and is served (admin.rs, db.rs).
EditsAreWhole ==
  /\ ConfigTypeOK
  /\ ReferencesHold
  /\ OverrideIsKept
  /\ ProvisioningKeepsTargets
  /\ ImportIsIdempotent
  /\ SuccessIsServed
====
