--------------------------- MODULE MCConfigStore ---------------------------
(* An instance with two providers at most, for TLC. *)
EXTENDS ConfigStore

Row(n, mode, bound) == [name |-> n, mode |-> mode, bound |-> bound]
Key(p, label) == [provider |-> p, label |-> label, disabled |-> FALSE]
Mod(p) == [provider |-> p, upstream |-> "u", enabled |-> TRUE, override |-> None, gone |-> FALSE]
To(a, m) == [account |-> a, model |-> m]

(* A provider with a key, and a route that is pinned to it. *)
Pinned ==
  [EmptyConfig EXCEPT !.providers[1] = Row("P", "manual", FALSE), !.accounts[1] = Key(1, "key"),
     !.models[1] = Mod(1), !.routes[1] = "x", !.targets[1] = <<To(1, 1)>>,
     !.aliases["x"] = [type |-> "route", id |-> 1]]

(* A plugin's provider without a key, pinned too, and a second provider with one. *)
Mixed ==
  [EmptyConfig EXCEPT !.providers[1] = Row("P", "none", TRUE), !.accounts[1] = Key(1, NoAuth),
     !.providers[2] = Row("Q", "manual", FALSE), !.accounts[2] = Key(2, "key"),
     !.models[1] = Mod(1), !.routes[1] = "x", !.targets[1] = <<To(1, 1)>>,
     !.aliases["x"] = [type |-> "model", id |-> 1]]

(* A plugin's provider that needed no key in an older release, and nothing else yet. *)
Older ==
  [EmptyConfig EXCEPT !.providers[1] = Row("Q", "none", TRUE), !.accounts[1] = Key(1, Legacy)]

(* The document of an import is of the configuration itself, or of another instance. *)
MCSeeds == {<<Mixed, Mixed>>, <<Older, Pinned>>}

(* The account may be gone, or belong to another provider than the model. *)
MCTargetLists == {<<To(None, 1), To(2, 1)>>}

(* A key is replaced; the label of synthetic accounts is not refused. *)
MCAccountEdits == {[label |-> "key", disabled |-> TRUE, key |-> TRUE],
                   [label |-> NoAuth, disabled |-> FALSE, key |-> FALSE]}
====
