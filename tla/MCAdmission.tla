---------------------------- MODULE MCAdmission ----------------------------
(***************************************************************************)
(* Everything that decides whether a task comes to be.  The five ways a     *)
(* task is admitted, against each other: every kind of task of one service *)
(* that is declared on one node and may migrate to another, and two tasks  *)
(* with one dedupe key.  The declarations of the repository, as their       *)
(* readers see them.  And the capabilities shown to users, against the      *)
(* checks of their requests.  They share no state here: each behaviour      *)
(* exercises one, chosen at the start.                                      *)
(***************************************************************************)
EXTENDS TaskStore, Capabilities

VARIABLE focus

MCTypeOf == [deploy |-> "deploy", caddy |-> "caddy_sync", again |-> "caddy_sync",
             migrate |-> "migrate", dns |-> "dns_update",
             tunnel |-> "cloudflare_tunnel_sync"]
MCTasks == DOMAIN MCTypeOf
MCServiceOf == [t \in MCTasks |-> "web"]
MCNodeOf == [t \in MCTasks |-> IF t \in {"migrate", "tunnel"} THEN "nonode" ELSE "alpha"]
MCDedupeKeyOf == [t \in MCTasks |-> IF t \in {"caddy", "again"} THEN "key" ELSE "nokey"]
MCQueueKey == [deploy |-> 1, caddy |-> 2, again |-> 3, migrate |-> 4, dns |-> 5, tunnel |-> 6]
MCDeclared == {<<"web", "alpha">>}

\* Meta files: a valid service, and one change of it for each rule.
Action(strategy) == [strategy |-> strategy, service |-> "db", include |-> {"path"}]
Item(backup, restore) == [name |-> "d", backup |-> backup, restore |-> restore]
Copy == {Action("files.copy")}
Meta(name) ==
  [decodes |-> TRUE, name |-> name, nodes |-> <<"n1", " ">>, infra |-> {}, blankInfraArg |-> FALSE,
   caddy |-> "none", hasDNS |-> FALSE, dns |-> <<>>, tunnel |-> "none", compose |-> <<>>,
   data |-> <<Item(Copy, Copy)>>, backup |-> <<[name |-> "d", enabled |-> TRUE, schedule |-> "daily"]>>,
   migrate |-> <<"d">>]
Dns(type) == [host |-> "h", type |-> type, provider |-> ""]
WithDNS(meta, types) == [meta EXCEPT !.hasDNS = TRUE, !.dns = [i \in DOMAIN types |-> Dns(types[i])]]
MCMetaChoices ==
  {Meta("s"), [Meta("t") EXCEPT !.nodes = <<"n1", "n2">>],
   [Meta("s") EXCEPT !.infra = {"rustic"}], [Meta("t") EXCEPT !.infra = {"caddy", "rustic"}],
   [Meta("s") EXCEPT !.infra = {"config"}, !.data = <<Item({Action("files.copy_after_stop")}, Copy)>>],
   [Meta("t") EXCEPT !.decodes = FALSE], WithDNS(Meta("s"), <<"A", "CNAME">>),
   [Meta("s") EXCEPT !.data = <<Item(Copy, {})>>],
   [Meta("s") EXCEPT !.compose = <<[name |-> "c", enc |-> TRUE], [name |-> "c", enc |-> FALSE]>>]}
MCNested == ("a/x" :> "a")

Full == [WithDNS(Meta("web"), <<"A">>) EXCEPT !.caddy = "managed", !.tunnel = "managed", !.nodes = <<"n1", "n2">>]
Bare == [Meta("web") EXCEPT !.data = <<>>, !.backup = <<>>, !.migrate = <<>>, !.infra = {"config"}]
Infra(kinds, nodes) == [Bare EXCEPT !.name = "infra", !.infra = kinds, !.nodes = nodes]
Repo(a, b) == [p \in Places |-> CASE p = "a" -> a [] p = "b" -> b [] OTHER -> NoMeta]
MCRepositories ==
  {Repo(Full, NoMeta), Repo(Full, Infra({"rustic", "caddy"}, <<"n1">>)),
   Repo(Full, Infra({"rustic"}, <<"n1", "n2">>)), Repo(Bare, Infra({"rustic", "caddy"}, <<"n1", "n2">>)),
   Repo(Meta("web"), Infra({"caddy"}, <<"n2">>)), Repo(Full, Meta("web")),
   Repo([Full EXCEPT !.decodes = FALSE], NoMeta), Repo(Full, [Bare EXCEPT !.blankInfraArg = TRUE]),
   Repo([Full EXCEPT !.nodes = <<"n1">>], [Infra({"rustic"}, <<"n2">>) EXCEPT !.name = "web"])}
Setup(nodes, disabled, dns, tunnel, main, backup) ==
  [nodes |-> nodes, disabled |-> disabled, dns |-> dns, tunnel |-> tunnel, mainNodes |-> main, backup |-> backup]
MCSetups ==
  {Setup({"n1", "n2"}, {}, "usable", "usable", {}, "succeeded"),
   Setup({"n1", "n2"}, {"n2"}, "usable", "empty", {"n1"}, "no artifact"),
   Setup({"n1"}, {}, "empty", "none", {"n2"}, "failed"),
   Setup({"n1", "n2"}, {"n1"}, "none", "usable", {"n2"}, "succeeded")}

\* What a behaviour does not exercise is left at rest.
IdleMetas ==
  /\ metas = [p \in Places |-> NoMeta] /\ nodeSet = {} /\ changedAt = {} /\ pinned = NoService_ /\ metaWrites = 0
IdleCapabilities ==
  /\ setup = <<>> /\ online = {} /\ rows = {} /\ table = {} /\ busyAt = {}
  /\ asked = Nothing /\ reply = Nothing /\ capChanges = 0

MCInit ==
  /\ focus \in {"store", "metas", "capabilities"} /\ StoreInit
  /\ CASE focus = "metas" -> MetaInit /\ IdleCapabilities
       [] focus = "capabilities" -> CapInit
       [] OTHER -> IdleMetas /\ IdleCapabilities
MCNext ==
  \/ focus = "store" /\ StoreNext /\ UNCHANGED <<focus, metaVars, capVars>>
  \/ focus = "metas" /\ MetaNext /\ UNCHANGED <<focus, storeVars, capVars>>
  \/ focus = "capabilities" /\ CapNext /\ UNCHANGED <<focus, storeVars>>
MCSpec == MCInit /\ [][MCNext]_<<focus, storeVars, metaVars, capVars>>

=============================================================================
