---------------------------- MODULE MCAgentWork ----------------------------
(***************************************************************************)
(* Two services on a node: web has protected data, a volume that is backed   *)
(* up cold and a database.                                                 *)
(***************************************************************************)
EXTENDS AgentWork

MCStrategyOf == [files |-> "files.copy_after_stop", db |-> "database.pgdumpall"]

\* web mounts its directory; edge is its rustic provider, or has no containers.
MCShapes ==
  {[infra |-> {}, mounts |-> {"web"}, named |-> {"web", "edge"}, rustic |-> "edge",
    caddy |-> {<<"web", 1>>, <<"web", 2>>, <<"edge", 2>>}],
   [infra |-> {"edge"}, mounts |-> {"web"}, named |-> {"web", "edge"}, rustic |-> "web",
    caddy |-> {<<"web", 1>>, <<"edge", 1>>}]}

\* The directory of web does not have the name of the service.
MCOtherName ==
  {[infra |-> {}, mounts |-> {}, named |-> {"edge"}, rustic |-> "edge", caddy |-> {}]}
=============================================================================
