----------------------------- MODULE MCNodeWork -----------------------------
(***************************************************************************)
(* Instance of the parts that do or begin work on nodes: the backup protocol *)
(* of MCBackup, the work of one agent, the image updates and the discovery   *)
(* of their tags.  They share no state, so each behaviour exercises one of   *)
(* them, chosen at the start.                                                *)
(***************************************************************************)
EXTENDS MCBackup, MCAgentWork, MCImageUpdates, ImageDiscovery

VARIABLE focus
executionVars == vars

Ver(a, b, c) == <<a, b, c, 1>>
Deployed == Ver(1, 0, 0)
Policy(ref, sources, combine, url, filter, allow, mode) ==
  [ref |-> ref, sources |-> sources, combine |-> combine, repoURL |-> url, apiURL |-> FALSE,
   prereleases |-> FALSE, filter |-> filter, allow |-> allow, mode |-> mode, tag |-> Deployed]
\* The last is refused by the validation.
MCPolicies == {
  Policy(FALSE, <<"auto">>, "first_success", "known", "semver", {}, "env"),
  Policy(FALSE, <<"probe">>, "first_success", "", "semver", {"patch", "minor", "major"}, "yaml"),
  Policy(FALSE, <<"probe">>, "first_success", "", "semver", {"major"}, "yaml"),
  Policy(TRUE, <<"probe", "registry">>, "first_success", "", "regex", {}, "env"),
  Policy(FALSE, <<"github", "registry">>, "first_success", "", "semver", {"patch"}, "env"),
  Policy(FALSE, <<"forgejo", "registry">>, "merge", "forge", "date", {}, "env"),
  Policy(TRUE, <<"digest">>, "first_success", "", "latest", {}, "tag"),
  Policy(FALSE, <<"registry">>, "first_success", "", "latest", {}, "env"),
  Policy(FALSE, <<"digest", "registry">>, "merge", "", "semver", {}, "env") }
\* Nothing new, only patches and a prerelease, every kind of update, gaps.
MCRegistries == {
  {Deployed},
  {Ver(1, 0, x) : x \in 0..4} \cup {<<1, 0, 5, 0>>},
  {Ver(1, 0, 0), Ver(1, 0, 1), Ver(1, 0, 2), Ver(1, 1, 0), Ver(1, 1, 1), Ver(1, 2, 0), Ver(1, 3, 0),
   Ver(1, 3, 1), Ver(2, 0, 0), Ver(2, 1, 0)},
  {Deployed, Ver(1, 0, 2), Ver(1, 2, 0)} }
MCReleaseSets == { <<>>, << << <<1, 0, 3, 0>> >>, <<Ver(1, 0, 2), <<1, 0, 3, 0>>, Ver(1, 0, 1)>> >> }
\* The key among others, twice, missing, with a value that is no version, and
\* with a prerelease.
MCFiles == {
  << <<"other", <<Deployed, "">> >>, <<"key", <<Deployed, "">> >> >>,
  << <<"key", <<Deployed, "old">> >>, <<"key", <<Ver(0, 9, 0), "">> >> >>,
  << <<"other", <<Deployed, "">> >> >>,
  << <<"key", << <<"edge">>, "">> >> >>,
  << <<"key", << <<1, 0, 1, 0>>, "">> >> >> }
MCForgeAuths == <<"forge", "">>
MCTagChanges == {Ver(1, 0, 1), Ver(1, 1, 0), Ver(1, 0, 3), Ver(2, 0, 0)}

\* Bounds: one write of the application, or one of a user, or one fault.
OneDisturbance ==
  /\ (writes' - 1) + workFaults' <= 1
  /\ userWrites' + imageFaults' <= 1

\* A part that is not exercised stays in one initial state.
MCInit ==
  /\ focus \in {"execution", "agent", "images", "discovery"}
  /\ Init /\ WorkInit /\ ImageInit /\ DiscoveryInit
  /\ focus # "agent" => works = 1 /\ shape = (CHOOSE x \in Shapes : TRUE) /\ snapshots = {}
  /\ focus # "images" => options = (CHOOSE x \in UpdateOptions : TRUE)
  /\ focus # "discovery" =>
       /\ policy = (CHOOSE x \in Policies : validateImageUpdate(x))
       /\ file = (CHOOSE x \in FirstFiles : TRUE)
       /\ registry = (CHOOSE x \in Registries : TRUE) /\ releases = <<>>

MCNext ==
  \/ focus = "execution" /\ Next /\ UNCHANGED <<focus, workVars, imageVars, discoveryVars>>
  \/ focus = "agent" /\ WorkNext /\ UNCHANGED <<focus, executionVars, imageVars, discoveryVars>> /\ OneDisturbance
  \/ focus = "images" /\ ImageNext /\ UNCHANGED <<focus, executionVars, workVars, discoveryVars>> /\ OneDisturbance
  \/ focus = "discovery" /\ DiscoveryNext /\ UNCHANGED <<focus, executionVars, workVars, imageVars>>

MCSpec == MCInit /\ [][MCNext]_<<focus, executionVars, workVars, imageVars, discoveryVars>>
=============================================================================
