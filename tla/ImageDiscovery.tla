--------------------------- MODULE ImageDiscovery ---------------------------
(***************************************************************************)
(* How one check finds the tag an image may be updated to: the controller    *)
(* asks the forges for release tags when it admits the check, and the agent  *)
(* later reads the current value, asks the registry call by call, filters    *)
(* and looks up the digest of the best tag.  The registry changes meanwhile. *)
(* It ends with the candidate written to the file the current value is read  *)
(* from.                                                                     *)
(*                                                                           *)
(* A tag is a version <<major, minor, patch, release>>; release is 0 for a   *)
(* prerelease of that version and 1 for the version itself.                  *)
(***************************************************************************)
EXTENDS Integers, Sequences, FiniteSets, SequencesExt

CONSTANTS
  Policies,             \* declarations of one image under update.images
  Registries,           \* what the registry may hold at first
  ReleaseSets,          \* what the forge may list: pages, each a sequence of tags
  ForgeAuths,           \* controller.updates.forge_auth: the hosts of its entries
  TagChanges,           \* tags that may be published or withdrawn meanwhile
  FirstFiles,           \* contents of the file with the current value
  TagsPageSize,         \* registryTagsPageSize
  MaxTagChanges,        \* bound on the changes of the registry
  MaxDiscoveryFaults    \* bound on the requests that fail

Versions == Nat \X Nat \X Nat \X {0, 1}
WrittenValues == {image.tag : image \in Policies} \cup UNION {{f[i][2][1] : i \in DOMAIN f} : f \in FirstFiles}
Pages == Seq(Seq(Versions))

\* A current value of four parts is a version; what a registry holds and a forge
\* lists is finite.
ASSUME DiscoveryAssumption ==
  /\ \A v \in WrittenValues : Len(v) = 4 => v \in Versions
  /\ \A image \in Policies : image.sources \in Seq(STRING)
  /\ \A f \in FirstFiles : DOMAIN f \subseteq Nat
  /\ \A tags \in Registries : IsFiniteSet(tags) /\ tags \subseteq Versions
  /\ ReleaseSets \subseteq Pages /\ TagChanges \subseteq Versions
  /\ TagsPageSize \in Nat \ {0}

VARIABLES
  policy,       \* the declaration in force
  file,         \* lines <<key, value>> of the file; a value is <<tag, digest>>
  registry,     \* the tags the registry has
  releases,     \* what the forge lists
  injected,     \* forge tags in the task's parameters, merged and by source
  check,        \* the agent's check, {} or a singleton
  report,       \* the reported check, {} or a singleton
  tagChanges, discoveryFaults
discoveryVars == <<policy, file, registry, releases, injected, check, report, tagChanges, discoveryFaults>>

Lower(a, b) ==
  \E i \in 1..4 : a[i] < b[i] /\ \A j \in 1..(i - 1) : a[j] = b[j]
\* The members of a set in the order of a relation.
Earlier(S, R, x) == {y \in S : <<y, x>> \in R}
InOrder(S, R) == [n \in 1..Cardinality(S) |-> CHOOSE x \in S : Cardinality(Earlier(S, R, x)) = n - 1]
Ascending(tags) == InOrder(tags, {p \in tags \X tags : Lower(p[1], p[2])})
Descending(tags) == Reverse(Ascending(tags))

(***************************************************************************)
(* Declarations.  A policy is [ref, sources, combine, repoURL, apiURL,       *)
(* prereleases, filter, allow, mode, tag]; sources are those of the discovery *)
(* the image has or, with ref, of the one it names.  The repository URL names *)
(* a known forge, another host, or no repository ("short").                  *)
(***************************************************************************)
ForgeSources == {"github", "gitlab", "forgejo"}
Only(sources, type) == sources = <<type>>

\* validateImageUpdateDiscovery: a referenced discovery is validated without
\* the image's filter.
validateImageUpdateDiscovery(image) ==
  /\ Len(image.sources) > 0 /\ image.combine \in {"merge", "first_success"}
  /\ \A i \in DOMAIN image.sources :
       /\ image.sources[i] \in {"auto", "probe", "registry", "digest"} \cup ForgeSources
       /\ (image.sources[i] = "probe" /\ ~image.ref /\ image.filter # "") => image.filter = "semver"
       /\ image.sources[i] \in {"auto", "digest"} => Len(image.sources) = 1

\* validateImageUpdateFilter looks at the discovery as written, so a reference
\* never counts as digest discovery.
validateImageUpdateFilter(image) ==
  IF ~image.ref /\ Only(image.sources, "digest") THEN image.filter = ""
  ELSE /\ image.filter \in {"semver", "date", "regex", "latest"}
       /\ image.filter = "semver" => image.allow \subseteq {"patch", "minor", "major"}

validateImageUpdate(image) ==
  /\ image.mode \in {"tag", "env", "yaml"}
  /\ validateImageUpdateDiscovery(image) /\ validateImageUpdateFilter(image)

(***************************************************************************)
(* The current value.  Both readers take the first line with the key, and so *)
(* do both writers; a declared tag cannot be written.                        *)
(***************************************************************************)
Key == "key"
NoDigest == ""
LinesWithKey(f) == {i \in DOMAIN f : f[i][1] = Key}
FirstLine(f) == CHOOSE i \in LinesWithKey(f) : \A j \in LinesWithKey(f) : i <= j
currentImageUpdateValue(image, f) == IF image.mode = "tag" THEN <<image.tag, NoDigest>> ELSE f[FirstLine(f)][2]
NoCurrentValue(image, f) == image.mode # "tag" /\ LinesWithKey(f) = {}
applyImageCurrentUpdate(f, value) == [f EXCEPT ![FirstLine(f)] = <<Key, value>>]

(***************************************************************************)
(* The controller's part, when the check is admitted: the first page with a  *)
(* release counts.  A forge that fails keeps the task from being created.    *)
(***************************************************************************)
MaxForgePages == 3
ShownReleases(image, page) ==
  LET shown == {i \in DOMAIN page : image.prereleases \/ page[i][4] = 1}
      order == InOrder(shown, {p \in shown \X shown : p[1] < p[2]})
  IN  [n \in 1..Cardinality(shown) |-> page[order[n]]]
fetchForgeReleaseTags(image, pages) ==
  LET useful == {i \in DOMAIN pages : i <= MaxForgePages /\ ShownReleases(image, pages[i]) # <<>>}
  IN  IF useful = {} THEN <<>> ELSE ShownReleases(image, pages[CHOOSE i \in useful : \A j \in useful : i <= j])

\* forgeAuth: the entry of the repository's host, else one without a host, and
\* without a repository URL the only one; "" stands for no entry's URL.
forgeAuth(host) ==
  CASE host = "" /\ Len(ForgeAuths) = 1 -> ForgeAuths[1]
    [] host # "" /\ host \in ToSet(ForgeAuths) -> host
    [] OTHER -> ""
\* forgeReleaseRequest: GitHub and GitLab have a default address, Forgejo needs
\* one.
forgeReleaseRequest(image, type) == type = "forgejo" => (image.apiURL \/ forgeAuth(image.repoURL) # "")

\* forgeSourceFromRepoURL
AutoForge(image) == image.repoURL = "known"
ForgesCanBeAsked(image) ==
  IF Only(image.sources, "auto") THEN image.repoURL # "short"
  ELSE \A i \in DOMAIN image.sources : image.sources[i] \in ForgeSources => forgeReleaseRequest(image, image.sources[i])

NoneInjected == [merged |-> <<>>, bySource |-> <<>>]
collectForgeCandidates(image, pages) ==
  LET tags == fetchForgeReleaseTags(image, pages) IN
  CASE Only(image.sources, "auto") ->
         [NoneInjected EXCEPT !.merged = IF AutoForge(image) THEN tags ELSE <<>>]
    [] ~Only(image.sources, "auto") /\ image.combine = "merge" ->
         [NoneInjected EXCEPT !.merged =
            IF ToSet(image.sources) \cap ForgeSources # {} THEN tags ELSE <<>>]
    [] OTHER ->
         [NoneInjected EXCEPT !.bySource =
            [i \in DOMAIN image.sources |->
               IF image.sources[i] \in ForgeSources THEN tags ELSE <<>>]]

(***************************************************************************)
(* Probing: for each allowed kind of update the highest version reached      *)
(* without a gap, first by doubling steps and then by bisection              *)
(* (probeContiguousSemverComponent).                                         *)
(***************************************************************************)
semverAllowedUpdates(image) == IF image.allow = {} THEN {"patch", "minor"} ELSE image.allow

\* A search for the highest value of one component: of <<at[1], at[2], x>>,
\* <<at[1], x, 0>> or <<x, 0, 0>>.
PatchGoals == {"patch", "patch of minor", "patch of major"}
MinorGoals == {"minor", "minor of major"}
Search(goal, at, start) ==
  [goal |-> goal, at |-> at, start |-> start, low |-> start, high |-> start, step |-> 1, mode |-> "first"]
Tried(p) ==
  CASE p.mode = "first" -> p.start
    [] p.mode = "double" -> p.start + p.step
    [] p.mode = "bisect" -> (p.low + p.high + 1) \div 2
SearchedTag(p, x) ==
  CASE p.goal \in PatchGoals -> <<p.at[1], p.at[2], x, 1>>
    [] p.goal \in MinorGoals -> <<p.at[1], x, 0, 1>>
    [] p.goal = "major" -> <<x, 0, 0, 1>>
ProbedTag(p) == SearchedTag(p, Tried(p))

\* What an answer makes of a search; mode "found" and "none" end it.
Bisected(p) == IF p.low < p.high THEN p ELSE [p EXCEPT !.mode = "found"]
\* Mutant: the search ends at the last doubling that succeeded.
probeWithoutBisection(p, exists) ==
  CASE p.mode = "first" -> [p EXCEPT !.mode = IF exists THEN "double" ELSE "none"]
    [] p.mode = "double" /\ exists -> [p EXCEPT !.low = Tried(p), !.step = 2 * p.step]
    [] OTHER -> [p EXCEPT !.mode = "found"]
probeContiguousSemverComponent(p, exists) ==
  CASE p.mode = "first" -> [p EXCEPT !.mode = IF exists THEN "double" ELSE "none"]
    [] p.mode = "double" /\ exists -> [p EXCEPT !.low = Tried(p), !.step = 2 * p.step]
    [] p.mode = "double" /\ ~exists -> Bisected([p EXCEPT !.mode = "bisect", !.high = Tried(p) - 1])
    [] p.mode = "bisect" /\ exists -> Bisected([p EXCEPT !.low = Tried(p)])
    [] p.mode = "bisect" /\ ~exists -> Bisected([p EXCEPT !.high = Tried(p) - 1])

\* probeSemverImageTagWithExists: what to search for next, {} when done.
MajorSearch(image, cur) ==
  IF "major" \in semverAllowedUpdates(image) THEN {Search("major", <<0, 0>>, cur[1] + 1)} ELSE {}
MinorSearch(image, cur) ==
  IF "minor" \in semverAllowedUpdates(image) THEN {Search("minor", <<cur[1], 0>>, cur[2] + 1)}
  ELSE MajorSearch(image, cur)
FirstSearch(image, cur) ==
  IF "patch" \in semverAllowedUpdates(image) THEN {Search("patch", <<cur[1], cur[2]>>, cur[3] + 1)}
  ELSE MinorSearch(image, cur)
NextSearch(image, p, cur) ==
  CASE p.goal = "patch" -> MinorSearch(image, cur)
    [] p.goal = "minor" /\ p.mode = "found" -> {Search("patch of minor", <<p.at[1], p.low>>, 0)}
    [] p.goal = "minor" /\ p.mode = "none" -> MajorSearch(image, cur)
    [] p.goal = "patch of minor" -> MajorSearch(image, cur)
    [] p.goal = "major" /\ p.mode = "found" -> {Search("minor of major", <<p.low, 0>>, 0)}
    [] p.goal = "minor of major" /\ p.mode = "found" -> {Search("patch of major", <<p.at[1], p.low>>, 0)}
    [] OTHER -> {}
\* consider: the highest version a search for patches has found.
Better(best, p) ==
  IF p.mode = "found" /\ p.goal \in PatchGoals /\ (best = <<>> \/ Lower(best, SearchedTag(p, p.low)))
    THEN SearchedTag(p, p.low) ELSE best

(***************************************************************************)
(* Filtering.                                                                *)
(***************************************************************************)
IsVersion(tag) == Len(tag) = 4
semverUpdateKind(cur, tag) ==
  CASE tag[1] # cur[1] -> "major"
    [] tag[1] = cur[1] /\ tag[2] # cur[2] -> "minor"
    [] OTHER -> "patch"
semverUpdateAllowed(image, cur, tag) == semverUpdateKind(cur, tag) \in semverAllowedUpdates(image)

\* The tags a filter admits; date and regex filters order the tags as well,
\* by the key they extract.
Admitted(image, cur, tags) ==
  CASE image.filter = "semver" -> {t \in tags : IsVersion(cur) /\ Lower(cur, t) /\ semverUpdateAllowed(image, cur, t)}
    [] image.filter \in {"date", "regex"} -> {t \in tags : IsVersion(cur) /\ Lower(cur, t)}
    [] OTHER -> tags
candidateImageTags(image, cur, tags) ==
  IF image.filter = "latest" THEN tags ELSE Descending(Admitted(image, cur, ToSet(tags)))

(***************************************************************************)
(* Actions.                                                                  *)
(***************************************************************************)
DiscoveryInit ==
  /\ policy \in {p \in Policies : validateImageUpdate(p)}
  /\ file \in FirstFiles /\ registry \in Registries /\ releases \in ReleaseSets
  /\ injected = {} /\ check = {} /\ report = {}
  /\ tagChanges = 0 /\ discoveryFaults = 0

AdmitCheck ==
  /\ injected = {} /\ ForgesCanBeAsked(policy) /\ injected' = {collectForgeCandidates(policy, releases)}
  /\ UNCHANGED <<policy, file, registry, releases, check, report, tagChanges, discoveryFaults>>

\* A build publishes a tag, or somebody removes one.
ChangeRegistry(t) ==
  /\ tagChanges < MaxTagChanges /\ tagChanges' = tagChanges + 1
  /\ registry' = IF t \in registry THEN registry \ {t} ELSE registry \cup {t}
  /\ check' = {[c EXCEPT !.steady = FALSE] : c \in check}
  /\ UNCHANGED <<policy, file, releases, injected, report, discoveryFaults>>

Reported(current, steady, status, candidate, available, failed) ==
  [current |-> current, status |-> status, candidate |-> candidate, available |-> available,
   steady |-> steady, known |-> registry, failed |-> failed]
EndsWith(r) == check' = {} /\ report' = {r}

\* collectServiceImageUpdateCheck: a key that is missing is reported as an
\* error, digest discovery goes straight to the digest of the current tag.
FirstSources(image) == IF Only(image.sources, "auto") THEN <<"probe", "registry">> ELSE image.sources
NewCheck(image, current) ==
  [current |-> current, at |-> IF Only(image.sources, "digest") THEN "digest" ELSE "source",
   todo |-> FirstSources(image), tags |-> <<>>, search |-> {}, best |-> <<>>, last |-> {}, steady |-> TRUE]
StartCheck ==
  /\ injected # {} /\ check = {} /\ report = {}
  /\ \/ /\ NoCurrentValue(policy, file)
        /\ EndsWith(Reported(<<>>, TRUE, "error", <<>>, FALSE, FALSE))
     \/ /\ ~NoCurrentValue(policy, file)
        /\ check' = {NewCheck(policy, currentImageUpdateValue(policy, file)[1])} /\ UNCHANGED report
  /\ UNCHANGED <<policy, file, registry, releases, injected, tagChanges, discoveryFaults>>

\* discoverImageUpdateTags: with first_success the first source with a tag
\* ends the discovery; otherwise all are merged, the forges' tags first.
Merging(image) == image.combine = "merge" \/ Only(image.sources, "auto")
AllTags(c, i) == IF i.merged # <<>> THEN i.merged \o c.tags ELSE c.tags
Stop(image, c) == (~Merging(image) /\ c.tags # <<>>) \/ c.todo = <<>>
Source(image, c) == Len(image.sources) - Len(c.todo) + 1
\* What a source leaves behind, and the rest of the sources.
SourceDone(c, tags) == [c EXCEPT !.at = "source", !.todo = Tail(c.todo), !.tags = tags]

\* A source that needs no request: the tags of a forge came with the task, and
\* merging they count already.
SkipSource ==
  \E c \in check, i \in injected :
    /\ c.at = "source" /\ ~Stop(policy, c) /\ c.todo[1] \in ForgeSources
    /\ check' = {SourceDone(c, IF Merging(policy) THEN c.tags ELSE c.tags \o i.bySource[Source(policy, c)])}
    /\ UNCHANGED <<policy, file, registry, releases, injected, report, tagChanges, discoveryFaults>>

StartSource ==
  \E c \in check :
    /\ c.at = "source" /\ ~Stop(policy, c)
    /\ \/ /\ c.todo[1] = "registry" /\ check' = {[c EXCEPT !.at = "list", !.last = {}]}
       \/ /\ c.todo[1] = "probe" /\ policy.filter = "semver" /\ IsVersion(c.current)
          /\ check' = {[c EXCEPT !.at = "probe", !.best = <<>>, !.search = FirstSearch(policy, c.current)]}
       \/ /\ c.todo[1] = "probe" /\ ~(policy.filter = "semver" /\ IsVersion(c.current))
          /\ check' = {SourceDone(c, c.tags)}
    /\ UNCHANGED <<policy, file, registry, releases, injected, report, tagChanges, discoveryFaults>>

\* registryManifestExists
Probe ==
  \E c \in check : \E p \in c.search :
    LET q == probeContiguousSemverComponent(p, ProbedTag(p) \in registry)
        over == q.mode \in {"found", "none"}
    IN  /\ c.at = "probe"
        /\ check' = {[c EXCEPT !.search = IF over THEN NextSearch(policy, q, c.current) ELSE {q},
                               !.best = Better(c.best, q)]}
        /\ UNCHANGED <<policy, file, registry, releases, injected, report, tagChanges, discoveryFaults>>

FinishProbe ==
  \E c \in check :
    /\ c.at = "probe" /\ c.search = {}
    /\ check' = {SourceDone(c, IF c.best = <<>> THEN c.tags ELSE Append(c.tags, c.best))}
    /\ UNCHANGED <<policy, file, registry, releases, injected, report, tagChanges, discoveryFaults>>

\* listRegistryTags: one page after the other, in the registry's order.
ListPage ==
  \E c \in check :
    LET rest == Ascending({t \in registry : \A l \in c.last : Lower(l, t)})
        page == SubSeq(rest, 1, TagsPageSize)
    IN  /\ c.at = "list"
        /\ \/ /\ Len(rest) > TagsPageSize
              /\ check' = {[c EXCEPT !.tags = c.tags \o page, !.last = {rest[TagsPageSize]}]}
           \/ /\ Len(rest) <= TagsPageSize
              /\ check' = {SourceDone(c, c.tags \o rest)}
        /\ UNCHANGED <<policy, file, registry, releases, injected, report, tagChanges, discoveryFaults>>

\* The best candidate's digest is looked up, and without one nothing is
\* available.
ChooseCandidate ==
  \E c \in check, i \in injected :
    LET candidates == candidateImageTags(policy, c.current, AllTags(c, i))
    IN  /\ c.at = "source" /\ Stop(policy, c)
        /\ \/ /\ candidates = <<>>
              /\ EndsWith(Reported(c.current, c.steady, "ok", <<>>, FALSE, FALSE))
           \/ /\ candidates # <<>>
              /\ check' = {[c EXCEPT !.at = "inspect", !.best = candidates[1], !.tags = <<>>]} /\ UNCHANGED report
        /\ UNCHANGED <<policy, file, registry, releases, injected, tagChanges, discoveryFaults>>

\* inspectRemoteImageDigest
InspectDigest ==
  \E c \in check :
    LET tag == IF c.at = "digest" THEN c.current ELSE c.best
    IN  /\ c.at \in {"inspect", "digest"}
        /\ EndsWith(Reported(c.current, c.steady, IF tag \in registry THEN "ok" ELSE "error", tag,
                             c.at = "inspect" /\ tag \in registry, FALSE))
        /\ UNCHANGED <<policy, file, registry, releases, injected, tagChanges, discoveryFaults>>

RequestFails ==
  \E c \in check :
    /\ c.at \in {"probe", "list", "inspect", "digest"} /\ discoveryFaults < MaxDiscoveryFaults
    /\ discoveryFaults' = discoveryFaults + 1
    /\ EndsWith(Reported(c.current, c.steady, "error", <<>>, FALSE, TRUE))
    /\ UNCHANGED <<policy, file, registry, releases, injected, tagChanges>>

\* The update is applied, with the digest if it is pinned.
ApplyCandidate ==
  \E r \in report :
    /\ r.available /\ policy.mode # "tag" /\ file[FirstLine(file)][2][1] # r.candidate
    /\ \E digest \in {NoDigest, "digest"} : file' = applyImageCurrentUpdate(file, <<r.candidate, digest>>)
    /\ UNCHANGED <<policy, registry, releases, injected, check, report, tagChanges, discoveryFaults>>

DiscoveryNext ==
  \/ AdmitCheck \/ StartCheck \/ SkipSource \/ StartSource \/ Probe \/ FinishProbe \/ ListPage
  \/ ChooseCandidate \/ InspectDigest \/ RequestFails \/ ApplyCandidate
  \/ \E t \in TagChanges : ChangeRegistry(t)

DiscoverySpec == DiscoveryInit /\ [][DiscoveryNext]_discoveryVars

(***************************************************************************)
(* Properties.                                                               *)
(***************************************************************************)
\* No version is missing below one the registry has.
WithoutGaps(tags) ==
  \A t \in tags : t[4] = 1 =>
    /\ \A x \in 0..t[3] : <<t[1], t[2], x, 1>> \in tags
    /\ \A x \in 0..t[2] : <<t[1], x, 0, 1>> \in tags
    /\ \A x \in 1..t[1] : <<x, 0, 0, 1>> \in tags

Ordered(image) == image.filter \in {"semver", "date", "regex"}
Listed(image) ==
  Only(image.sources, "auto") \/ Only(image.sources, "registry")
    \/ (Merging(image) /\ "registry" \in ToSet(image.sources))
Probed(image, cur) ==
  Only(image.sources, "probe") /\ image.filter = "semver" /\ IsVersion(cur) /\ cur[4] = 1
Highest(tag, tags) == tag \in tags /\ \A t \in tags : ~Lower(tag, t)
NewReleases(image, cur, tags) == {t \in Admitted(image, cur, tags) : t[4] = 1}
InjectedMerged(inj) == UNION {ToSet(i.merged) : i \in inj}

\* What an announced update is: newer by a step the policy allows, with an
\* image to pull.
AnnouncedIsSound(image, r) ==
  r.available =>
    /\ Ordered(image) => Lower(r.current, r.candidate)
    /\ image.filter = "semver" => semverUpdateAllowed(image, r.current, r.candidate)
    /\ r.candidate \in r.known
\* The best of a list, unless the forges name one that is not there yet.
ListIsExact(image, inj, r) ==
  LET all == Admitted(image, r.current, r.known \cup InjectedMerged(inj))
  IN  IF all = {} THEN ~r.available
      ELSE \/ r.available /\ Highest(r.candidate, all)
           \/ r.status = "error" /\ ~(InjectedMerged(inj) \subseteq r.known)
\* The best of a registry without gaps; a prerelease is passed over for its own
\* release.
ProbeIsExact(image, r) ==
  LET found == NewReleases(image, r.current, r.known)
  IN  IF found = {} THEN ~r.available ELSE r.available /\ Highest(r.candidate, found)
FileIsReadBack(image, f, r) ==
  (image.mode # "tag" /\ r.available) => currentImageUpdateValue(image, f)[1] \in {r.current, r.candidate}

\* Invariant of collectServiceImageUpdateCheck: an update that is announced
\* raises the version by a step the policy allows and had an image to pull;
\* when the registry did not change meanwhile, nothing failed and the registry
\* is listed, it is the highest there is, and when it is only probed the
\* highest release if the registry has no gaps, and none is announced only if
\* there is none; a policy that passed validation never fails for its own
\* sake; and the file it was written to is read back as it.
DiscoveryIsSound ==
  \A r \in report :
    LET exact == r.steady /\ ~r.failed /\ Ordered(policy)
    IN  /\ AnnouncedIsSound(policy, r)
        /\ exact /\ Listed(policy) => ListIsExact(policy, injected, r)
        /\ exact /\ Probed(policy, r.current) /\ WithoutGaps(r.known) => ProbeIsExact(policy, r)
        /\ r.status = "error" => r.failed \/ NoCurrentValue(policy, file) \/ r.candidate \notin r.known
        /\ FileIsReadBack(policy, file, r)
=============================================================================
