---------------------------- MODULE ServiceMetas ----------------------------
(***************************************************************************)
(* The declared services: what the meta files of a repository mean to the   *)
(* functions that read them.  DiscoverServices (the table of declared       *)
(* services), FindService and the infra lookups (admission), the lookups at *)
(* a revision (execution), ValidateRepo (the user's check) and               *)
(* AffectedServicesFromChangedFiles (auto-deploy) each walk the files in     *)
(* their own way and forgive different mistakes.                            *)
(*                                                                         *)
(* A meta file is a record; NoMeta stands for no file.  A place is a         *)
(* directory of the repository, at the top level or inside another one.     *)
(***************************************************************************)
EXTENDS Naturals, Sequences, FiniteSets, SequencesExt

CONSTANTS TopPlaces,     \* top-level directories
          NestedIn,      \* nested directories, with the directory around each
          MetaChoices,   \* the meta files that are written
          NodeChoices,   \* the sets of nodes that are configured
          MaxMetaWrites  \* commits

VARIABLES metas,         \* the meta files at HEAD
          nodeSet,       \* the nodes of the running configuration
          changedAt,     \* places with changed files in the last commit
          pinned,        \* a task: its place, service and revision
          metaWrites

metaVars == <<metas, nodeSet, changedAt, pinned, metaWrites>>

Places == TopPlaces \cup DOMAIN NestedIn
NoMeta == [decodes |-> FALSE, name |-> "none"]
NoService_ == [at |-> "none"]
RepoRoot == "root"

\* The top level has finitely many directories; nested ones lie in them.
ASSUME MetaAssumption ==
  /\ IsFiniteSet(TopPlaces) /\ RepoRoot \notin Places
  /\ \A p \in DOMAIN NestedIn : NestedIn[p] \in TopPlaces

-----------------------------------------------------------------------------
(* Validation of one file.                                                  *)

Distinct(seq) == IsInjective(seq)
NamesOf(seq) == [i \in DOMAIN seq |-> seq[i].name]
normalizedTargetNodes(meta) ==
  LET named == {i \in DOMAIN meta.nodes : meta.nodes[i] # " "}
      At(k) == CHOOSE i \in named : Cardinality({j \in named : j <= i}) = k
  IN  [k \in 1..Cardinality(named) |-> meta.nodes[At(k)]]

\* An include is a path below the service directory, or a volume's name.
ClassifyDataInclude(include) ==
  CASE include \in {"empty", "absolute", "service root", "outside", "dir/.enc"} -> "invalid"
    [] include = "path" -> "service_path"
    [] OTHER -> "docker_volume"

validateDataAction(action) ==
  \/ action.strategy \in {"database.pgdumpall", "database.pgimport"} /\ action.service # ""
  \/ /\ action.strategy \in {"files.copy", "files.copy_after_stop"}
     /\ action.include # {}
     /\ \A i \in action.include : ClassifyDataInclude(i) # "invalid"

\* backup and restore are sets of at most one action.
validateDataProtectItem(item) == \A a \in item.backup \cup item.restore : validateDataAction(a)

validateConfigInfra(meta) ==
  /\ meta.infra \cap {"caddy", "rustic"} = {}
  /\ \A item \in Range(meta.data) : \A a \in item.backup \cup item.restore : a.strategy = "files.copy"

\* The encrypted form of a file and the file itself are one file at run time.
NormalizedComposeFiles(meta) ==
  /\ \A f \in Range(meta.compose) : f.name \notin {"", ".", "..", "/"}
  /\ Distinct([i \in DOMAIN meta.compose |-> meta.compose[i].name])

validateDNS(entries) ==
  /\ entries # <<>>
  /\ \A e \in Range(entries) :
       /\ e.provider \in {"", "cloudflare", "alidns", "dnspod", "route53", "huaweicloud"}
       /\ e.host # "" /\ e.type \in {"", "A", "AAAA", "CNAME"}
  /\ \A i, j \in DOMAIN entries :
       i # j /\ entries[i].host = entries[j].host =>
         entries[i].type # entries[j].type /\ "CNAME" \notin {entries[i].type, entries[j].type}

validateNetwork(meta) ==
  /\ meta.caddy # "without source"
  /\ meta.hasDNS => validateDNS(meta.dns)
  /\ meta.tunnel # "incomplete"

validateServiceMeta(meta) ==
  /\ meta.name # ""
  /\ LET nodes == normalizedTargetNodes(meta)
     IN nodes # <<>> /\ Range(nodes) \subseteq nodeSet /\ Distinct(nodes)
  /\ validateNetwork(meta) /\ NormalizedComposeFiles(meta)
  /\ "config" \in meta.infra => validateConfigInfra(meta)
  /\ ~meta.blankInfraArg
  /\ \A item \in Range(meta.data) : item.name # "" /\ validateDataProtectItem(item)
  /\ Distinct(NamesOf(meta.data))
  /\ \A b \in Range(meta.backup) :
       b.schedule # "bad" /\ \E item \in Range(meta.data) : item.name = b.name /\ item.backup # {}
  /\ \A n \in Range(meta.migrate) :
       \E item \in Range(meta.data) : item.name = n /\ item.backup # {} /\ item.restore # {}

-----------------------------------------------------------------------------
(* The readers.                                                             *)

strictServiceFromMeta(p, meta) ==
  [at |-> p, name |-> meta.name, nodes |-> normalizedTargetNodes(meta), meta |-> meta]

\* walkServiceMetaFiles visits the top level only.
Decoded == {p \in TopPlaces : metas[p].decodes}
Valid(p) == validateServiceMeta(metas[p])

\* Mutant: the first of two services with one name is kept.
DiscoverFirst ==
  {strictServiceFromMeta(p, metas[p]) :
     p \in {q \in Decoded : Valid(q) /\ \A r \in Decoded :
              Valid(r) /\ metas[r].name = metas[q].name =>
                q = CHOOSE x \in {y \in Decoded : Valid(y) /\ metas[y].name = metas[q].name} : TRUE}}

DiscoverServices ==
  {strictServiceFromMeta(p, metas[p]) :
     p \in {q \in Decoded : Valid(q) /\ \A r \in Decoded \ {q} : Valid(r) => metas[r].name # metas[q].name}}

\* One candidate, and it is valid; otherwise an error.
TheOnly(candidates) ==
  IF Cardinality(candidates) = 1 /\ \A p \in candidates : Valid(p)
  THEN LET p == CHOOSE q \in candidates : TRUE IN strictServiceFromMeta(p, metas[p])
  ELSE NoService_

FindService(name) == TheOnly({p \in Decoded : metas[p].name = name})
FindCaddyInfraService == TheOnly({p \in Decoded : "caddy" \in metas[p].infra})
FindRusticInfraService == TheOnly({p \in Decoded : "rustic" \in metas[p].infra})

\* At a revision the directory is known, and other services do not matter.
FindServiceAtRevision(p, revision) ==
  IF revision[p].decodes /\ validateServiceMeta(revision[p])
  THEN strictServiceFromMeta(p, revision[p]) ELSE NoService_

\* Here a file that does not decode is an error.
FindRusticInfraServiceAtRevision ==
  IF \A p \in TopPlaces : metas[p] # NoMeta => metas[p].decodes
  THEN FindRusticInfraService ELSE NoService_

\* The places with an error; nested files are checked too.
ValidateRepo ==
  LET written == {p \in Places : metas[p] # NoMeta}
      good == {p \in written : metas[p].decodes /\ Valid(p)}
      twice == {p \in good : \E q \in good \ {p} : metas[q].name = metas[p].name}
      Several(kind) == {p \in good : kind \in metas[p].infra /\
                                     \E q \in good \ {p} : kind \in metas[q].infra}
  IN (written \ good) \cup twice \cup Several("caddy") \cup Several("rustic")

\* The nearest directory with a meta file; one that does not decode ends the
\* search.  A file of the root may only meet a meta file above the repository.
NearestMeta(p) ==
  IF p # RepoRoot /\ metas[p] # NoMeta THEN {p}
  ELSE IF p \in DOMAIN NestedIn /\ metas[NestedIn[p]] # NoMeta THEN {NestedIn[p]} ELSE {}
AffectedServicesFromChangedFiles(changed) ==
  {metas[p].name : p \in {q \in UNION {NearestMeta(c) : c \in changed} :
                            metas[q].decodes /\ metas[q].name # ""}}

EnabledBackupDataNames(meta) == {b.name : b \in {x \in Range(meta.backup) : x.enabled}}
ValidateRequestedBackupDataNames(meta, requested) ==
  IF requested = {} THEN EnabledBackupDataNames(meta)
  ELSE IF requested \subseteq EnabledBackupDataNames(meta) THEN requested ELSE {}

-----------------------------------------------------------------------------
MetaInit ==
  /\ metas = [p \in Places |-> NoMeta] /\ nodeSet \in NodeChoices
  /\ changedAt = {} /\ pinned = NoService_ /\ metaWrites = 0

Commit(files, changed) ==
  /\ metaWrites < MaxMetaWrites /\ metaWrites' = metaWrites + 1
  /\ metas' = files /\ changedAt' = changed
  /\ UNCHANGED <<nodeSet, pinned>>

WriteMeta(p, meta) == meta # metas[p] /\ Commit([metas EXCEPT ![p] = meta], {p})
WriteFile(p) == Commit(metas, {p})
MoveMeta(p, q) ==
  /\ metas[p] # NoMeta /\ metas[q] = NoMeta
  /\ Commit([metas EXCEPT ![p] = NoMeta, ![q] = metas[p]], {p, q})

\* A migration writes the new nodes into the file as it is at HEAD.
RewriteServiceTargetNodes(name, from, to) ==
  LET service == FindService(name)
      nodes == SelectSeq(service.nodes, LAMBDA n : n \notin {from, to}) \o <<to>>
      meta == [metas[service.at] EXCEPT !.nodes = nodes]
  IN /\ service # NoService_ /\ from \in Range(service.nodes) /\ from # to
     /\ validateServiceMeta(meta)
     /\ Commit([metas EXCEPT ![service.at] = meta], {service.at})

\* A task is admitted for the service at HEAD and keeps its revision.
AdmitAtHead(name) ==
  /\ pinned = NoService_ /\ FindService(name) # NoService_
  /\ pinned' = [at |-> FindService(name).at, service |-> FindService(name), revision |-> metas, nodes |-> nodeSet]
  /\ UNCHANGED <<metas, nodeSet, changedAt, metaWrites>>

ReconfigureNodes(nodes) ==
  /\ nodes # nodeSet /\ nodeSet' = nodes
  /\ UNCHANGED <<metas, changedAt, pinned, metaWrites>>

ServiceNames == {m.name : m \in MetaChoices}
MetaNext ==
  \/ \E p \in Places : (\E meta \in MetaChoices : WriteMeta(p, meta)) \/ WriteFile(p)
  \/ \E p, q \in Places : MoveMeta(p, q)
  \/ WriteFile(RepoRoot)
  \/ \E name \in ServiceNames :
       \/ AdmitAtHead(name)
       \/ \E from, to \in UNION NodeChoices : RewriteServiceTargetNodes(name, from, to)
  \/ \E nodes \in NodeChoices : ReconfigureNodes(nodes)

MetaSpec == MetaInit /\ [][MetaNext]_metaVars

-----------------------------------------------------------------------------
\* What a command acts on is what the table of services lists, and a listed
\* service is refused only when a broken file claims its name.
ReadersAgree ==
  \A name \in ServiceNames :
    LET found == FindService(name)
        listed == {s \in DiscoverServices : s.name = name}
    IN /\ Cardinality(listed) <= 1
       /\ found # NoService_ => listed = {found}
       /\ listed # {} /\ found = NoService_ =>
            \E p \in Decoded : metas[p].name = name /\ ~Valid(p)

\* A repository without complaints has no service that cannot be used.
ValidatedIsUsable ==
  ValidateRepo = {} =>
    /\ \A p \in TopPlaces : metas[p] # NoMeta =>
         FindService(metas[p].name) = strictServiceFromMeta(p, metas[p])
    /\ Cardinality({p \in Decoded : "caddy" \in metas[p].infra}) <= 1
    /\ FindRusticInfraServiceAtRevision = FindRusticInfraService

\* The rustic service a backup finds at its revision is the one it was
\* admitted with.
RusticAgrees ==
  FindRusticInfraServiceAtRevision # NoService_ => FindRusticInfraServiceAtRevision = FindRusticInfraService

\* A task acts on the declaration it was admitted with, whatever is committed
\* later; only the set of nodes may change under it.
TaskKeepsItsDeclaration ==
  pinned # NoService_ /\ pinned.nodes = nodeSet =>
    FindServiceAtRevision(pinned.at, pinned.revision) = pinned.service

\* A listed service whose files change is deployed again, unless the change
\* lies in a directory with a meta file of its own.
ChangesAreNoticed ==
  \A p \in changedAt : \A s \in DiscoverServices :
    s.at = p \/ (p \in DOMAIN NestedIn /\ NestedIn[p] = s.at /\ metas[p] = NoMeta) =>
      s.name \in AffectedServicesFromChangedFiles(changedAt)

\* What a valid service wants to back up or migrate can be carried out, and
\* its DNS records do not contradict each other.
ValidIsExecutable ==
  \A s \in DiscoverServices :
    /\ \A n \in EnabledBackupDataNames(s.meta) \cup Range(s.meta.migrate) :
         \E item \in Range(s.meta.data) : item.name = n /\ \A a \in item.backup :
           ("config" \in s.meta.infra => a.strategy \notin {"files.copy_after_stop", "database.pgdumpall"})
    /\ \A b \in Range(s.meta.backup) : b.enabled =>
         ValidateRequestedBackupDataNames(s.meta, {b.name}) = {b.name}
    /\ s.nodes # <<>> /\ Range(s.nodes) \subseteq nodeSet

\* The readers of the repository agree about the services it declares
\* (core/repo/services.go, service_revision.go, validate.go).
DeclarationsAgree ==
  /\ ReadersAgree /\ ValidatedIsUsable /\ RusticAgrees /\ TaskKeepsItsDeclaration
  /\ ChangesAreNoticed /\ ValidIsExecutable
=============================================================================
