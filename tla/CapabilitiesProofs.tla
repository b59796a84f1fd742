------------------------- MODULE CapabilitiesProofs -------------------------
(***************************************************************************)
(* Why the readers of the repository agree about its services, and why what *)
(* users are shown fits what is admitted, for any repositories, nodes and   *)
(* configurations.  And why the log of a task that users read is what its    *)
(* agent wrote, for any broken streams, failing writes and restored          *)
(* databases.                                                               *)
(***************************************************************************)
EXTENDS Capabilities, TaskLogUpload, SequenceTheorems, FiniteSetTheorems, WellFoundedInduction, TLAPS

-----------------------------------------------------------------------------
(* The readers *)

\* A service of the repository is not the absence of one.
LEMMA ServiceIsNotNone ==
  ASSUME NEW p, NEW meta
  PROVE  strictServiceFromMeta(p, meta) # NoService_
<1>1. "name" \in DOMAIN strictServiceFromMeta(p, meta)
  BY DEF strictServiceFromMeta
<1>2. "name" \notin DOMAIN NoService_
  BY DEF NoService_
<1> QED  BY <1>1, <1>2

LEMMA ServiceFields ==
  ASSUME NEW p, NEW meta
  PROVE  /\ strictServiceFromMeta(p, meta).at = p
         /\ strictServiceFromMeta(p, meta).name = meta.name
         /\ strictServiceFromMeta(p, meta).nodes = normalizedTargetNodes(meta)
         /\ strictServiceFromMeta(p, meta).meta = meta
  BY DEF strictServiceFromMeta

\* Cardinality speaks of one candidate.
LEMMA OneCandidate ==
  ASSUME NEW S \in SUBSET TopPlaces
  PROVE  /\ IsFiniteSet(S)
         /\ Cardinality(S) = 1 <=> \E p : S = {p}
<1>1. IsFiniteSet(S)
  BY FS_Subset, MetaAssumption
<1> QED  BY <1>1, FS_Singleton

LEMMA AtMostOne ==
  ASSUME NEW S, \A p, q \in S : p = q
  PROVE  Cardinality(S) <= 1
<1>1. CASE S = {}
  <2>1. Cardinality(S) = 0
    BY <1>1, FS_EmptySet
  <2> QED  BY <2>1
<1>2. CASE S # {}
  <2>1. PICK p : S = {p}
    BY <1>2
  <2>2. Cardinality(S) = 1
    BY <2>1, FS_Singleton
  <2> QED  BY <2>2
<1> QED  BY <1>1, <1>2

\* TheOnly finds a service exactly when there is one candidate and it is valid.
LEMMA TheOnlyFinds ==
  ASSUME NEW S \in SUBSET TopPlaces
  PROVE  /\ TheOnly(S) # NoService_ =>
              \E p \in TopPlaces : S = {p} /\ Valid(p) /\ TheOnly(S) = strictServiceFromMeta(p, metas[p])
         /\ \A p : S = {p} /\ Valid(p) => TheOnly(S) = strictServiceFromMeta(p, metas[p])
<1>1. ASSUME NEW p, S = {p}, Valid(p)
      PROVE  TheOnly(S) = strictServiceFromMeta(p, metas[p])
  <2>1. Cardinality(S) = 1 /\ \A q \in S : Valid(q)
    BY <1>1, OneCandidate
  <2>2. (CHOOSE q \in S : TRUE) = p
    BY <1>1
  <2> QED  BY <2>1, <2>2 DEF TheOnly
<1>2. ASSUME TheOnly(S) # NoService_
      PROVE  \E p \in TopPlaces : S = {p} /\ Valid(p) /\ TheOnly(S) = strictServiceFromMeta(p, metas[p])
  <2>1. Cardinality(S) = 1 /\ \A q \in S : Valid(q)
    BY <1>2 DEF TheOnly
  <2>2. PICK p : S = {p}
    BY <2>1, OneCandidate
  <2> QED  BY <2>1, <2>2, <1>1
<1> QED  BY <1>1, <1>2

Claiming(name) == {p \in Decoded : metas[p].name = name}

\* FindService speaks of the places that claim a name.
LEMMA FoundService ==
  ASSUME NEW name
  PROVE  /\ FindService(name) # NoService_ =>
              \E p \in Decoded : /\ Claiming(name) = {p} /\ Valid(p) /\ metas[p].name = name
                                 /\ FindService(name) = strictServiceFromMeta(p, metas[p])
         /\ \A p : Claiming(name) = {p} /\ Valid(p) => FindService(name) = strictServiceFromMeta(p, metas[p])
<1>1. Claiming(name) \in SUBSET TopPlaces /\ FindService(name) = TheOnly(Claiming(name))
  BY DEF Claiming, Decoded, FindService
<1>2. \A p : Claiming(name) = {p} => p \in Decoded /\ metas[p].name = name
  BY DEF Claiming
<1> QED  BY <1>1, <1>2, TheOnlyFinds

\* A listed service is the valid one at its place, and no other valid one has
\* its name.
Listed(q) == q \in Decoded /\ Valid(q) /\ \A r \in Decoded \ {q} : Valid(r) => metas[r].name # metas[q].name

LEMMA ListedService ==
  /\ \A s \in DiscoverServices :
       /\ s.at \in TopPlaces /\ Listed(s.at) /\ s = strictServiceFromMeta(s.at, metas[s.at])
       /\ s.name = metas[s.at].name /\ s.meta = metas[s.at] /\ s.nodes = normalizedTargetNodes(metas[s.at])
  /\ \A q : Listed(q) => strictServiceFromMeta(q, metas[q]) \in DiscoverServices
<1>1. \A s : s \in DiscoverServices <=> \E q : Listed(q) /\ s = strictServiceFromMeta(q, metas[q])
  BY DEF DiscoverServices, Listed
<1>2. \A q : Listed(q) => q \in TopPlaces
  BY DEF Listed, Decoded
<1> QED  BY <1>1, <1>2, ServiceFields

LEMMA ReadersAgreeOn ==
  ASSUME NEW name
  PROVE  LET found == FindService(name)
             listed == {s \in DiscoverServices : s.name = name}
         IN /\ Cardinality(listed) <= 1
            /\ found # NoService_ => listed = {found}
            /\ listed # {} /\ found = NoService_ =>
                 \E p \in Decoded : metas[p].name = name /\ ~Valid(p)
<1> DEFINE found == FindService(name)
           listed == {s \in DiscoverServices : s.name = name}
<1>1. \A s, t \in listed : s = t
  BY ListedService DEF Listed
<1>2. Cardinality(listed) <= 1
  BY <1>1, AtMostOne
<1>3. ASSUME found # NoService_
      PROVE  listed = {found}
  <2>1. PICK p \in Decoded : /\ Claiming(name) = {p} /\ Valid(p) /\ metas[p].name = name
                             /\ found = strictServiceFromMeta(p, metas[p])
    BY <1>3, FoundService
  <2>2. Listed(p)
    BY <2>1 DEF Listed, Claiming
  <2>3. found \in listed
    BY <2>1, <2>2, ListedService, ServiceFields
  <2> QED  BY <2>3, <1>1
<1>4. ASSUME listed # {}, found = NoService_
      PROVE  \E p \in Decoded : metas[p].name = name /\ ~Valid(p)
  <2>1. PICK s \in DiscoverServices : s.name = name
    BY <1>4
  <2>2. Listed(s.at) /\ metas[s.at].name = name
    BY <2>1, ListedService
  <2>3. SUFFICES ASSUME \A p \in Decoded : metas[p].name = name => Valid(p)
                 PROVE  FALSE
    OBVIOUS
  <2>4. Claiming(name) = {s.at}
    BY <2>2, <2>3 DEF Claiming, Listed
  <2>5. Valid(s.at)
    BY <2>2 DEF Listed
  <2> QED  BY <1>4, <2>4, <2>5, FoundService, ServiceIsNotNone
<1> QED  BY <1>2, <1>3, <1>4

LEMMA ReadersDoAgree == ReadersAgree
<1> SUFFICES ASSUME NEW name \in ServiceNames
             PROVE  LET found == FindService(name)
                        listed == {s \in DiscoverServices : s.name = name}
                    IN /\ Cardinality(listed) <= 1
                       /\ found # NoService_ => listed = {found}
                       /\ listed # {} /\ found = NoService_ =>
                            \E p \in Decoded : metas[p].name = name /\ ~Valid(p)
  BY DEF ReadersAgree
<1> QED  BY ReadersAgreeOn

\* The places ValidateRepo accepts.
Written == {p \in Places : metas[p] # NoMeta}
LEMMA NoComplaints ==
  ASSUME ValidateRepo = {}
  PROVE  /\ \A p \in Written : metas[p].decodes /\ Valid(p)
         /\ \A p, q \in Written : p # q =>
              /\ metas[p].name # metas[q].name
              /\ ~("caddy" \in metas[p].infra /\ "caddy" \in metas[q].infra)
              /\ ~("rustic" \in metas[p].infra /\ "rustic" \in metas[q].infra)
<1> DEFINE good == {p \in Written : metas[p].decodes /\ Valid(p)}
           twice == {p \in good : \E q \in good \ {p} : metas[q].name = metas[p].name}
           Several(kind) == {p \in good : kind \in metas[p].infra /\
                                          \E q \in good \ {p} : kind \in metas[q].infra}
<1>1. ValidateRepo = (Written \ good) \cup twice \cup Several("caddy") \cup Several("rustic")
  BY DEF ValidateRepo, Written
<1>2. Written \ good = {} /\ twice = {} /\ Several("caddy") = {} /\ Several("rustic") = {}
  BY <1>1
<1>3. \A p \in Written : metas[p].decodes /\ Valid(p)
  BY <1>2
<1>4. good = Written
  BY <1>3
<1>5. \A p, q \in Written : p # q => metas[p].name # metas[q].name
  BY <1>2, <1>4
<1>6. \A p, q \in Written : p # q => ~("caddy" \in metas[p].infra /\ "caddy" \in metas[q].infra)
  BY <1>2, <1>4
<1>7. \A p, q \in Written : p # q => ~("rustic" \in metas[p].infra /\ "rustic" \in metas[q].infra)
  BY <1>2, <1>4
<1> QED  BY <1>3, <1>5, <1>6, <1>7

\* What decodes is written.
LEMMA DecodedIsWritten == Decoded \subseteq Written /\ \A p \in Written : p \in TopPlaces /\ metas[p].decodes => p \in Decoded
<1>1. NoMeta.decodes = FALSE
  BY DEF NoMeta
<1> QED  BY <1>1 DEF Decoded, Written, Places

LEMMA ValidatedDoesWork == ValidatedIsUsable
<1> SUFFICES ASSUME ValidateRepo = {}
             PROVE  /\ \A p \in TopPlaces : metas[p] # NoMeta =>
                         FindService(metas[p].name) = strictServiceFromMeta(p, metas[p])
                    /\ Cardinality({p \in Decoded : "caddy" \in metas[p].infra}) <= 1
                    /\ FindRusticInfraServiceAtRevision = FindRusticInfraService
  BY DEF ValidatedIsUsable
<1>1. ASSUME NEW p \in TopPlaces, metas[p] # NoMeta
      PROVE  FindService(metas[p].name) = strictServiceFromMeta(p, metas[p])
  <2>1. p \in Written
    BY <1>1 DEF Written, Places
  <2>2. Valid(p) /\ p \in Decoded
    BY <2>1, NoComplaints, DecodedIsWritten
  <2>3. Claiming(metas[p].name) = {p}
    BY <2>1, <2>2, NoComplaints, DecodedIsWritten DEF Claiming
  <2> QED  BY <2>2, <2>3, FoundService
<1>2. Cardinality({p \in Decoded : "caddy" \in metas[p].infra}) <= 1
  <2> DEFINE S == {p \in Decoded : "caddy" \in metas[p].infra}
  <2>1. \A p, q \in S : p = q
    <3> SUFFICES ASSUME NEW p \in S, NEW q \in S
                 PROVE  p = q
      OBVIOUS
    <3>1. p \in Written /\ q \in Written /\ "caddy" \in metas[p].infra /\ "caddy" \in metas[q].infra
      BY DecodedIsWritten
    <3> QED  BY <3>1, NoComplaints
  <2> QED  BY <2>1, AtMostOne
<1>3. \A p \in TopPlaces : metas[p] # NoMeta => metas[p].decodes
  BY NoComplaints DEF Written, Places
<1> QED  BY <1>1, <1>2, <1>3 DEF FindRusticInfraServiceAtRevision

LEMMA RusticDoesAgree == RusticAgrees
  BY DEF RusticAgrees, FindRusticInfraServiceAtRevision

LEMMA ChangesDoGetNoticed == ChangesAreNoticed
<1> SUFFICES ASSUME NEW p \in changedAt, NEW s \in DiscoverServices,
                    s.at = p \/ (p \in DOMAIN NestedIn /\ NestedIn[p] = s.at /\ metas[p] = NoMeta)
             PROVE  s.name \in AffectedServicesFromChangedFiles(changedAt)
  BY DEF ChangesAreNoticed
<1>1. s.at \in TopPlaces /\ s.at \in Decoded /\ Valid(s.at) /\ s.name = metas[s.at].name
  BY ListedService DEF Listed
<1>2. metas[s.at] # NoMeta /\ metas[s.at].decodes /\ metas[s.at].name # ""
  BY <1>1, DecodedIsWritten DEF Written, Decoded, Valid, validateServiceMeta
<1>3. p # RepoRoot
  BY <1>1, MetaAssumption DEF Places
<1>4. s.at \in NearestMeta(p)
  BY <1>2, <1>3 DEF NearestMeta
<1>5. s.at \in UNION {NearestMeta(c) : c \in changedAt}
  BY <1>4
<1> QED  BY <1>1, <1>2, <1>5 DEF AffectedServicesFromChangedFiles

LEMMA ValidDoesExecute == ValidIsExecutable
<1> SUFFICES ASSUME NEW s \in DiscoverServices
             PROVE  /\ \A n \in EnabledBackupDataNames(s.meta) \cup Range(s.meta.migrate) :
                         \E item \in Range(s.meta.data) : item.name = n /\ \A a \in item.backup :
                           ("config" \in s.meta.infra => a.strategy \notin {"files.copy_after_stop", "database.pgdumpall"})
                    /\ \A b \in Range(s.meta.backup) : b.enabled =>
                         ValidateRequestedBackupDataNames(s.meta, {b.name}) = {b.name}
                    /\ s.nodes # <<>> /\ Range(s.nodes) \subseteq nodeSet
  BY DEF ValidIsExecutable
<1> DEFINE meta == s.meta
<1>1. validateServiceMeta(meta) /\ s.nodes = normalizedTargetNodes(meta)
  BY ListedService DEF Listed, Valid
<1> HIDE DEF meta
<1>2. ASSUME NEW n \in EnabledBackupDataNames(meta) \cup Range(meta.migrate)
      PROVE  \E item \in Range(meta.data) : item.name = n /\ \A a \in item.backup :
               ("config" \in meta.infra => a.strategy \notin {"files.copy_after_stop", "database.pgdumpall"})
  <2>1. PICK item \in Range(meta.data) : item.name = n
    <3>1. (\E b \in Range(meta.backup) : b.name = n) \/ n \in Range(meta.migrate)
      BY DEF EnabledBackupDataNames
    <3>2. /\ \A b \in Range(meta.backup) : \E item \in Range(meta.data) : item.name = b.name
          /\ \A m \in Range(meta.migrate) : \E item \in Range(meta.data) : item.name = m
      BY <1>1 DEF validateServiceMeta
    <3> QED  BY <3>1, <3>2
  <2>2. "config" \in meta.infra => \A a \in item.backup \cup item.restore : a.strategy = "files.copy"
    BY <1>1 DEF validateServiceMeta, validateConfigInfra
  <2> QED  BY <2>1, <2>2
<1>3. ASSUME NEW b \in Range(meta.backup), b.enabled
      PROVE  ValidateRequestedBackupDataNames(meta, {b.name}) = {b.name}
  BY <1>3 DEF ValidateRequestedBackupDataNames, EnabledBackupDataNames
<1>4. s.nodes # <<>> /\ Range(s.nodes) \subseteq nodeSet
  BY <1>1 DEF validateServiceMeta
<1> QED  BY <1>2, <1>3, <1>4 DEF meta

-----------------------------------------------------------------------------
(* The declaration of a task                                                *)

\* Validation against a given set of nodes.
ValidFor(nodes, meta) ==
  /\ meta.name # ""
  /\ LET targets == normalizedTargetNodes(meta)
     IN targets # <<>> /\ Range(targets) \subseteq nodes /\ Distinct(targets)
  /\ validateNetwork(meta) /\ NormalizedComposeFiles(meta)
  /\ "config" \in meta.infra => validateConfigInfra(meta)
  /\ ~meta.blankInfraArg
  /\ \A item \in Range(meta.data) : item.name # "" /\ validateDataProtectItem(item)
  /\ Distinct(NamesOf(meta.data))
  /\ \A b \in Range(meta.backup) :
       b.schedule # "bad" /\ \E item \in Range(meta.data) : item.name = b.name /\ item.backup # {}
  /\ \A n \in Range(meta.migrate) :
       \E item \in Range(meta.data) : item.name = n /\ item.backup # {} /\ item.restore # {}

LEMMA ValidForNodes ==
  ASSUME NEW meta
  PROVE  validateServiceMeta(meta) <=> ValidFor(nodeSet, meta)
  BY DEF validateServiceMeta, ValidFor

\* What a task keeps was valid for the nodes of its admission.
PinnedInv ==
  pinned # NoService_ =>
    /\ pinned.revision[pinned.at].decodes
    /\ ValidFor(pinned.nodes, pinned.revision[pinned.at])
    /\ pinned.service = strictServiceFromMeta(pinned.at, pinned.revision[pinned.at])

LEMMA PinnedKeepsItsDeclaration == PinnedInv => TaskKeepsItsDeclaration
<1> SUFFICES ASSUME PinnedInv, pinned # NoService_, pinned.nodes = nodeSet
             PROVE  FindServiceAtRevision(pinned.at, pinned.revision) = pinned.service
  BY DEF TaskKeepsItsDeclaration
<1>1. pinned.revision[pinned.at].decodes /\ validateServiceMeta(pinned.revision[pinned.at])
  BY ValidForNodes DEF PinnedInv
<1> QED  BY <1>1 DEF PinnedInv, FindServiceAtRevision

LEMMA PinnedIsEnough == PinnedInv => DeclarationsAgree
  BY ReadersDoAgree, ValidatedDoesWork, RusticDoesAgree, PinnedKeepsItsDeclaration,
     ChangesDoGetNoticed, ValidDoesExecute DEF DeclarationsAgree

LEMMA PinnedAtAdmission ==
  ASSUME NEW name, AdmitAtHead(name)
  PROVE  PinnedInv'
<1> DEFINE s == FindService(name)
<1>1. s # NoService_ /\ pinned' = [at |-> s.at, service |-> s, revision |-> metas, nodes |-> nodeSet]
  BY DEF AdmitAtHead
<1>2. PICK p \in Decoded : Valid(p) /\ s = strictServiceFromMeta(p, metas[p])
  BY <1>1, FoundService
<1>3. s.at = p
  BY <1>2, ServiceFields
<1>4. metas[p].decodes /\ ValidFor(nodeSet, metas[p])
  BY <1>2, ValidForNodes DEF Decoded, Valid
<1> HIDE DEF s
<1>5. /\ pinned'.at = p /\ pinned'.service = s /\ pinned'.revision = metas /\ pinned'.nodes = nodeSet
  BY <1>1, <1>3
<1>6. PinnedInv' = (pinned' # NoService_ =>
        /\ pinned'.revision[pinned'.at].decodes
        /\ ValidFor(pinned'.nodes, pinned'.revision[pinned'.at])
        /\ pinned'.service = strictServiceFromMeta(pinned'.at, pinned'.revision[pinned'.at]))
  BY DEF PinnedInv
<1> QED  BY <1>2, <1>4, <1>5, <1>6

LEMMA PinnedStays ==
  ASSUME PinnedInv, UNCHANGED pinned
  PROVE  PinnedInv'
  BY DEF PinnedInv

\* The readers of the repository agree, whatever is committed, moved, rewritten
\* and configured, and a task acts on the declaration it was admitted with
\* (core/repo/services.go, service_revision.go, validate.go).
THEOREM DeclarationsSound == MetaSpec => []DeclarationsAgree
<1>1. MetaInit => PinnedInv
  BY DEF MetaInit, PinnedInv
<1>2. PinnedInv /\ [MetaNext]_metaVars => PinnedInv'
  <2> SUFFICES ASSUME PinnedInv, [MetaNext]_metaVars
               PROVE  PinnedInv'
    OBVIOUS
  <2>1. ASSUME NEW name, AdmitAtHead(name)
        PROVE  PinnedInv'
    BY <2>1, PinnedAtAdmission
  <2>2. ASSUME UNCHANGED pinned
        PROVE  PinnedInv'
    BY <2>2, PinnedStays
  <2>3. (\E name : AdmitAtHead(name)) \/ UNCHANGED pinned
    BY DEF MetaNext, metaVars, WriteMeta, WriteFile, MoveMeta, RewriteServiceTargetNodes, Commit, ReconfigureNodes
  <2> QED  BY <2>1, <2>2, <2>3
<1> QED  BY <1>1, <1>2, PinnedIsEnough, PTL DEF MetaSpec

-----------------------------------------------------------------------------
(* The reasons of capabilities                                              *)

\* The first reason that is given, or none.
LEMMA TheFirstReason ==
  ASSUME NEW s, DOMAIN s \subseteq Nat
  PROVE  /\ FirstReason(s) = "" <=> \A i \in DOMAIN s : s[i] = ""
         /\ FirstReason(s) # "" => \E i \in DOMAIN s : s[i] # "" /\ FirstReason(s) = s[i]
<1> DEFINE given == {i \in DOMAIN s : s[i] # ""}
           first == CHOOSE i \in given : \A j \in given : i <= j
<1>1. FirstReason(s) = IF given = {} THEN "" ELSE s[first]
  BY DEF FirstReason
<1>2. CASE given = {}
  BY <1>1, <1>2
<1>3. CASE given # {}
  <2>1. given \subseteq Nat
    OBVIOUS
  <2> HIDE DEF given
  <2> DEFINE smaller == {ss \in Nat \X Nat : ss[1] < ss[2]}
  <2>2. IsWellFoundedOn(smaller, Nat)
    BY NatLessThanWellFounded DEF OpToRel
  <2>3. \E i \in given : \A j \in given : i <= j
    <3>1. PICK i \in given : \A j \in given : <<j, i>> \notin smaller
      BY <1>3, <2>1, <2>2, WFMin
    <3>2. ASSUME NEW j \in given, ~(i <= j)
          PROVE  FALSE
      <4>1. i \in Nat /\ j \in Nat
        BY <2>1
      <4>2. j < i
        BY <3>2, <4>1
      <4>3. <<j, i>> \in smaller
        BY <4>1, <4>2
      <4> QED  BY <3>1, <4>3
    <3> QED  BY <3>2
  <2>4. first \in given
    BY <2>3
  <2>5. FirstReason(s) = s[first] /\ first \in DOMAIN s /\ s[first] # ""
    BY <1>1, <1>3, <2>4 DEF given
  <2> QED  BY <2>5
<1> QED  BY <1>2, <1>3

LEMMA FirstOfTwo ==
  ASSUME NEW a, NEW b
  PROVE  /\ FirstReason(<<a, b>>) = "" <=> a = "" /\ b = ""
         /\ FirstReason(<<a, b>>) # "" => FirstReason(<<a, b>>) \in {a, b} \ {""}
<1> DEFINE s == <<a, b>>
<1>1. DOMAIN s = 1..2 /\ s[1] = a /\ s[2] = b
  OBVIOUS
<1> HIDE DEF s
<1>2. DOMAIN s \subseteq Nat /\ \A i : i \in DOMAIN s <=> i = 1 \/ i = 2
  BY <1>1
<1>3. /\ FirstReason(s) = "" <=> a = "" /\ b = ""
      /\ FirstReason(s) # "" => FirstReason(s) \in {a, b} \ {""}
  BY <1>1, <1>2, TheFirstReason
<1> QED  BY <1>3 DEF s

LEMMA FirstOfThree ==
  ASSUME NEW a, NEW b, NEW c
  PROVE  /\ FirstReason(<<a, b, c>>) = "" <=> a = "" /\ b = "" /\ c = ""
         /\ FirstReason(<<a, b, c>>) # "" => FirstReason(<<a, b, c>>) \in {a, b, c} \ {""}
<1> DEFINE s == <<a, b, c>>
<1>1. DOMAIN s = 1..3 /\ s[1] = a /\ s[2] = b /\ s[3] = c
  OBVIOUS
<1> HIDE DEF s
<1>2. DOMAIN s \subseteq Nat /\ \A i : i \in DOMAIN s <=> i = 1 \/ i = 2 \/ i = 3
  BY <1>1
<1>3. /\ FirstReason(s) = "" <=> a = "" /\ b = "" /\ c = ""
      /\ FirstReason(s) # "" => FirstReason(s) \in {a, b, c} \ {""}
  BY <1>1, <1>2, TheFirstReason
<1> QED  BY <1>3 DEF s

\* A node's capability is the check of the request.
LEMMA NodeCapability ==
  ASSUME NEW n, NEW type
  PROVE  taskTargetNodeCapability(n, type) = "" <=> validateTaskTargetNode(n, type)
<1> DEFINE a == When(n \notin nodeSet, "node_not_eligible")
           b == When(n \in setup.disabled, "node_disabled")
           c == When(RequiresOnlineNode(type) /\ n \notin online, "node_offline")
<1>1. /\ a = "" <=> n \in nodeSet
      /\ b = "" <=> n \notin setup.disabled
      /\ c = "" <=> (RequiresOnlineNode(type) => n \in online)
  BY DEF When
<1>2. taskTargetNodeCapability(n, type) = FirstReason(<<a, b, c>>)
  BY DEF taskTargetNodeCapability
<1> HIDE DEF a, b, c
<1>3. FirstReason(<<a, b, c>>) = "" <=> a = "" /\ b = "" /\ c = ""
  BY FirstOfThree
<1> QED  BY <1>1, <1>2, <1>3 DEF validateTaskTargetNode

LEMMA NodesCapability ==
  ASSUME NEW nodes, nodes # <<>>, DOMAIN nodes \subseteq Nat, NEW type
  PROVE  taskTargetNodesCapability(nodes, type) = "" <=>
           \A n \in Range(nodes) : validateTaskTargetNode(n, type)
<1> DEFINE s == [i \in DOMAIN nodes |-> taskTargetNodeCapability(nodes[i], type)]
<1>1. taskTargetNodesCapability(nodes, type) = FirstReason(s)
  BY DEF taskTargetNodesCapability
<1>2. DOMAIN s = DOMAIN nodes /\ \A i \in DOMAIN nodes : s[i] = taskTargetNodeCapability(nodes[i], type)
  OBVIOUS
<1> HIDE DEF s
<1>3. FirstReason(s) = "" <=> \A i \in DOMAIN nodes : s[i] = ""
  BY <1>2, TheFirstReason
<1>4. \A i \in DOMAIN nodes : s[i] = "" <=> validateTaskTargetNode(nodes[i], type)
  BY <1>2, NodeCapability
<1> QED  BY <1>1, <1>3, <1>4 DEF Range

-----------------------------------------------------------------------------
(* The service that is asked about                                          *)

\* The files list finitely many nodes.
FilesFinite == \A p \in TopPlaces : metas[p].decodes => IsFiniteSet(DOMAIN metas[p].nodes)

LEMMA FirstElement ==
  ASSUME NEW S, NEW c \in Nat, NEW f \in [1..c -> S], f # <<>>
  PROVE  1 \in 1..c
<1>1. f \in Seq(S)
  BY SeqDef
<1>2. Len(f) \in Nat \ {0} /\ DOMAIN f = 1..Len(f) /\ DOMAIN f = 1..c
  BY <1>1, EmptySeq, LenProperties
<1>3. 1 \in 1..Len(f)
  BY <1>2
<1> QED  BY <1>2, <1>3

LEMMA ServiceNodes ==
  ASSUME NEW meta, IsFiniteSet(DOMAIN meta.nodes)
  PROVE  /\ DOMAIN normalizedTargetNodes(meta) \subseteq Nat
         /\ normalizedTargetNodes(meta) # <<>> => Range(normalizedTargetNodes(meta)) # {}
<1> DEFINE named == {i \in DOMAIN meta.nodes : meta.nodes[i] # " "}
           c == Cardinality(named)
           At(k) == CHOOSE i \in named : Cardinality({j \in named : j <= i}) = k
           nodes == [k \in 1..c |-> meta.nodes[At(k)]]
<1>1. normalizedTargetNodes(meta) = nodes
  BY DEF normalizedTargetNodes
<1>2. c \in Nat
  BY FS_Subset, FS_CardinalityType
<1>3. DOMAIN nodes = 1..c
  OBVIOUS
<1>4. nodes \in [1..c -> Range(nodes)]
  BY <1>3 DEF Range
<1> HIDE DEF nodes, c
<1>5. 1..c \subseteq Nat
  BY <1>2
<1>6. nodes # <<>> => 1 \in 1..c
  BY <1>2, <1>4, FirstElement
<1>7. nodes # <<>> => nodes[1] \in Range(nodes)
  BY <1>3, <1>6 DEF Range
<1> QED  BY <1>1, <1>3, <1>5, <1>7

\* A service that is found is a listed one, with nodes.
LEMMA TheService ==
  ASSUME FilesFinite, NEW svc, svc = FindService(Web), svc # NoService_
  PROVE  /\ svc.name = Web /\ svc \in DiscoverServices
         /\ svc.nodes # <<>> /\ DOMAIN svc.nodes \subseteq Nat
         /\ Range(svc.nodes) # {} /\ Range(svc.nodes) \subseteq nodeSet
         /\ \A p \in TopPlaces : metas[p].decodes /\ metas[p].name = Web =>
              svc = strictServiceFromMeta(p, metas[p]) /\ Valid(p)
         /\ svc.at \in Decoded /\ Valid(svc.at) /\ metas[svc.at].name = Web
         /\ svc = strictServiceFromMeta(svc.at, metas[svc.at])
<1>1. PICK p \in Decoded : /\ Claiming(Web) = {p} /\ Valid(p) /\ metas[p].name = Web
                           /\ svc = strictServiceFromMeta(p, metas[p])
  BY FoundService
<1>2. \A q \in TopPlaces : metas[q].decodes /\ metas[q].name = Web => q = p
  BY <1>1 DEF Claiming, Decoded
<1>3. svc.name = Web /\ svc.nodes = normalizedTargetNodes(metas[p]) /\ svc.at = p
  BY <1>1, ServiceFields
<1>4. svc \in DiscoverServices
  BY ReadersAgreeOn
<1>5. svc.nodes # <<>> /\ Range(svc.nodes) \subseteq nodeSet
  BY <1>1, <1>3 DEF Valid, validateServiceMeta
<1>6. IsFiniteSet(DOMAIN metas[p].nodes)
  BY <1>1 DEF FilesFinite, Decoded
<1>7. DOMAIN svc.nodes \subseteq Nat /\ Range(svc.nodes) # {}
  BY <1>3, <1>5, <1>6, ServiceNodes
<1> QED  BY <1>1, <1>2, <1>3, <1>4, <1>5, <1>7

\* Its instances are in an up-to-date table.
LEMMA DeclaredRows ==
  ASSUME InForce, NEW s \in DiscoverServices, NEW n \in Range(s.nodes)
  PROVE  <<s.name, n>> \in table
<1>1. {<<s.name, m>> : m \in Range(s.nodes)} \subseteq DeclaredInstances(DiscoverServices)
  BY DEF DeclaredInstances
<1> QED  BY <1>1 DEF InForce

LEMMA TableNames ==
  ASSUME InForce, NEW r \in table
  PROVE  \E s \in DiscoverServices : r[1] = s.name
<1>1. PICK s \in DiscoverServices : r \in {<<s.name, m>> : m \in Range(s.nodes)}
  BY DEF InForce, DeclaredInstances
<1> QED  BY <1>1

-----------------------------------------------------------------------------
(* Tasks                                                                    *)

LEMMA Creation ==
  ASSUME NEW tasks, NEW guarded
  PROVE  /\ Create(tasks, guarded).tasks \in {tasks, {}}
         /\ \A t \in Create(tasks, guarded).tasks : t.service # "" /\ t.node # "" => <<t.service, t.node>> \in rows
         /\ Create(tasks, guarded).code # "panic"
         /\ busyAt = {} /\ (\A t \in tasks : t.service # "" /\ t.node # "" => <<t.service, t.node>> \in rows) =>
              Create(tasks, guarded).code = ""
<1> DEFINE ofInstance == {t \in tasks : t.service # "" /\ t.node # ""}
           Indexed(t) == t.type \notin {"rustic_init", "rustic_forget", "rustic_prune"}
           a == guarded /\ \E t \in tasks : t.node \in busyAt
           b == \E t \in ofInstance : <<t.service, t.node>> \notin rows \/ (Indexed(t) /\ t.node \in busyAt)
           answer == IF a THEN Refused("failed_precondition") ELSE IF b THEN Refused("internal")
                     ELSE [tasks |-> tasks, code |-> ""]
<1>1. Create(tasks, guarded) = answer
  BY DEF Create
<1>2. busyAt = {} => ~a
  OBVIOUS
<1>3. ~b => \A t \in tasks : t.service # "" /\ t.node # "" => <<t.service, t.node>> \in rows
  OBVIOUS
<1>4. busyAt = {} /\ (\A t \in tasks : t.service # "" /\ t.node # "" => <<t.service, t.node>> \in rows) => ~b
  OBVIOUS
<1> HIDE DEF a, b
<1>5. /\ Refused("failed_precondition").tasks = {} /\ Refused("failed_precondition").code = "failed_precondition"
      /\ Refused("internal").tasks = {} /\ Refused("internal").code = "internal"
  BY DEF Refused
<1>6. \/ answer = Refused("failed_precondition") /\ a
      \/ answer = Refused("internal") /\ b
      \/ answer = [tasks |-> tasks, code |-> ""] /\ ~a /\ ~b
  OBVIOUS
<1> HIDE DEF answer
<1>7. CASE answer = Refused("failed_precondition") /\ a
  BY <1>1, <1>2, <1>4, <1>5, <1>7
<1>8. CASE answer = Refused("internal") /\ b
  BY <1>1, <1>2, <1>4, <1>5, <1>8
<1>9. CASE answer = [tasks |-> tasks, code |-> ""] /\ ~a /\ ~b
  <2>1. answer.tasks = tasks /\ answer.code = ""
    BY <1>9
  <2> QED  BY <1>1, <1>3, <1>9, <2>1
<1> QED  BY <1>6, <1>7, <1>8, <1>9

LEMMA Refusal ==
  ASSUME NEW code
  PROVE  Refused(code).tasks = {} /\ Refused(code).code = code
  BY DEF Refused

LEMMA KnownTypes ==
  ASSUME NEW type \in ControllerTypes \cup AgentTypes
  PROVE  /\ type \in AgentTypes <=> type \notin ControllerTypes
         /\ type \in AgentTypes => protoAgentTaskType(type) # <<"unspecified">>
         /\ taskTypesFromProto({protoTaskType(type)}) = {type}
<1>1. type \in AgentTypes <=> type \notin ControllerTypes
  BY DEF AgentTypes, ControllerTypes
<1>2. <<"agent task", type>> # <<"unspecified">>
  <2>1. Len(<<"agent task", type>>) = 2 /\ Len(<<"unspecified">>) = 1
    OBVIOUS
  <2> QED  BY <2>1
<1>3. type \in AgentTypes => protoAgentTaskType(type) = <<"agent task", type>>
  BY DEF protoAgentTaskType
<1>4. taskTypesFromProto({protoTaskType(type)}) = {type}
  <2>1. protoTaskType(type) = <<"task", type>>
    BY DEF protoTaskType
  <2>2. <<"task", type>>[1] = "task" /\ <<"task", type>>[2] = type
    OBVIOUS
  <2>3. taskTypeFromProto(<<"task", type>>) = {type}
    BY <2>2 DEF taskTypeFromProto
  <2>4. taskTypesFromProto({<<"task", type>>}) = taskTypeFromProto(<<"task", type>>)
    BY DEF taskTypesFromProto
  <2> QED  BY <2>1, <2>3, <2>4
<1> QED  BY <1>1, <1>2, <1>3, <1>4

Executable(t) ==
  /\ t.node # "" => /\ t.type \in AgentTypes => t.node \in online
                    /\ t.type # "prune" => t.node \in nodeSet \ setup.disabled
  /\ t.service # "" /\ t.node # "" => <<t.service, t.node>> \in rows
  /\ t.type \in AgentTypes <=> t.type \notin ControllerTypes
  /\ t.type \in AgentTypes => protoAgentTaskType(t.type) # <<"unspecified">>
  /\ taskTypesFromProto({protoTaskType(t.type)}) = {t.type}

LEMMA CreatedIsExecutable ==
  ASSUME NEW type \in ControllerTypes \cup AgentTypes, NEW service, NEW nodes, NEW guarded,
         \A n \in nodes : n # "" => /\ type \in AgentTypes => n \in online
                                    /\ type # "prune" => n \in nodeSet \ setup.disabled
  PROVE  \A t \in Create(TasksOn(type, service, nodes), guarded).tasks : Executable(t)
<1> SUFFICES ASSUME NEW t \in Create(TasksOn(type, service, nodes), guarded).tasks
             PROVE  Executable(t)
  OBVIOUS
<1>1. t \in TasksOn(type, service, nodes)
  BY Creation
<1>2. t.type = type /\ t.node \in nodes
  <2>1. PICK n \in nodes : t = [type |-> type, service |-> service, node |-> n]
    BY <1>1 DEF TasksOn
  <2> QED  BY <2>1
<1>3. t.service # "" /\ t.node # "" => <<t.service, t.node>> \in rows
  BY Creation
<1> QED  BY <1>2, <1>3, KnownTypes DEF Executable

LEMMA ValidatedTakes ==
  ASSUME NEW n, NEW type \in ControllerTypes \cup AgentTypes, validateTaskTargetNode(n, type)
  PROVE  n \in nodeSet \ setup.disabled /\ (type \in AgentTypes => n \in online)
<1>1. type \in AgentTypes => RequiresOnlineNode(type)
  BY KnownTypes DEF RequiresOnlineNode
<1> QED  BY <1>1 DEF validateTaskTargetNode

-----------------------------------------------------------------------------
(* What is admitted                                                         *)

\* An answer that creates nothing its node cannot take, and does not die.
Sound(answer) == (\A t \in answer.tasks : Executable(t)) /\ answer.code # "panic"

LEMMA RefusedIsSound ==
  ASSUME NEW code, code # "panic"
  PROVE  Sound(Refused(code))
  BY Refusal DEF Sound

LEMMA CreatedIsSound ==
  ASSUME NEW type \in ControllerTypes \cup AgentTypes, NEW service, NEW nodes, NEW guarded,
         \A n \in nodes : n # "" => /\ type \in AgentTypes => n \in online
                                    /\ type # "prune" => n \in nodeSet \ setup.disabled
  PROVE  Sound(Create(TasksOn(type, service, nodes), guarded))
  BY CreatedIsExecutable, Creation DEF Sound

LEMMA ValidatedIsSound ==
  ASSUME NEW type \in ControllerTypes \cup AgentTypes, NEW service, NEW nodes, NEW guarded,
         \A n \in nodes : validateTaskTargetNode(n, type)
  PROVE  Sound(Create(TasksOn(type, service, nodes), guarded))
<1>1. \A n \in nodes : n \in nodeSet \ setup.disabled /\ (type \in AgentTypes => n \in online)
  BY ValidatedTakes
<1> QED  BY <1>1, CreatedIsSound

LEMMA NamedTypes ==
  /\ ServiceActions \subseteq ControllerTypes \cup AgentTypes
  /\ {"caddy_reload", "caddy_sync", "rustic_prune", "docker_remove_network", "restore", "prune"} \subseteq AgentTypes
  /\ {"migrate", "cloudflare_tunnel_sync"} \subseteq ControllerTypes
  BY DEF ServiceActions, ControllerTypes, AgentTypes

LEMMA ServiceTasksAreSound ==
  ASSUME NEW type \in ControllerTypes \cup AgentTypes, NEW requested
  PROVE  Sound(createServiceTasks(type, requested))
<1> DEFINE service == FindService(Web)
           nodes == resolveTargetNodeIDs(service, requested)
           admitted == Create(TasksOn(type, service.name, nodes), TRUE)
<1>1. \/ createServiceTasks(type, requested) = Refused("not_found")
      \/ createServiceTasks(type, requested) = Refused("failed_precondition")
      \/ /\ \A n \in nodes : validateTaskTargetNode(n, type)
         /\ createServiceTasks(type, requested) = admitted
  BY DEF createServiceTasks
<1> HIDE DEF nodes
<1>2. (\A n \in nodes : validateTaskTargetNode(n, type)) => Sound(admitted)
  BY ValidatedIsSound
<1> QED  BY <1>1, <1>2, RefusedIsSound

LEMMA TunnelTaskIsSound == Sound(createServiceCloudflareTunnelSyncTask)
<1> DEFINE service == FindService(Web)
           admitted == Create(TasksOn("cloudflare_tunnel_sync", service.name, {""}), TRUE)
<1>1. Sound(admitted)
  BY CreatedIsSound, NamedTypes
<1> HIDE DEF admitted
<1>2. createServiceCloudflareTunnelSyncTask \in {Refused("not_found"), Refused("failed_precondition"), admitted}
  BY DEF createServiceCloudflareTunnelSyncTask, admitted
<1> QED  BY <1>1, <1>2, RefusedIsSound

LEMMA ServiceActionIsSound ==
  ASSUME NEW action \in ServiceActions, NEW requested
  PROVE  Sound(RunServiceAction(action, requested))
<1> DEFINE nodes == IF action = "dns_update" THEN {} ELSE requested
<1>1. RunServiceAction(action, requested) \in
        {Refused("not_found"), Refused("failed_precondition"), createServiceCloudflareTunnelSyncTask,
         createServiceTasks(action, nodes)}
  BY DEF RunServiceAction
<1> HIDE DEF nodes
<1>2. Sound(createServiceTasks(action, nodes))
  BY ServiceTasksAreSound, NamedTypes
<1> QED  BY <1>1, <1>2, TunnelTaskIsSound, RefusedIsSound

LEMMA NodeTasksAreSound ==
  ASSUME NEW n, NEW full \in BOOLEAN
  PROVE  /\ Sound(createNodeCaddyReloadTask(n)) /\ Sound(createNodeCaddySyncTask(n, full))
         /\ Sound(createNodeRusticMaintenanceTask(n, "rustic_prune"))
         /\ Sound(PruneNodeDocker(n)) /\ Sound(createNodeDockerTask(n, "docker_remove_network"))
<1> DEFINE Ready(type) == validateTaskTargetNode(n, type)
<1>0. ASSUME NEW type \in AgentTypes, Ready(type), NEW service, NEW guarded
      PROVE  Sound(Create(TasksOn(type, service, {n}), guarded))
  BY <1>0, ValidatedIsSound
<1>1. Sound(createNodeCaddyReloadTask(n))
  <2>1. \/ createNodeCaddyReloadTask(n) = Refused("failed_precondition")
        \/ /\ Ready("caddy_reload")
           /\ createNodeCaddyReloadTask(n) = Create(TasksOn("caddy_reload", FindCaddyInfraService.name, {n}), TRUE)
    BY DEF createNodeCaddyReloadTask
  <2> QED  BY <2>1, <1>0, RefusedIsSound, NamedTypes
<1>2. Sound(createNodeCaddySyncTask(n, full))
  <2>1. \/ createNodeCaddySyncTask(n, full) \in {Refused("failed_precondition"), Refused("not_found")}
        \/ /\ Ready("caddy_sync")
           /\ \E service : createNodeCaddySyncTask(n, full) = Create(TasksOn("caddy_sync", service, {n}), FALSE)
    BY DEF createNodeCaddySyncTask
  <2> QED  BY <2>1, <1>0, RefusedIsSound, NamedTypes
<1>3. Sound(createNodeRusticMaintenanceTask(n, "rustic_prune"))
  <2>1. \/ createNodeRusticMaintenanceTask(n, "rustic_prune") = Refused("failed_precondition")
        \/ /\ Ready("rustic_prune")
           /\ createNodeRusticMaintenanceTask(n, "rustic_prune") =
                Create(TasksOn("rustic_prune", FindRusticInfraService.name, {n}), FALSE)
    BY DEF createNodeRusticMaintenanceTask
  <2> QED  BY <2>1, <1>0, RefusedIsSound, NamedTypes
<1>4. Sound(PruneNodeDocker(n))
  <2>1. \/ PruneNodeDocker(n) = Refused("failed_precondition")
        \/ n \in online /\ PruneNodeDocker(n) = Create(TasksOn("prune", "", {n}), FALSE)
    BY DEF PruneNodeDocker
  <2>2. n \in online => Sound(Create(TasksOn("prune", "", {n}), FALSE))
    BY CreatedIsSound, NamedTypes
  <2> QED  BY <2>1, <2>2, RefusedIsSound
<1>5. Sound(createNodeDockerTask(n, "docker_remove_network"))
  <2>1. \/ createNodeDockerTask(n, "docker_remove_network") = Refused("failed_precondition")
        \/ /\ Ready("docker_remove_network")
           /\ createNodeDockerTask(n, "docker_remove_network") = Create(TasksOn("docker_remove_network", "", {n}), FALSE)
    BY DEF createNodeDockerTask
  <2> QED  BY <2>1, <1>0, RefusedIsSound, NamedTypes
<1> QED  BY <1>1, <1>2, <1>3, <1>4, <1>5

LEMMA MigrationRequestIsSound ==
  ASSUME NEW source, NEW target
  PROVE  Sound(MigrateService(source, target))
<1>1. \/ MigrateService(source, target) \in {Refused("invalid_argument"), Refused("not_found"), Refused("failed_precondition")}
      \/ MigrateService(source, target) = Create(TasksOn("migrate", FindService(Web).name, {""}), TRUE)
  BY DEF MigrateService
<1>2. Sound(Create(TasksOn("migrate", FindService(Web).name, {""}), TRUE))
  BY CreatedIsSound, NamedTypes
<1> QED  BY <1>1, <1>2, RefusedIsSound

LEMMA RestoreDiesOnlyWithoutData ==
  ASSUME NEW n
  PROVE  /\ \A t \in RestoreBackup(n).tasks : Executable(t)
         /\ RestoreBackup(n).code = "panic" => FindService(Web).meta.data = <<>>
<1> DEFINE admitted == Create(TasksOn("restore", Web, {n}), TRUE)
<1>1. validateTaskTargetNode(n, "restore") => Sound(admitted)
  BY ValidatedIsSound, NamedTypes
<1> HIDE DEF admitted
<1>2. \/ RestoreBackup(n) \in {Refused("failed_precondition"), Refused("not_found")}
      \/ RestoreBackup(n) = Refused("panic") /\ FindService(Web).meta.data = <<>>
      \/ validateTaskTargetNode(n, "restore") /\ RestoreBackup(n) = admitted
  BY DEF RestoreBackup, admitted
<1> QED  BY <1>1, <1>2, Refusal DEF Sound

\* What a request is.
LEMMA TheRequest ==
  ASSUME NEW r \in Requests
  PROVE  \/ r.rpc = "RunServiceAction" /\ r.action \in ServiceActions
         \/ /\ r.rpc = "Rustic" /\ r.action = "rustic_prune"
            /\ r.nodes = {} \/ \E n : r.nodes = {n} /\ TheNode(r) = n
         \/ r.rpc \in ByNode /\ r.action = ""
         \/ r.rpc = "MigrateService"
<1>1. \A n : (CHOOSE m \in {n} : TRUE) = n
  OBVIOUS
<1> QED  BY <1>1 DEF Requests, OneNode, TheNode

LEMMA TheAnswers ==
  ASSUME NEW r
  PROVE  /\ r.rpc = "RunServiceAction" => Answers(r) = {RunServiceAction(r.action, r.nodes)}
         /\ r.rpc = "Rustic" => Answers(r) = MaintainRustic(r.action, r.nodes)
         /\ r.rpc = "ReloadNodeCaddy" => Answers(r) = {createNodeCaddyReloadTask(TheNode(r))}
         /\ r.rpc = "SyncNodeCaddyFiles" => Answers(r) = {createNodeCaddySyncTask(TheNode(r), FALSE)}
         /\ r.rpc = "RebuildNodeCaddyFiles" => Answers(r) = {createNodeCaddySyncTask(TheNode(r), TRUE)}
         /\ r.rpc = "PruneNodeDocker" => Answers(r) = {PruneNodeDocker(TheNode(r))}
         /\ r.rpc = "RemoveNetwork" => Answers(r) = {createNodeDockerTask(TheNode(r), "docker_remove_network")}
         /\ r.rpc = "RestoreBackup" => Answers(r) = {RestoreBackup(TheNode(r))}
         /\ r.rpc = "MigrateService" => Answers(r) = {MigrateService(r.action, TheNode(r))}
  BY DEF Answers

LEMMA ActionAnswer ==
  ASSUME NEW r, r.rpc = "RunServiceAction", r.nodes = {}, NEW answer \in Answers(r)
  PROVE  answer = RunServiceAction(r.action, {})
<1>1. Answers(r) = {RunServiceAction(r.action, r.nodes)}
  BY DEF Answers
<1> QED  BY <1>1

LEMMA RusticAnswers ==
  ASSUME NEW type, NEW nodes, NEW answer \in MaintainRustic(type, nodes)
  PROVE  \/ answer = Refused("failed_precondition") /\ nodes = {} /\ chooseRusticMainNode(type) = {}
         \/ /\ nodes = {}
            /\ \E n \in chooseRusticMainNode(type) : answer = createNodeRusticMaintenanceTask(n, type)
         \/ \E n \in nodes : answer = createNodeRusticMaintenanceTask(n, type)
  BY DEF MaintainRustic

LEMMA AnswersAreSound ==
  ASSUME NEW r \in Requests, NEW answer \in Answers(r)
  PROVE  /\ \A t \in answer.tasks : Executable(t)
         /\ answer.code = "panic" => r.rpc = "RestoreBackup" /\ FindService(Web).meta.data = <<>>
<1>1. CASE r.rpc = "RunServiceAction" /\ r.action \in ServiceActions
  BY <1>1, TheAnswers, ServiceActionIsSound DEF Sound
<1>2. CASE r.rpc = "Rustic" /\ r.action = "rustic_prune"
  <2>1. \/ answer = Refused("failed_precondition")
        \/ \E n : answer = createNodeRusticMaintenanceTask(n, "rustic_prune")
    <3>1. answer \in MaintainRustic(r.action, r.nodes)
      BY <1>2, TheAnswers
    <3> QED  BY <3>1, <1>2, RusticAnswers
  <2>2. Sound(answer)
    BY <2>1, NodeTasksAreSound, RefusedIsSound
  <2> QED  BY <2>2 DEF Sound
<1>3. CASE r.rpc \in {"ReloadNodeCaddy", "SyncNodeCaddyFiles", "RebuildNodeCaddyFiles",
                      "PruneNodeDocker", "RemoveNetwork"}
  <2>1. Sound(answer)
    <3>1. answer \in {createNodeCaddyReloadTask(TheNode(r)), createNodeCaddySyncTask(TheNode(r), FALSE),
                      createNodeCaddySyncTask(TheNode(r), TRUE), PruneNodeDocker(TheNode(r)),
                      createNodeDockerTask(TheNode(r), "docker_remove_network")}
      BY <1>3, TheAnswers
    <3> QED  BY <3>1, NodeTasksAreSound
  <2> QED  BY <2>1 DEF Sound
<1>4. CASE r.rpc = "RestoreBackup"
  <2>1. answer = RestoreBackup(TheNode(r))
    BY <1>4, TheAnswers
  <2> QED  BY <1>4, <2>1, RestoreDiesOnlyWithoutData
<1>5. CASE r.rpc = "MigrateService"
  <2>1. Sound(answer)
    <3>1. answer = MigrateService(r.action, TheNode(r))
      BY <1>5, TheAnswers
    <3> QED  BY <3>1, MigrationRequestIsSound
  <2> QED  BY <2>1 DEF Sound
<1> QED  BY <1>1, <1>2, <1>3, <1>4, <1>5, TheRequest DEF ByNode

-----------------------------------------------------------------------------
(* What is shown                                                            *)

Shown(r, reason) ==
  \/ reason = ShownIn(GetService, r)
  \/ \E p \in TopPlaces :
       /\ r.rpc \in {"RunServiceAction", "MigrateService"} /\ metas[p] # NoMeta /\ metas[p].name = Web
       /\ reason = ShownIn(buildServiceWorkspaceSummary(p), r)

\* The capabilities of a service's actions, as conditions.
LEMMA ServiceReasons ==
  ASSUME NEW svc, svc.nodes # <<>>, DOMAIN svc.nodes \subseteq Nat
  PROVE  LET caps == buildServiceActionCapabilities(svc)
         IN /\ DOMAIN caps = {"backup", "restore", "migrate", "dns_update", "caddy_sync", "cloudflare_tunnel_sync"}
            /\ caps["backup"] = "" <=>
                 /\ FindRusticInfraService # NoService_ /\ EnabledBackupDataNames(svc.meta) # {}
                 /\ \A n \in Range(svc.nodes) : validateTaskTargetNode(n, "backup")
            /\ caps["dns_update"] = "" <=> svc.meta.hasDNS /\ setup.dns = "usable"
            /\ caps["caddy_sync"] = "" <=>
                 /\ svc.meta.caddy = "managed"
                 /\ \A n \in Range(svc.nodes) : validateTaskTargetNode(n, "caddy_sync")
            /\ caps["cloudflare_tunnel_sync"] = "" <=> svc.meta.tunnel = "managed" /\ setup.tunnel = "usable"
            /\ caps["migrate"] \in {"", "missing_backup_integration", "missing_migrate_definition"}
<1> DEFINE caps == buildServiceActionCapabilities(svc)
           rustic == backupIntegrationCapability
           names == When(EnabledBackupDataNames(svc.meta) = {}, "missing_backup_definition")
           backupNodes == taskTargetNodesCapability(svc.nodes, "backup")
           dns == When(~svc.meta.hasDNS, "service_dns_not_declared")
           caddy == When(svc.meta.caddy # "managed", "service_not_caddy_managed")
           caddyNodes == taskTargetNodesCapability(svc.nodes, "caddy_sync")
           tunnel == When(svc.meta.tunnel # "managed", "service_not_cloudflare_tunnel_managed")
           migrate == When(svc.meta.migrate = <<>>, "missing_migrate_definition")
<1>1. /\ DOMAIN caps = {"backup", "restore", "migrate", "dns_update", "caddy_sync", "cloudflare_tunnel_sync"}
      /\ caps["backup"] = FirstReason(<<rustic, names, backupNodes>>)
      /\ caps["dns_update"] = FirstReason(<<dns, dnsIntegrationCapability>>)
      /\ caps["caddy_sync"] = FirstReason(<<caddy, caddyNodes>>)
      /\ caps["cloudflare_tunnel_sync"] = FirstReason(<<tunnel, cloudflareTunnelIntegrationCapability>>)
      /\ caps["migrate"] = FirstReason(<<rustic, migrate>>)
  BY DEF buildServiceActionCapabilities
<1> HIDE DEF caps
<1>2. /\ rustic \in {"", "missing_backup_integration"} /\ migrate \in {"", "missing_migrate_definition"}
      /\ rustic = "" <=> FindRusticInfraService # NoService_
      /\ names = "" <=> EnabledBackupDataNames(svc.meta) # {}
      /\ dns = "" <=> svc.meta.hasDNS
      /\ dnsIntegrationCapability = "" <=> setup.dns = "usable"
      /\ caddy = "" <=> svc.meta.caddy = "managed"
      /\ tunnel = "" <=> svc.meta.tunnel = "managed"
      /\ cloudflareTunnelIntegrationCapability = "" <=> setup.tunnel = "usable"
  BY DEF When, backupIntegrationCapability, dnsIntegrationCapability, cloudflareTunnelIntegrationCapability
<1>3. /\ backupNodes = "" <=> \A n \in Range(svc.nodes) : validateTaskTargetNode(n, "backup")
      /\ caddyNodes = "" <=> \A n \in Range(svc.nodes) : validateTaskTargetNode(n, "caddy_sync")
  BY NodesCapability
<1> HIDE DEF rustic, names, backupNodes, dns, caddy, caddyNodes, tunnel, migrate
<1>4. /\ caps["backup"] = "" <=> rustic = "" /\ names = "" /\ backupNodes = ""
      /\ caps["dns_update"] = "" <=> dns = "" /\ dnsIntegrationCapability = ""
      /\ caps["caddy_sync"] = "" <=> caddy = "" /\ caddyNodes = ""
      /\ caps["cloudflare_tunnel_sync"] = "" <=> tunnel = "" /\ cloudflareTunnelIntegrationCapability = ""
  <2>1. FirstReason(<<rustic, names, backupNodes>>) = "" <=> rustic = "" /\ names = "" /\ backupNodes = ""
    BY FirstOfThree
  <2>2. FirstReason(<<dns, dnsIntegrationCapability>>) = "" <=> dns = "" /\ dnsIntegrationCapability = ""
    BY FirstOfTwo
  <2>3. FirstReason(<<caddy, caddyNodes>>) = "" <=> caddy = "" /\ caddyNodes = ""
    BY FirstOfTwo
  <2>4. FirstReason(<<tunnel, cloudflareTunnelIntegrationCapability>>) = "" <=>
          tunnel = "" /\ cloudflareTunnelIntegrationCapability = ""
    BY FirstOfTwo
  <2> QED  BY <1>1, <2>1, <2>2, <2>3, <2>4
<1>5. caps["migrate"] \in {"", rustic, migrate}
  <2>1. FirstReason(<<rustic, migrate>>) # "" => FirstReason(<<rustic, migrate>>) \in {rustic, migrate} \ {""}
    BY FirstOfTwo
  <2> QED  BY <1>1, <2>1
<1>6. caps["backup"] = "" <=>
        /\ FindRusticInfraService # NoService_ /\ EnabledBackupDataNames(svc.meta) # {}
        /\ \A n \in Range(svc.nodes) : validateTaskTargetNode(n, "backup")
  BY <1>2, <1>3, <1>4
<1>7. caps["caddy_sync"] = "" <=>
        /\ svc.meta.caddy = "managed"
        /\ \A n \in Range(svc.nodes) : validateTaskTargetNode(n, "caddy_sync")
  BY <1>2, <1>3, <1>4
<1>8. /\ caps["dns_update"] = "" <=> svc.meta.hasDNS /\ setup.dns = "usable"
      /\ caps["cloudflare_tunnel_sync"] = "" <=> svc.meta.tunnel = "managed" /\ setup.tunnel = "usable"
  BY <1>2, <1>4
<1>9. caps["migrate"] \in {"", "missing_backup_integration", "missing_migrate_definition"}
  BY <1>2, <1>5
<1> QED  BY <1>1, <1>6, <1>7, <1>8, <1>9 DEF caps

\* The view of a folder: refused, or that of its service.
LEMMA WorkspaceView ==
  ASSUME FilesFinite, NEW p \in TopPlaces, metas[p] # NoMeta
  PROVE  \/ /\ buildServiceWorkspaceSummary(p) = buildDisabledServiceActionCapabilities("service_not_declared")
            /\ ~(metas[p].decodes /\ Valid(p) /\ \E r \in table : r[1] = metas[p].name)
         \/ /\ buildServiceWorkspaceSummary(p) = buildServiceActionCapabilities(strictServiceFromMeta(p, metas[p]))
            /\ metas[p].decodes /\ Valid(p) /\ \E r \in table : r[1] = metas[p].name
  BY DEF buildServiceWorkspaceSummary

LEMMA DisabledView ==
  ASSUME NEW reason
  PROVE  LET caps == buildDisabledServiceActionCapabilities(reason)
         IN /\ DOMAIN caps = {"backup", "restore", "migrate", "dns_update", "caddy_sync", "cloudflare_tunnel_sync"}
            /\ \A a \in DOMAIN caps : caps[a] = reason
  BY DEF buildDisabledServiceActionCapabilities

ShownActions == {"backup", "dns_update", "caddy_sync", "cloudflare_tunnel_sync"}

\* What is shown of an action is the capability of the one service, or of a
\* valid file in the table whose name a broken file claims.
LEMMA ShownAction ==
  ASSUME FilesFinite, NEW r, r.rpc = "RunServiceAction", r.action \in ServiceActions, NEW reason,
         Shown(r, reason), reason \notin {"none", "service_not_declared"}
  PROVE  LET svc == FindService(Web)
         IN /\ r.action \in ShownActions
            /\ \/ svc # NoService_ /\ reason = buildServiceActionCapabilities(svc)[r.action]
               \/ svc = NoService_ /\ \E row \in table : row[1] = Web
<1> DEFINE svc == FindService(Web)
           Six == {"backup", "restore", "migrate", "dns_update", "caddy_sync", "cloudflare_tunnel_sync"}
<1>1. ASSUME NEW caps, DOMAIN caps = Six
      PROVE  ShownIn(caps, r) = IF r.action \in ShownActions THEN caps[r.action] ELSE "none"
  BY <1>1 DEF ShownIn, ServiceActions, ShownActions
<1>2. ASSUME NEW s
      PROVE  DOMAIN buildServiceActionCapabilities(s) = Six
  BY DEF buildServiceActionCapabilities
<1>3. CASE reason = ShownIn(GetService, r)
  <2>1. CASE svc = NoService_
    <3>1. GetService = buildDisabledServiceActionCapabilities("none")
      BY <2>1 DEF GetService
    <3>2. ShownIn(GetService, r) = "none"
      BY <3>1, <1>1, DisabledView DEF ShownActions
    <3> QED  BY <3>2, <1>3
  <2>2. CASE svc # NoService_
    <3>1. GetService = buildServiceActionCapabilities(svc)
      BY <2>2 DEF GetService
    <3> QED  BY <3>1, <2>2, <1>1, <1>2, <1>3
  <2> QED  BY <2>1, <2>2
<1>4. ASSUME NEW p \in TopPlaces, metas[p] # NoMeta, metas[p].name = Web,
             reason = ShownIn(buildServiceWorkspaceSummary(p), r)
      PROVE  /\ r.action \in ShownActions
             /\ \/ svc # NoService_ /\ reason = buildServiceActionCapabilities(svc)[r.action]
                \/ svc = NoService_ /\ \E row \in table : row[1] = Web
  <2>1. CASE buildServiceWorkspaceSummary(p) = buildDisabledServiceActionCapabilities("service_not_declared")
    <3>1. ShownIn(buildServiceWorkspaceSummary(p), r) \in {"none", "service_not_declared"}
      BY <2>1, <1>1, DisabledView DEF ShownActions
    <3> QED  BY <3>1, <1>4
  <2>2. CASE /\ buildServiceWorkspaceSummary(p) = buildServiceActionCapabilities(strictServiceFromMeta(p, metas[p]))
             /\ metas[p].decodes /\ Valid(p) /\ \E row \in table : row[1] = metas[p].name
    <3>1. r.action \in ShownActions /\ reason = buildServiceActionCapabilities(strictServiceFromMeta(p, metas[p]))[r.action]
      BY <2>2, <1>1, <1>2, <1>4
    <3>2. svc # NoService_ => svc = strictServiceFromMeta(p, metas[p])
      BY <2>2, <1>4, TheService
    <3> QED  BY <3>1, <3>2, <2>2, <1>4
  <2> QED  BY <2>1, <2>2, <1>4, WorkspaceView
<1> QED  BY <1>3, <1>4 DEF Shown

LEMMA ViewsDoAgree == FilesFinite => ViewsAgree
<1> SUFFICES ASSUME FilesFinite, InForce, NEW p \in TopPlaces, FindService(Web) # NoService_, FindService(Web).at = p
             PROVE  buildServiceWorkspaceSummary(p) = GetService
  BY DEF ViewsAgree
<1> DEFINE svc == FindService(Web)
<1>1. /\ svc = strictServiceFromMeta(p, metas[p]) /\ p \in Decoded /\ Valid(p) /\ metas[p].name = Web
      /\ svc.name = Web /\ svc \in DiscoverServices /\ Range(svc.nodes) # {}
  BY TheService
<1>2. PICK n : n \in Range(svc.nodes)
  BY <1>1
<1>3. <<Web, n>> \in table
  BY <1>1, <1>2, DeclaredRows
<1>4. \E r \in table : r[1] = metas[p].name
  BY <1>1, <1>3
<1>5. metas[p] # NoMeta /\ metas[p].decodes
  BY <1>1, DecodedIsWritten DEF Written, Decoded
<1>6. buildServiceWorkspaceSummary(p) = buildServiceActionCapabilities(svc)
  BY <1>1, <1>4, <1>5, WorkspaceView
<1> QED  BY <1>6 DEF GetService

LEMMA MigrateReason ==
  ASSUME NEW svc
  PROVE  buildServiceActionCapabilities(svc)["migrate"] \in
           {"", "missing_backup_integration", "missing_migrate_definition"}
<1> DEFINE rustic == backupIntegrationCapability
           migrate == When(svc.meta.migrate = <<>>, "missing_migrate_definition")
<1>1. buildServiceActionCapabilities(svc)["migrate"] = FirstReason(<<rustic, migrate>>)
  BY DEF buildServiceActionCapabilities
<1>2. rustic \in {"", "missing_backup_integration"} /\ migrate \in {"", "missing_migrate_definition"}
  BY DEF When, backupIntegrationCapability
<1> HIDE DEF rustic, migrate
<1>3. FirstReason(<<rustic, migrate>>) # "" => FirstReason(<<rustic, migrate>>) \in {rustic, migrate} \ {""}
  BY FirstOfTwo
<1> QED  BY <1>1, <1>2, <1>3

LEMMA ShownMigration ==
  ASSUME FilesFinite, NEW r, r.rpc = "MigrateService", NEW reason, Shown(r, reason)
  PROVE  reason \in {"", "none", "service_not_declared", "missing_backup_integration", "missing_migrate_definition"}
<1>1. ASSUME NEW caps
      PROVE  ShownIn(caps, r) = caps["migrate"]
  BY <1>1 DEF ShownIn
<1>2. \A x : buildDisabledServiceActionCapabilities(x)["migrate"] = x
  BY DEF buildDisabledServiceActionCapabilities
<1>3. CASE reason = ShownIn(GetService, r)
  <2>1. \/ GetService = buildDisabledServiceActionCapabilities("none")
        \/ GetService = buildServiceActionCapabilities(FindService(Web))
    BY DEF GetService
  <2>2. reason = GetService["migrate"]
    BY <1>1, <1>3
  <2> QED  BY <2>1, <2>2, <1>2, MigrateReason
<1>4. ASSUME NEW p \in TopPlaces, metas[p] # NoMeta, reason = ShownIn(buildServiceWorkspaceSummary(p), r)
      PROVE  reason \in {"", "service_not_declared", "missing_backup_integration", "missing_migrate_definition"}
  <2>1. reason = buildServiceWorkspaceSummary(p)["migrate"]
    BY <1>1, <1>4
  <2>2. \/ buildServiceWorkspaceSummary(p) = buildDisabledServiceActionCapabilities("service_not_declared")
        \/ buildServiceWorkspaceSummary(p) = buildServiceActionCapabilities(strictServiceFromMeta(p, metas[p]))
    BY <1>4, WorkspaceView
  <2> QED  BY <2>1, <2>2, <1>2, MigrateReason
<1> QED  BY <1>3, <1>4 DEF Shown

LEMMA OneRusticCheck ==
  ASSUME NEW n
  PROVE  validateTaskTargetNode(n, "rustic_init") <=> validateTaskTargetNode(n, "rustic_prune")
  BY DEF validateTaskTargetNode, RequiresOnlineNode, ControllerTypes

LEMMA NodeReasons ==
  ASSUME NEW n
  PROVE  LET caps == buildNodeActionCapabilities(n)
         IN /\ caps.caddy_sync = "" <=> validateTaskTargetNode(n, "caddy_sync")
            /\ caps.caddy_reload = "" <=>
                 validateTaskTargetNode(n, "caddy_reload") /\ FindCaddyInfraService # NoService_
            /\ caps.rustic_maintenance = "" <=>
                 /\ validateTaskTargetNode(n, "rustic_prune") /\ FindRusticInfraService # NoService_
                 /\ n \in Range(FindRusticInfraService.nodes)
<1> DEFINE caps == buildNodeActionCapabilities(n)
           reload == taskTargetNodeCapability(n, "caddy_reload")
           caddy == When(FindCaddyInfraService = NoService_, "missing_caddy_infra")
           init == taskTargetNodeCapability(n, "rustic_init")
           rustic == backupIntegrationCapability
           managed == When(FindRusticInfraService # NoService_ /\ n \notin Range(FindRusticInfraService.nodes),
                           "node_not_rustic_managed")
<1>1. /\ caps.caddy_sync = taskTargetNodeCapability(n, "caddy_sync")
      /\ caps.caddy_reload = FirstReason(<<reload, caddy>>)
      /\ caps.rustic_maintenance = FirstReason(<<init, rustic, managed>>)
  BY DEF buildNodeActionCapabilities
<1> HIDE DEF caps
<1>2. /\ caddy = "" <=> FindCaddyInfraService # NoService_
      /\ rustic = "" <=> FindRusticInfraService # NoService_
      /\ managed = "" <=> (FindRusticInfraService # NoService_ => n \in Range(FindRusticInfraService.nodes))
  BY DEF When, backupIntegrationCapability
<1>3. /\ taskTargetNodeCapability(n, "caddy_sync") = "" <=> validateTaskTargetNode(n, "caddy_sync")
      /\ reload = "" <=> validateTaskTargetNode(n, "caddy_reload")
      /\ init = "" <=> validateTaskTargetNode(n, "rustic_prune")
  BY NodeCapability, OneRusticCheck
<1> HIDE DEF reload, caddy, init, rustic, managed
<1>4. FirstReason(<<reload, caddy>>) = "" <=> reload = "" /\ caddy = ""
  BY FirstOfTwo
<1>5. FirstReason(<<init, rustic, managed>>) = "" <=> init = "" /\ rustic = "" /\ managed = ""
  BY FirstOfThree
<1> QED  BY <1>1, <1>2, <1>3, <1>4, <1>5 DEF caps

LEMMA GlobalReason ==
  rusticMaintenanceGlobalCapability = "" <=> chooseRusticMainNode("rustic_prune") # {}
<1>1. CASE FindRusticInfraService = NoService_
  <2>1. rusticMaintenanceGlobalCapability = "missing_backup_integration" /\ chooseRusticMainNode("rustic_prune") = {}
    BY <1>1 DEF rusticMaintenanceGlobalCapability, chooseRusticMainNode
  <2> QED  BY <2>1
<1>2. CASE FindRusticInfraService # NoService_
  <2> DEFINE a == When(MainNodeCandidates = {}, "missing_eligible_rustic_node")
             b == When(\A n \in MainNodeCandidates : taskTargetNodeCapability(n, "rustic_init") # "",
                       "missing_online_rustic_node")
  <2>1. rusticMaintenanceGlobalCapability = FirstReason(<<a, b>>)
    BY <1>2 DEF rusticMaintenanceGlobalCapability
  <2>2. /\ a = "" <=> MainNodeCandidates # {}
        /\ b = "" <=> \E n \in MainNodeCandidates : taskTargetNodeCapability(n, "rustic_init") = ""
    BY DEF When
  <2> HIDE DEF a, b
  <2>3. FirstReason(<<a, b>>) = "" <=> a = "" /\ b = ""
    BY FirstOfTwo
  <2>4. \A n : taskTargetNodeCapability(n, "rustic_init") = "" <=> validateTaskTargetNode(n, "rustic_prune")
    BY NodeCapability, OneRusticCheck
  <2>5. chooseRusticMainNode("rustic_prune") = {n \in MainNodeCandidates : validateTaskTargetNode(n, "rustic_prune")}
    BY <1>2 DEF chooseRusticMainNode
  <2>6. (\E n \in MainNodeCandidates : validateTaskTargetNode(n, "rustic_prune")) <=>
          chooseRusticMainNode("rustic_prune") # {}
    BY <2>5
  <2>7. rusticMaintenanceGlobalCapability = "" <=>
          \E n \in MainNodeCandidates : validateTaskTargetNode(n, "rustic_prune")
    BY <2>1, <2>2, <2>3, <2>4
  <2> QED  BY <2>6, <2>7
<1> QED  BY <1>1, <1>2

LEMMA ChosenNode ==
  ASSUME NEW type, NEW n \in chooseRusticMainNode(type)
  PROVE  /\ FindRusticInfraService # NoService_ /\ n \in Range(FindRusticInfraService.nodes)
         /\ validateTaskTargetNode(n, type)
  BY DEF chooseRusticMainNode, MainNodeCandidates

\* A backup that is shown as not restorable is not restored, unless rustic
\* alone is missing.
LEMMA RestoreReason ==
  ASSUME NEW n
  PROVE  backupRestoreCapability = "" \/ backupRestoreCapability = "missing_backup_integration" \/ RestoreBackup(n).tasks = {}
<1> DEFINE service == FindService(Web)
           a == When(setup.backup = "failed", "backup_not_succeeded")
           b == When(setup.backup = "no artifact", "backup_artifact_missing")
           c == backupIntegrationCapability
           d == When(service = NoService_, "service_not_declared")
           e == When(service # NoService_ /\ ~HasRestore(service, {"d"}), "missing_restore_definition")
           f == When(~anyNodeEligibleForTask("restore"), "missing_restore_target_node")
           bad == {Refused("failed_precondition"), Refused("not_found"), Refused("panic")}
<1>1. backupRestoreCapability = FirstReason(<<a, b, c, d, e, f>>)
  BY DEF backupRestoreCapability
<1>2. c \in {"", "missing_backup_integration"}
  BY DEF backupIntegrationCapability, When
<1>3. a # "" \/ b # "" => setup.backup # "succeeded"
  BY DEF When
<1>4. d # "" => service = NoService_
  BY DEF When
<1>5. e # "" => ~HasRestore(service, {"d"})
  BY DEF When
<1>6. f # "" => ~validateTaskTargetNode(n, "restore")
  <2>1. f # "" => ~anyNodeEligibleForTask("restore")
    BY DEF When
  <2>2. validateTaskTargetNode(n, "restore") => n \in nodeSet /\ taskTargetNodeCapability(n, "restore") = ""
    <3>1. taskTargetNodeCapability(n, "restore") = "" <=> validateTaskTargetNode(n, "restore")
      BY NodeCapability
    <3> QED  BY <3>1 DEF validateTaskTargetNode
  <2>3. n \in nodeSet /\ taskTargetNodeCapability(n, "restore") = "" => anyNodeEligibleForTask("restore")
    BY Zenon DEF anyNodeEligibleForTask
  <2> QED  BY <2>1, <2>2, <2>3
<1>7. \/ backupRestoreCapability = "" \/ backupRestoreCapability = "missing_backup_integration"
      \/ setup.backup # "succeeded" \/ service = NoService_ \/ ~HasRestore(service, {"d"})
      \/ ~validateTaskTargetNode(n, "restore")
  <2> HIDE DEF a, b, c, d, e, f, service
  <2> DEFINE s == <<a, b, c, d, e, f>>
  <2>1. DOMAIN s = 1..6 /\ s[1] = a /\ s[2] = b /\ s[3] = c /\ s[4] = d /\ s[5] = e /\ s[6] = f
    OBVIOUS
  <2>2. FirstReason(s) = backupRestoreCapability
    BY <1>1
  <2> HIDE DEF s
  <2>3. DOMAIN s \subseteq Nat /\ \A i : i \in DOMAIN s <=> i = 1 \/ i = 2 \/ i = 3 \/ i = 4 \/ i = 5 \/ i = 6
    BY <2>1
  <2>4. FirstReason(s) # "" => \E i \in DOMAIN s : s[i] # "" /\ FirstReason(s) = s[i]
    BY <2>3, TheFirstReason
  <2>0. CASE FirstReason(s) = ""
    BY <2>0, <2>2
  <2>5. SUFFICES ASSUME FirstReason(s) # "", NEW i \in DOMAIN s, s[i] # "", FirstReason(s) = s[i]
                 PROVE  \/ backupRestoreCapability = "missing_backup_integration"
                        \/ setup.backup # "succeeded" \/ service = NoService_ \/ ~HasRestore(service, {"d"})
                        \/ ~validateTaskTargetNode(n, "restore")
    BY <2>4, <2>0
  <2>6. s[i] = a \/ s[i] = b \/ s[i] = c \/ s[i] = d \/ s[i] = e \/ s[i] = f
    BY <2>1, <2>3
  <2>7. backupRestoreCapability = s[i]
    BY <2>2, <2>5
  <2> QED  BY <1>2, <1>3, <1>4, <1>5, <1>6, <2>5, <2>6, <2>7
<1>8. \/ backupRestoreCapability = "" \/ backupRestoreCapability = "missing_backup_integration"
      \/ RestoreBackup(n) \in bad
  BY <1>7 DEF RestoreBackup
<1> QED  BY <1>8, Refusal

\* All of a service's nodes.
LEMMA AllNodesOf ==
  ASSUME NEW type, FindService(Web) # NoService_
  PROVE  LET svc == FindService(Web)
             admitted == Create(TasksOn(type, svc.name, Range(svc.nodes)), TRUE)
         IN /\ createServiceTasks(type, {}) = Refused("failed_precondition") \/ createServiceTasks(type, {}) = admitted
            /\ (\E n \in Range(svc.nodes) : ~validateTaskTargetNode(n, type)) =>
                 createServiceTasks(type, {}) = Refused("failed_precondition")
            /\ /\ Range(svc.nodes) # {} /\ \A n \in Range(svc.nodes) : validateTaskTargetNode(n, type)
               /\ type = "backup" => /\ FindRusticInfraService # NoService_
                                     /\ Range(svc.nodes) \subseteq Range(FindRusticInfraService.nodes)
               => createServiceTasks(type, {}) = admitted
            /\ type = "backup" /\ FindRusticInfraService = NoService_ =>
                 createServiceTasks(type, {}) = Refused("failed_precondition")
<1>1. resolveTargetNodeIDs(FindService(Web), {}) = Range(FindService(Web).nodes)
  BY DEF resolveTargetNodeIDs
<1> QED  BY <1>1 DEF createServiceTasks

-----------------------------------------------------------------------------
(* What is shown and what is admitted                                       *)

\* The answer to a request for which "reason" was shown, in one state.
Accepted(r, reason, answer) ==
  reason = "" /\ busyAt = {} /\ InForce
    /\ (r.rpc = "RunServiceAction" => r.nodes = {})
    /\ r.rpc \notin {"MigrateService", "RestoreBackup"} =>
  \/ answer.code = ""
  \/ answer.code = "not_found" /\ \E p \in Decoded : metas[p].name = Web /\ ~Valid(p)
  \/ /\ r.action = "backup"
     /\ ~(Range(FindService(Web).nodes) \subseteq Range(FindRusticInfraService.nodes))
  \/ r.action = "dns_update" /\ Range(FindService(Web).nodes) \cap setup.disabled # {}
  \/ r.rpc = "ReloadNodeCaddy" /\ <<FindCaddyInfraService.name, TheNode(r)>> \notin rows
  \/ /\ r.rpc = "Rustic"
     /\ \E n \in Range(FindRusticInfraService.nodes) : <<FindRusticInfraService.name, n>> \notin rows

TurnedDown(r, reason, answer) ==
  reason \notin {"", "none", "service_not_declared"} /\ (r.rpc = "RunServiceAction" => r.nodes = {}) =>
  \/ answer.tasks = {}
  \/ r.rpc = "MigrateService" /\ reason \in {"missing_backup_integration", "missing_migrate_definition"}
  \/ r.rpc = "RestoreBackup" /\ reason = "missing_backup_integration"
  \/ r.action = "dns_update" /\ setup.dns = "empty"
  \/ r.action = "cloudflare_tunnel_sync" /\ setup.tunnel = "empty"

SetupKnown == {setup.dns, setup.tunnel} \subseteq {"usable", "empty", "none"}

\* Tasks of instances with a row, or of none, are created.
LEMMA CreatedWithRows ==
  ASSUME NEW type, NEW service, NEW nodes, NEW guarded, busyAt = {},
         \A n \in nodes : service # "" /\ n # "" => <<service, n>> \in rows
  PROVE  Create(TasksOn(type, service, nodes), guarded).code = ""
<1>1. ASSUME NEW t \in TasksOn(type, service, nodes)
      PROVE  t.service = service /\ t.node \in nodes
  <2>1. PICK n \in nodes : t = [type |-> type, service |-> service, node |-> n]
    BY DEF TasksOn
  <2> QED  BY <2>1
<1>2. \A t \in TasksOn(type, service, nodes) : t.service # "" /\ t.node # "" => <<t.service, t.node>> \in rows
  BY <1>1
<1> QED  BY <1>2, Creation

NoName == ""
LEMMA CreatedWithRow ==
  ASSUME NEW type, NEW service, NEW n, NEW guarded, busyAt = {}, service = NoName \/ <<service, n>> \in rows
  PROVE  Create(TasksOn(type, service, {n}), guarded).code = NoName
<1>1. \A m \in {n} : service # "" /\ m # "" => <<service, m>> \in rows
  BY Zenon DEF NoName
<1>2. Create(TasksOn(type, service, {n}), guarded).code = ""
  BY <1>1, CreatedWithRows
<1> QED  BY <1>2 DEF NoName

\* An action of the service, for all of its nodes.
LEMMA ActionIsAccepted ==
  ASSUME FilesFinite, table \subseteq rows, busyAt = {}, InForce, NEW action \in ShownActions,
         FindService(Web) # NoService_, buildServiceActionCapabilities(FindService(Web))[action] = ""
  PROVE  \/ RunServiceAction(action, {}).code = ""
         \/ action = "backup" /\ ~(Range(FindService(Web).nodes) \subseteq Range(FindRusticInfraService.nodes))
         \/ action = "dns_update" /\ Range(FindService(Web).nodes) \cap setup.disabled # {}
<1> DEFINE svc == FindService(Web)
           Admitted(type) == Create(TasksOn(type, svc.name, Range(svc.nodes)), TRUE)
<1>1. /\ svc.name = Web /\ svc \in DiscoverServices /\ svc.nodes # <<>> /\ DOMAIN svc.nodes \subseteq Nat
      /\ Range(svc.nodes) # {} /\ Range(svc.nodes) \subseteq nodeSet
  BY TheService
<1>2. ASSUME NEW type
      PROVE  Admitted(type).code = ""
  <2>1. \A n \in Range(svc.nodes) : <<svc.name, n>> \in rows
    BY <1>1, DeclaredRows
  <2> QED  BY <2>1, CreatedWithRows
<1>3. CASE action = "backup"
  <2>1. /\ FindRusticInfraService # NoService_ /\ EnabledBackupDataNames(svc.meta) # {}
        /\ \A n \in Range(svc.nodes) : validateTaskTargetNode(n, "backup")
    BY <1>1, <1>3, ServiceReasons
  <2>2. RunServiceAction("backup", {}) = createServiceTasks("backup", {})
    BY <2>1 DEF RunServiceAction
  <2>3. Range(svc.nodes) \subseteq Range(FindRusticInfraService.nodes) =>
          createServiceTasks("backup", {}) = Admitted("backup")
    BY <1>1, <2>1, AllNodesOf
  <2> QED  BY <1>2, <1>3, <2>2, <2>3
<1>4. CASE action = "dns_update"
  <2>1. svc.meta.hasDNS /\ setup.dns = "usable"
    BY <1>1, <1>4, ServiceReasons
  <2>2. RunServiceAction("dns_update", {}) = createServiceTasks("dns_update", {})
    BY <2>1 DEF RunServiceAction
  <2>3. Range(svc.nodes) \cap setup.disabled = {} => \A n \in Range(svc.nodes) : validateTaskTargetNode(n, "dns_update")
    BY <1>1 DEF validateTaskTargetNode, RequiresOnlineNode, ControllerTypes
  <2>4. Range(svc.nodes) \cap setup.disabled = {} => createServiceTasks("dns_update", {}) = Admitted("dns_update")
    BY <1>1, <2>3, AllNodesOf
  <2> QED  BY <1>2, <1>4, <2>2, <2>4
<1>5. CASE action = "caddy_sync"
  <2>1. svc.meta.caddy = "managed" /\ \A n \in Range(svc.nodes) : validateTaskTargetNode(n, "caddy_sync")
    BY <1>1, <1>5, ServiceReasons
  <2>2. RunServiceAction("caddy_sync", {}) = createServiceTasks("caddy_sync", {})
    BY <2>1 DEF RunServiceAction
  <2>3. createServiceTasks("caddy_sync", {}) = Admitted("caddy_sync")
    BY <1>1, <2>1, AllNodesOf
  <2> QED  BY <1>2, <1>5, <2>2, <2>3
<1>6. CASE action = "cloudflare_tunnel_sync"
  <2>1. svc.meta.tunnel = "managed" /\ setup.tunnel = "usable"
    BY <1>1, <1>6, ServiceReasons
  <2>2. RunServiceAction("cloudflare_tunnel_sync", {}) =
          Create(TasksOn("cloudflare_tunnel_sync", svc.name, {""}), TRUE)
    BY <2>1 DEF RunServiceAction, createServiceCloudflareTunnelSyncTask
  <2>4. Create(TasksOn("cloudflare_tunnel_sync", svc.name, {""}), TRUE).code = ""
    BY CreatedWithRows
  <2> QED  BY <1>6, <2>2, <2>4
<1> QED  BY <1>3, <1>4, <1>5, <1>6 DEF ShownActions

LEMMA ActionIsTurnedDown ==
  ASSUME FilesFinite, SetupKnown, NEW action \in ShownActions,
         FindService(Web) # NoService_, buildServiceActionCapabilities(FindService(Web))[action] # ""
  PROVE  \/ RunServiceAction(action, {}).tasks = {}
         \/ action = "dns_update" /\ setup.dns = "empty"
         \/ action = "cloudflare_tunnel_sync" /\ setup.tunnel = "empty"
<1> DEFINE svc == FindService(Web)
<1>1. svc.nodes # <<>> /\ DOMAIN svc.nodes \subseteq Nat
  BY TheService
<1>2. setup.dns \in {"usable", "empty", "none"} /\ setup.tunnel \in {"usable", "empty", "none"}
  BY DEF SetupKnown
<1>3. CASE action = "backup"
  <2>1. \/ FindRusticInfraService = NoService_ \/ EnabledBackupDataNames(svc.meta) = {}
        \/ \E n \in Range(svc.nodes) : ~validateTaskTargetNode(n, "backup")
    BY <1>1, <1>3, ServiceReasons
  <2>2. \/ RunServiceAction("backup", {}) = Refused("failed_precondition")
        \/ /\ RunServiceAction("backup", {}) = createServiceTasks("backup", {})
           /\ EnabledBackupDataNames(svc.meta) # {}
    BY DEF RunServiceAction
  <2>3. EnabledBackupDataNames(svc.meta) # {} => createServiceTasks("backup", {}) = Refused("failed_precondition")
    <3>1. FindRusticInfraService = NoService_ => createServiceTasks("backup", {}) = Refused("failed_precondition")
      BY AllNodesOf
    <3>2. (\E n \in Range(svc.nodes) : ~validateTaskTargetNode(n, "backup")) =>
            createServiceTasks("backup", {}) = Refused("failed_precondition")
      BY AllNodesOf
    <3> QED  BY <2>1, <3>1, <3>2
  <2> QED  BY <1>3, <2>2, <2>3, Refusal
<1>4. CASE action = "dns_update"
  <2>1. ~svc.meta.hasDNS \/ setup.dns \in {"empty", "none"}
    BY <1>1, <1>2, <1>4, ServiceReasons
  <2>2. setup.dns # "empty" => RunServiceAction("dns_update", {}) = Refused("failed_precondition")
    BY <2>1 DEF RunServiceAction
  <2> QED  BY <1>4, <2>2, Refusal
<1>5. CASE action = "caddy_sync"
  <2>1. svc.meta.caddy # "managed" \/ \E n \in Range(svc.nodes) : ~validateTaskTargetNode(n, "caddy_sync")
    BY <1>1, <1>5, ServiceReasons
  <2>2. \/ RunServiceAction("caddy_sync", {}) = Refused("failed_precondition")
        \/ /\ RunServiceAction("caddy_sync", {}) = createServiceTasks("caddy_sync", {})
           /\ svc.meta.caddy = "managed"
    BY DEF RunServiceAction
  <2>3. svc.meta.caddy = "managed" => createServiceTasks("caddy_sync", {}) = Refused("failed_precondition")
    BY <2>1, AllNodesOf
  <2> QED  BY <1>5, <2>2, <2>3, Refusal
<1>6. CASE action = "cloudflare_tunnel_sync"
  <2>1. svc.meta.tunnel # "managed" \/ setup.tunnel \in {"empty", "none"}
    BY <1>1, <1>2, <1>6, ServiceReasons
  <2>2. setup.tunnel # "empty" => RunServiceAction("cloudflare_tunnel_sync", {}) = Refused("failed_precondition")
    BY <2>1 DEF RunServiceAction, createServiceCloudflareTunnelSyncTask
  <2> QED  BY <1>6, <2>2, Refusal
<1> QED  BY <1>3, <1>4, <1>5, <1>6 DEF ShownActions

LEMMA ShownElsewhere ==
  ASSUME NEW r \in Requests, NEW reason, Shown(r, reason)
  PROVE  /\ r.rpc = "Rustic" /\ r.nodes = {} => reason = rusticMaintenanceGlobalCapability
         /\ r.rpc = "Rustic" /\ r.nodes # {} => reason = buildNodeActionCapabilities(TheNode(r)).rustic_maintenance
         /\ r.rpc = "ReloadNodeCaddy" => reason = buildNodeActionCapabilities(TheNode(r)).caddy_reload
         /\ r.rpc = "RebuildNodeCaddyFiles" => reason = buildNodeActionCapabilities(TheNode(r)).caddy_sync
         /\ r.rpc = "RestoreBackup" => reason = backupRestoreCapability
         /\ r.rpc \in {"SyncNodeCaddyFiles", "PruneNodeDocker", "RemoveNetwork"} => reason = "none"
<1>1. r.rpc \notin {"RunServiceAction", "MigrateService"} => reason = ShownIn(GetService, r)
  BY DEF Shown
<1> QED  BY <1>1 DEF ShownIn

LEMMA RusticIsAccepted ==
  ASSUME NEW n, busyAt = {}, validateTaskTargetNode(n, "rustic_prune"), FindRusticInfraService # NoService_,
         n \in Range(FindRusticInfraService.nodes)
  PROVE  \/ createNodeRusticMaintenanceTask(n, "rustic_prune").code = ""
         \/ \E m \in Range(FindRusticInfraService.nodes) : <<FindRusticInfraService.name, m>> \notin rows
<1> DEFINE name == FindRusticInfraService.name
<1>1. createNodeRusticMaintenanceTask(n, "rustic_prune") = Create(TasksOn("rustic_prune", name, {n}), FALSE)
  BY DEF createNodeRusticMaintenanceTask
<1>2. <<name, n>> \in rows => Create(TasksOn("rustic_prune", name, {n}), FALSE).code = ""
  <2> HIDE DEF name
  <2> QED  BY CreatedWithRows
<1> QED  BY <1>1, <1>2

\* What is shown as enabled is accepted, up to the exceptions.
LEMMA EnabledDoesGetAccepted ==
  ASSUME FilesFinite, table \subseteq rows,
         NEW r \in Requests, NEW reason, Shown(r, reason), NEW answer \in Answers(r)
  PROVE  Accepted(r, reason, answer)
<1>a. SUFFICES ASSUME reason = "", busyAt = {}, InForce, r.rpc = "RunServiceAction" => r.nodes = {},
                    r.rpc # "MigrateService", r.rpc # "RestoreBackup"
             PROVE  \/ answer.code = ""
                    \/ answer.code = "not_found" /\ \E p \in Decoded : metas[p].name = Web /\ ~Valid(p)
                    \/ /\ r.action = "backup"
                       /\ ~(Range(FindService(Web).nodes) \subseteq Range(FindRusticInfraService.nodes))
                    \/ r.action = "dns_update" /\ Range(FindService(Web).nodes) \cap setup.disabled # {}
                    \/ r.rpc = "ReloadNodeCaddy" /\ <<FindCaddyInfraService.name, TheNode(r)>> \notin rows
                    \/ /\ r.rpc = "Rustic"
                       /\ \E n \in Range(FindRusticInfraService.nodes) : <<FindRusticInfraService.name, n>> \notin rows
  BY DEF Accepted
<1> DEFINE n == TheNode(r)
<1>1. CASE r.rpc = "RunServiceAction" /\ r.action \in ServiceActions
  <2>1. answer = RunServiceAction(r.action, {})
    BY <1>a, <1>1, ActionAnswer
  <2>2. /\ r.action \in ShownActions
        /\ \/ FindService(Web) # NoService_ /\ reason = buildServiceActionCapabilities(FindService(Web))[r.action]
           \/ FindService(Web) = NoService_ /\ \E row \in table : row[1] = Web
    BY <1>a, <1>1, ShownAction
  <2>3. CASE FindService(Web) # NoService_
    BY <1>a, <2>1, <2>2, <2>3, ActionIsAccepted
  <2>4. CASE FindService(Web) = NoService_
    <3>1. answer.code = "not_found"
      BY <1>a, <2>1, <2>4, Refusal DEF RunServiceAction
    <3>2. PICK row \in table : row[1] = Web
      BY <1>a, <2>2, <2>4
    <3>3. PICK s \in DiscoverServices : s.name = Web
      BY <1>a, <3>2, TableNames
    <3>4. \E p \in Decoded : metas[p].name = Web /\ ~Valid(p)
      BY <1>a, <3>3, <2>4, ReadersAgreeOn
    <3> QED  BY <1>a, <3>1, <3>4
  <2> QED  BY <1>a, <2>3, <2>4
<1>2. CASE r.rpc = "Rustic" /\ r.action = "rustic_prune"
  <2>1. answer \in MaintainRustic("rustic_prune", r.nodes)
    BY <1>a, <1>2, TheAnswers
  <2>2. CASE r.nodes = {}
    <3>1. chooseRusticMainNode("rustic_prune") # {}
      BY <1>a, <1>2, <2>2, ShownElsewhere, GlobalReason
    <3>2. PICK m \in chooseRusticMainNode("rustic_prune") : answer = createNodeRusticMaintenanceTask(m, "rustic_prune")
      BY <1>a, <2>1, <2>2, <3>1, RusticAnswers
    <3> QED  BY <1>a, <1>2, <3>2, ChosenNode, RusticIsAccepted
  <2>3. CASE r.nodes # {}
    <3>1. r.nodes = {n}
      BY <1>a, <1>2, <2>3, TheRequest DEF ByNode
    <3>2. answer = createNodeRusticMaintenanceTask(n, "rustic_prune")
      BY <1>a, <2>1, <3>1, RusticAnswers
    <3>3. reason = buildNodeActionCapabilities(n).rustic_maintenance
      BY <1>a, <1>2, <2>3, ShownElsewhere
    <3>4. /\ validateTaskTargetNode(n, "rustic_prune") /\ FindRusticInfraService # NoService_
          /\ n \in Range(FindRusticInfraService.nodes)
      BY <1>a, <3>3, NodeReasons
    <3> QED  BY <1>a, <1>2, <3>2, <3>4, RusticIsAccepted
  <2> QED  BY <1>a, <2>2, <2>3
<1>3. CASE r.rpc = "ReloadNodeCaddy"
  <2>1. answer = createNodeCaddyReloadTask(n) /\ reason = buildNodeActionCapabilities(n).caddy_reload
    BY <1>a, <1>3, TheAnswers, ShownElsewhere
  <2>2. validateTaskTargetNode(n, "caddy_reload") /\ FindCaddyInfraService # NoService_
    BY <1>a, <2>1, NodeReasons
  <2>3. answer = Create(TasksOn("caddy_reload", FindCaddyInfraService.name, {n}), TRUE)
    BY <1>a, <2>1, <2>2 DEF createNodeCaddyReloadTask
  <2>4. ASSUME <<FindCaddyInfraService.name, n>> \in rows
        PROVE  answer.code = ""
    <3>1. PICK m, name : m = n /\ name = FindCaddyInfraService.name
      OBVIOUS
    <3>2. busyAt = {} /\ <<name, m>> \in rows
      BY <1>a, <2>4, <3>1
    <3>3. Create(TasksOn("caddy_reload", name, {m}), TRUE).code = NoName
      BY <3>2, CreatedWithRow
    <3> QED  BY <2>3, <3>1, <3>3 DEF NoName
  <2> QED  BY <1>a, <1>3, <2>4
<1>4. CASE r.rpc = "RebuildNodeCaddyFiles"
  <2>1. answer = createNodeCaddySyncTask(n, TRUE) /\ reason = buildNodeActionCapabilities(n).caddy_sync
    BY <1>a, <1>4, TheAnswers, ShownElsewhere
  <2>2. validateTaskTargetNode(n, "caddy_sync")
    BY <1>a, <2>1, NodeReasons
  <2>3. answer = Create(TasksOn("caddy_sync", "", {n}), FALSE)
    BY <1>a, <2>1, <2>2 DEF createNodeCaddySyncTask
  <2>4. PICK m, name : m = n /\ name = ""
    OBVIOUS
  <2>5. busyAt = {} /\ name = NoName
    BY <1>a, <2>4 DEF NoName
  <2>6. Create(TasksOn("caddy_sync", name, {m}), FALSE).code = NoName
    BY <2>5, CreatedWithRow
  <2> QED  BY <2>3, <2>4, <2>6 DEF NoName
<1>5. CASE r.rpc \in {"SyncNodeCaddyFiles", "PruneNodeDocker", "RemoveNetwork"}
  <2>1. reason = "none"
    BY <1>a, <1>5, ShownElsewhere
  <2> QED  BY <1>a, <2>1
<1> QED  BY <1>a, <1>1, <1>2, <1>3, <1>4, <1>5, TheRequest DEF ByNode

\* What is shown as disabled is refused, up to the exceptions.
LEMMA DisabledDoesGetRefused ==
  ASSUME FilesFinite, SetupKnown,
         NEW r \in Requests, NEW reason, Shown(r, reason), NEW answer \in Answers(r)
  PROVE  TurnedDown(r, reason, answer)
<1> SUFFICES ASSUME reason # "", reason # "none", reason # "service_not_declared",
                    r.rpc = "RunServiceAction" => r.nodes = {}
             PROVE  \/ answer.tasks = {}
                    \/ /\ r.rpc = "MigrateService"
                       /\ reason \in {"missing_backup_integration", "missing_migrate_definition"}
                    \/ r.rpc = "RestoreBackup" /\ reason = "missing_backup_integration"
                    \/ r.action = "dns_update" /\ setup.dns = "empty"
                    \/ r.action = "cloudflare_tunnel_sync" /\ setup.tunnel = "empty"
  BY DEF TurnedDown
<1> DEFINE n == TheNode(r)
<1>1. CASE r.rpc = "RunServiceAction" /\ r.action \in ServiceActions
  <2>1. answer = RunServiceAction(r.action, {})
    BY <1>1, ActionAnswer
  <2>2. /\ r.action \in ShownActions
        /\ \/ FindService(Web) # NoService_ /\ reason = buildServiceActionCapabilities(FindService(Web))[r.action]
           \/ FindService(Web) = NoService_
    BY <1>1, ShownAction
  <2>3. CASE FindService(Web) # NoService_
    BY <2>1, <2>2, <2>3, ActionIsTurnedDown
  <2>4. CASE FindService(Web) = NoService_
    BY <2>1, <2>4, Refusal DEF RunServiceAction
  <2> QED  BY <2>3, <2>4
<1>2. CASE r.rpc = "Rustic" /\ r.action = "rustic_prune"
  <2>1. answer \in MaintainRustic("rustic_prune", r.nodes)
    BY <1>2, TheAnswers
  <2>2. CASE r.nodes = {}
    <3>1. chooseRusticMainNode("rustic_prune") = {}
      BY <1>2, <2>2, ShownElsewhere, GlobalReason
    <3>2. answer = Refused("failed_precondition")
      BY <2>1, <2>2, <3>1, RusticAnswers
    <3> QED  BY <3>2, Refusal
  <2>3. CASE r.nodes # {}
    <3>1. r.nodes = {n}
      BY <1>2, <2>3, TheRequest DEF ByNode
    <3>2. answer = createNodeRusticMaintenanceTask(n, "rustic_prune")
      BY <2>1, <3>1, RusticAnswers
    <3>3. reason = buildNodeActionCapabilities(n).rustic_maintenance
      BY <1>2, <2>3, ShownElsewhere
    <3>4. \/ ~validateTaskTargetNode(n, "rustic_prune") \/ FindRusticInfraService = NoService_
          \/ n \notin Range(FindRusticInfraService.nodes)
      BY <3>3, NodeReasons
    <3>5. answer = Refused("failed_precondition")
      BY <3>2, <3>4 DEF createNodeRusticMaintenanceTask
    <3> QED  BY <3>5, Refusal
  <2> QED  BY <2>2, <2>3
<1>3. CASE r.rpc = "ReloadNodeCaddy"
  <2>1. answer = createNodeCaddyReloadTask(n) /\ reason = buildNodeActionCapabilities(n).caddy_reload
    BY <1>3, TheAnswers, ShownElsewhere
  <2>2. ~validateTaskTargetNode(n, "caddy_reload") \/ FindCaddyInfraService = NoService_
    BY <2>1, NodeReasons
  <2>3. answer = Refused("failed_precondition")
    BY <2>1, <2>2 DEF createNodeCaddyReloadTask
  <2> QED  BY <2>3, Refusal
<1>4. CASE r.rpc = "RebuildNodeCaddyFiles"
  <2>1. answer = createNodeCaddySyncTask(n, TRUE) /\ reason = buildNodeActionCapabilities(n).caddy_sync
    BY <1>4, TheAnswers, ShownElsewhere
  <2>2. ~validateTaskTargetNode(n, "caddy_sync")
    BY <2>1, NodeReasons
  <2>3. answer = Refused("failed_precondition")
    BY <2>1, <2>2 DEF createNodeCaddySyncTask
  <2> QED  BY <2>3, Refusal
<1>5. CASE r.rpc \in {"SyncNodeCaddyFiles", "PruneNodeDocker", "RemoveNetwork"}
  BY <1>5, ShownElsewhere
<1>6. CASE r.rpc = "RestoreBackup"
  <2>1. answer = RestoreBackup(n) /\ reason = backupRestoreCapability
    BY <1>6, TheAnswers, ShownElsewhere
  <2>2. reason = "" \/ reason = "missing_backup_integration" \/ answer.tasks = {}
    BY <2>1, RestoreReason
  <2> QED  BY <1>6, <2>2
<1>7. CASE r.rpc = "MigrateService"
  BY <1>7, ShownMigration
<1> QED  BY <1>1, <1>2, <1>3, <1>4, <1>5, <1>6, <1>7, TheRequest DEF ByNode

-----------------------------------------------------------------------------
(* What a change of a request leaves alone                                  *)

SameState == UNCHANGED <<setup, online, rows, table, busyAt, metaVars>>

LEMMA ReadersStay ==
  ASSUME SameState
  PROVE  /\ Decoded' = Decoded /\ \A p : Valid(p)' <=> Valid(p)
         /\ \A S : TheOnly(S)' = TheOnly(S)
         /\ \A name : FindService(name)' = FindService(name)
         /\ FindCaddyInfraService' = FindCaddyInfraService /\ FindRusticInfraService' = FindRusticInfraService
         /\ DiscoverServices' = DiscoverServices
<1>1. metas' = metas /\ nodeSet' = nodeSet
  BY DEF SameState, metaVars
<1>2. Decoded' = Decoded
  BY <1>1 DEF Decoded
<1>3. ASSUME NEW p
      PROVE  Valid(p)' <=> Valid(p)
  <2>1. Valid(p)' <=> ValidFor(nodeSet', metas'[p])
    BY DEF Valid, validateServiceMeta, ValidFor
  <2>2. Valid(p) <=> ValidFor(nodeSet, metas[p])
    BY ValidForNodes DEF Valid
  <2> QED  BY <1>1, <2>1, <2>2
<1>4. ASSUME NEW S
      PROVE  TheOnly(S)' = TheOnly(S)
  BY <1>1, <1>3 DEF TheOnly
<1>5. ASSUME NEW name
      PROVE  FindService(name)' = FindService(name)
  <2>1. {p \in Decoded' : metas'[p].name = name} = {p \in Decoded : metas[p].name = name}
    BY <1>1, <1>2
  <2>2. FindService(name)' = TheOnly({p \in Decoded : metas[p].name = name})'
    BY DEF FindService
  <2> QED  BY <1>1, <1>2, <1>4, <2>2 DEF FindService
<1>6. FindCaddyInfraService' = FindCaddyInfraService
  <2>1. FindCaddyInfraService' = TheOnly({p \in Decoded : "caddy" \in metas[p].infra})'
    BY DEF FindCaddyInfraService
  <2> QED  BY <1>1, <1>2, <1>4, <2>1 DEF FindCaddyInfraService
<1>7. FindRusticInfraService' = FindRusticInfraService
  <2>1. FindRusticInfraService' = TheOnly({p \in Decoded : "rustic" \in metas[p].infra})'
    BY DEF FindRusticInfraService
  <2> QED  BY <1>1, <1>2, <1>4, <2>1 DEF FindRusticInfraService
<1>8. DiscoverServices' = DiscoverServices
  <2> DEFINE Good == {q \in Decoded : Valid(q) /\ \A r \in Decoded \ {q} : Valid(r) => metas[r].name # metas[q].name}
  <2>1. Good' = Good
    BY <1>1, <1>2, <1>3
  <2>2. DiscoverServices = {strictServiceFromMeta(p, metas[p]) : p \in Good}
    BY DEF DiscoverServices
  <2>3. DiscoverServices' = {strictServiceFromMeta(p, metas'[p]) : p \in Good'}
    BY DEF DiscoverServices
  <2> HIDE DEF Good
  <2> QED  BY <1>1, <2>1, <2>2, <2>3
<1> QED  BY <1>2, <1>3, <1>4, <1>5, <1>6, <1>7, <1>8

LEMMA CapabilitiesStay ==
  ASSUME SameState
  PROVE  /\ \A n, type : taskTargetNodeCapability(n, type)' = taskTargetNodeCapability(n, type)
         /\ \A nodes, type : taskTargetNodesCapability(nodes, type)' = taskTargetNodesCapability(nodes, type)
         /\ \A type : anyNodeEligibleForTask(type)' <=> anyNodeEligibleForTask(type)
         /\ backupIntegrationCapability' = backupIntegrationCapability
         /\ dnsIntegrationCapability' = dnsIntegrationCapability
         /\ cloudflareTunnelIntegrationCapability' = cloudflareTunnelIntegrationCapability
         /\ rusticMaintenanceGlobalCapability' = rusticMaintenanceGlobalCapability
<1>1. /\ setup' = setup /\ online' = online /\ nodeSet' = nodeSet
      /\ FindRusticInfraService' = FindRusticInfraService
  BY ReadersStay DEF SameState, metaVars
<1>2. ASSUME NEW n, NEW type
      PROVE  taskTargetNodeCapability(n, type)' = taskTargetNodeCapability(n, type)
  BY <1>1 DEF taskTargetNodeCapability
<1>3. ASSUME NEW nodes, NEW type
      PROVE  taskTargetNodesCapability(nodes, type)' = taskTargetNodesCapability(nodes, type)
  BY <1>2 DEF taskTargetNodesCapability
<1>4. ASSUME NEW type
      PROVE  anyNodeEligibleForTask(type)' <=> anyNodeEligibleForTask(type)
  BY <1>1, <1>2, Zenon DEF anyNodeEligibleForTask
<1>5. /\ backupIntegrationCapability' = backupIntegrationCapability
      /\ dnsIntegrationCapability' = dnsIntegrationCapability
      /\ cloudflareTunnelIntegrationCapability' = cloudflareTunnelIntegrationCapability
  BY <1>1 DEF backupIntegrationCapability, dnsIntegrationCapability, cloudflareTunnelIntegrationCapability
<1>6. MainNodeCandidates' = MainNodeCandidates
  BY <1>1 DEF MainNodeCandidates
<1>7. rusticMaintenanceGlobalCapability' = rusticMaintenanceGlobalCapability
  BY <1>1, <1>2, <1>6 DEF rusticMaintenanceGlobalCapability
<1> QED  BY <1>2, <1>3, <1>4, <1>5, <1>7

LEMMA ViewsStay ==
  ASSUME SameState
  PROVE  \A r, reason : Shown(r, reason)' <=> Shown(r, reason)
<1>1. /\ setup' = setup /\ metas' = metas /\ table' = table
      /\ FindRusticInfraService' = FindRusticInfraService /\ FindCaddyInfraService' = FindCaddyInfraService
      /\ FindService(Web)' = FindService(Web) /\ \A p : Valid(p)' <=> Valid(p)
  BY ReadersStay DEF SameState, metaVars
<1>2. ASSUME NEW service
      PROVE  buildServiceActionCapabilities(service)' = buildServiceActionCapabilities(service)
  BY CapabilitiesStay DEF buildServiceActionCapabilities
<1>3. ASSUME NEW n
      PROVE  buildNodeActionCapabilities(n)' = buildNodeActionCapabilities(n)
  BY <1>1, CapabilitiesStay DEF buildNodeActionCapabilities
<1>4. backupRestoreCapability' = backupRestoreCapability
  BY <1>1, CapabilitiesStay DEF backupRestoreCapability
<1>5. ASSUME NEW p
      PROVE  buildServiceWorkspaceSummary(p)' = buildServiceWorkspaceSummary(p)
  BY <1>1, <1>2 DEF buildServiceWorkspaceSummary
<1>6. GetService' = GetService
  BY <1>1, <1>2 DEF GetService
<1>7. ASSUME NEW caps, NEW r
      PROVE  ShownIn(caps, r)' = ShownIn(caps, r)
  BY <1>3, <1>4, CapabilitiesStay DEF ShownIn
<1>8. ASSUME NEW r, NEW reason
      PROVE  Shown(r, reason)' <=> Shown(r, reason)
  BY <1>1, <1>5, <1>6, <1>7 DEF Shown
<1> QED  BY <1>8

\* The answer to a request, with what was shown for it if nothing changed.
Honest(r, reason, fresh, answer) ==
  /\ \A t \in answer.tasks : Executable(t)
  /\ fresh => Accepted(r, reason, answer) /\ TurnedDown(r, reason, answer)
  /\ answer.code = "panic" => r.rpc = "RestoreBackup" /\ FindService(Web).meta.data = <<>>

LEMMA HonestStays ==
  ASSUME SameState, NEW r, NEW reason, NEW fresh, NEW answer, Honest(r, reason, fresh, answer)
  PROVE  Honest(r, reason, fresh, answer)'
<1>1. /\ setup' = setup /\ online' = online /\ rows' = rows /\ busyAt' = busyAt /\ metas' = metas
      /\ nodeSet' = nodeSet /\ table' = table /\ DiscoverServices' = DiscoverServices /\ Decoded' = Decoded
      /\ FindRusticInfraService' = FindRusticInfraService /\ FindCaddyInfraService' = FindCaddyInfraService
      /\ FindService(Web)' = FindService(Web) /\ \A p : Valid(p)' <=> Valid(p)
  BY ReadersStay DEF SameState, metaVars
<1>2. ASSUME NEW t
      PROVE  Executable(t)' <=> Executable(t)
  BY <1>1 DEF Executable
<1>3. InForce' <=> InForce
  BY <1>1 DEF InForce
<1>4. Accepted(r, reason, answer) => Accepted(r, reason, answer)'
  BY <1>1, <1>3 DEF Accepted
<1>5. TurnedDown(r, reason, answer) => TurnedDown(r, reason, answer)'
  BY <1>1 DEF TurnedDown
<1> QED  BY <1>1, <1>2, <1>4, <1>5 DEF Honest

LEMMA AnswersAreHonest ==
  ASSUME FilesFinite, SetupKnown, table \subseteq rows,
         NEW r \in Requests, NEW reason, NEW fresh, fresh => Shown(r, reason), NEW answer \in Answers(r)
  PROVE  Honest(r, reason, fresh, answer)
<1>1. /\ \A t \in answer.tasks : Executable(t)
      /\ answer.code = "panic" => r.rpc = "RestoreBackup" /\ FindService(Web).meta.data = <<>>
  BY AnswersAreSound
<1>2. fresh => Accepted(r, reason, answer) /\ TurnedDown(r, reason, answer)
  BY EnabledDoesGetAccepted, DisabledDoesGetRefused
<1> QED  BY <1>1, <1>2 DEF Honest

-----------------------------------------------------------------------------
(* The invariant                                                            *)

AskedRecord(r, reason, fresh) == [request |-> r, reason |-> reason, fresh |-> fresh]
ReplyRecord(r, reason, fresh, answer) == [request |-> r, reason |-> reason, fresh |-> fresh, answer |-> answer]

LEMMA Records ==
  /\ \A r, reason, fresh : AskedRecord(r, reason, fresh) # Nothing
  /\ \A r, reason, fresh, answer : ReplyRecord(r, reason, fresh, answer) # Nothing
<1>1. DOMAIN Nothing = {}
  BY DEF Nothing
<1>2. ASSUME NEW r, NEW reason, NEW fresh
      PROVE  AskedRecord(r, reason, fresh) # Nothing
  <2>1. "request" \in DOMAIN AskedRecord(r, reason, fresh)
    BY DEF AskedRecord
  <2> QED  BY <1>1, <2>1
<1>3. ASSUME NEW r, NEW reason, NEW fresh, NEW answer
      PROVE  ReplyRecord(r, reason, fresh, answer) # Nothing
  <2>1. "request" \in DOMAIN ReplyRecord(r, reason, fresh, answer)
    BY DEF ReplyRecord
  <2> QED  BY <1>1, <2>1
<1> QED  BY <1>2, <1>3

\* The files and the configuration are among those that are tried, and every
\* declared instance of the table has its row.
WorldInv == metas \in Repositories /\ setup \in Setups /\ table \subseteq rows

\* What was shown holds until something changes.
AskedInv ==
  asked # Nothing =>
    \E r \in Requests, fresh \in BOOLEAN : \E reason :
      asked = AskedRecord(r, reason, fresh) /\ (fresh => Shown(r, reason))

ReplyInv ==
  reply # Nothing =>
    \E r, reason, fresh, answer :
      reply = ReplyRecord(r, reason, fresh, answer) /\ Honest(r, reason, fresh, answer)

CapInv == WorldInv /\ AskedInv /\ ReplyInv

LEMMA WorldIsKnown == WorldInv => FilesFinite /\ SetupKnown
  BY CapAssumption DEF WorldInv, FilesFinite, SetupKnown

LEMMA CapInvIsEnough == CapInv => CapabilitiesAreHonest
<1> SUFFICES ASSUME CapInv
             PROVE  CapabilitiesAreHonest
  OBVIOUS
<1>1. ViewsAgree
  BY WorldIsKnown, ViewsDoAgree DEF CapInv
<1>2. CASE ~Decided
  BY <1>1, <1>2 DEF CapabilitiesAreHonest, AdmittedIsExecutable, EnabledIsAccepted, DisabledIsRefused, OnlyRestoreDies
<1>3. CASE Decided
  <2>1. PICK r, reason, fresh, answer :
          reply = ReplyRecord(r, reason, fresh, answer) /\ Honest(r, reason, fresh, answer)
    BY <1>3 DEF CapInv, ReplyInv, Decided
  <2>2. reply.request = r /\ reply.reason = reason /\ reply.fresh = fresh /\ reply.answer = answer
    BY <2>1 DEF ReplyRecord
  <2>3. AdmittedIsExecutable
    BY <2>1, <2>2 DEF AdmittedIsExecutable, Honest, Executable
  <2>4. EnabledIsAccepted
    BY <2>1, <2>2 DEF EnabledIsAccepted, Honest, Accepted
  <2>5. DisabledIsRefused
    BY <2>1, <2>2 DEF DisabledIsRefused, Honest, TurnedDown
  <2>6. OnlyRestoreDies
    BY <2>1, <2>2 DEF OnlyRestoreDies, Honest
  <2> QED  BY <1>1, <2>3, <2>4, <2>5, <2>6 DEF CapabilitiesAreHonest
<1> QED  BY <1>2, <1>3

LEMMA CapInvAtStart == CapInit => CapInv
  BY DEF CapInit, CapInv, WorldInv, AskedInv, ReplyInv

LEMMA LookKeeps ==
  ASSUME CapInv, NEW r \in Requests, Look(r)
  PROVE  CapInv'
<1>1. SameState /\ reply' = reply /\ reply = Nothing
  BY DEF Look, SameState
<1>2. WorldInv'
  BY <1>1 DEF CapInv, WorldInv, SameState, metaVars
<1>3. PICK reason : asked' = AskedRecord(r, reason, TRUE) /\ Shown(r, reason)
  BY DEF Look, AskedRecord, Shown
<1>4. Shown(r, reason)'
  BY <1>1, <1>3, ViewsStay
<1>5. AskedInv'
  <2>1. \E why : asked' = AskedRecord(r, why, TRUE) /\ (TRUE => Shown(r, why)')
    BY <1>3, <1>4
  <2> QED  BY <2>1 DEF AskedInv
<1>6. ReplyInv'
  BY <1>1 DEF ReplyInv
<1> QED  BY <1>2, <1>5, <1>6 DEF CapInv

LEMMA SubmitKeeps ==
  ASSUME CapInv, Submit
  PROVE  CapInv'
<1>1. SameState /\ asked # Nothing /\ asked' = Nothing
  BY DEF Submit, SameState
<1>2. WorldInv'
  BY <1>1 DEF CapInv, WorldInv, SameState, metaVars
<1>p. PICK r \in Requests, fresh \in BOOLEAN :
        \E reason : asked = AskedRecord(r, reason, fresh) /\ (fresh => Shown(r, reason))
  BY <1>1 DEF CapInv, AskedInv
<1>3. PICK reason : asked = AskedRecord(r, reason, fresh) /\ (fresh => Shown(r, reason))
  BY <1>p
<1>4. asked.request = r /\ asked.reason = reason /\ asked.fresh = fresh
  BY <1>3 DEF AskedRecord
<1>5. PICK answer \in Answers(r) : reply' = ReplyRecord(r, reason, fresh, answer)
  BY <1>4 DEF Submit, ReplyRecord
<1>6. Honest(r, reason, fresh, answer)
  BY <1>3, WorldIsKnown, AnswersAreHonest DEF CapInv, WorldInv
<1>7. Honest(r, reason, fresh, answer)'
  BY <1>1, <1>6, HonestStays
<1>8. ReplyInv'
  BY <1>5, <1>7 DEF ReplyInv
<1>9. AskedInv'
  BY <1>1 DEF AskedInv
<1> QED  BY <1>2, <1>8, <1>9 DEF CapInv

\* After a change nothing that was shown counts any more.
LEMMA ChangeForgets ==
  ASSUME CapInv, asked' = (IF asked = Nothing THEN Nothing ELSE [asked EXCEPT !.fresh = FALSE]), reply' = Nothing
  PROVE  AskedInv' /\ ReplyInv'
<1>1. CASE asked = Nothing
  BY <1>1 DEF AskedInv, ReplyInv
<1>2. CASE asked # Nothing
  <2>0. PICK r \in Requests, fresh \in BOOLEAN : \E reason : asked = AskedRecord(r, reason, fresh)
    BY <1>2 DEF CapInv, AskedInv
  <2>1. PICK reason : asked = AskedRecord(r, reason, fresh)
    BY <2>0
  <2>2. asked' = AskedRecord(r, reason, FALSE)
    BY <1>2, <2>1 DEF AskedRecord
  <2> QED  BY <2>2 DEF AskedInv, ReplyInv
<1> QED  BY <1>1, <1>2

LEMMA ChangesKeep ==
  ASSUME CapInv,
         \/ SyncDeclaredServices
         \/ \E files \in Repositories : ChangeRepository(files)
         \/ \E next \in Setups : Reconfigure(next)
         \/ \E n \in CapNodes : NodeReports(n) \/ OtherTask(n)
  PROVE  CapInv'
<1>1. asked' = (IF asked = Nothing THEN Nothing ELSE [asked EXCEPT !.fresh = FALSE]) /\ reply' = Nothing
  BY DEF SyncDeclaredServices, ChangeRepository, Reconfigure, NodeReports, OtherTask, Changed
<1>2. \/ metas' = metas /\ setup' = setup /\ rows' = rows \cup table'
      \/ metas' \in Repositories /\ setup' \in Setups /\ rows' = rows /\ table' = table
  BY DEF SyncDeclaredServices, ChangeRepository, Reconfigure, NodeReports, OtherTask, metaVars, CapInv, WorldInv
<1>3. WorldInv'
  BY <1>2 DEF CapInv, WorldInv
<1> QED  BY <1>1, <1>3, ChangeForgets DEF CapInv

LEMMA CapStutter ==
  ASSUME CapInv, UNCHANGED <<capVars, metaVars>>
  PROVE  CapInv'
<1>1. SameState /\ asked' = asked /\ reply' = reply
  BY DEF capVars, SameState
<1>2. WorldInv'
  BY <1>1 DEF CapInv, WorldInv, SameState, metaVars
<1>3. AskedInv'
  BY <1>1, ViewsStay DEF CapInv, AskedInv
<1>4. ReplyInv'
  <2>1. CASE reply = Nothing
    BY <1>1, <2>1 DEF ReplyInv
  <2>2. CASE reply # Nothing
    <3>1. PICK r, reason, fresh, answer :
            reply = ReplyRecord(r, reason, fresh, answer) /\ Honest(r, reason, fresh, answer)
      BY <2>2 DEF CapInv, ReplyInv
    <3>2. Honest(r, reason, fresh, answer)'
      BY <1>1, <3>1, HonestStays
    <3> QED  BY <1>1, <3>1, <3>2 DEF ReplyInv
  <2> QED  BY <2>1, <2>2
<1> QED  BY <1>2, <1>3, <1>4 DEF CapInv

\* What is shown and what is admitted fit together, for any repositories and
\* configurations and whatever changes between the reading and the request: a
\* task is created only where it can run, what is shown as enabled is accepted
\* and what is shown as disabled refused, up to the exceptions the properties
\* name (capabilities.go against task_admission.go).
THEOREM CapabilitiesSound == CapSpec => []CapabilitiesAreHonest
<1>1. CapInit => CapInv
  BY CapInvAtStart
<1>2. CapInv /\ [CapNext]_<<capVars, metaVars>> => CapInv'
  <2> SUFFICES ASSUME CapInv, [CapNext]_<<capVars, metaVars>>
               PROVE  CapInv'
    OBVIOUS
  <2>1. CASE \E r \in Requests : Look(r)
    BY <2>1, LookKeeps
  <2>2. CASE Submit
    BY <2>2, SubmitKeeps
  <2>3. CASE \/ SyncDeclaredServices
             \/ \E files \in Repositories : ChangeRepository(files)
             \/ \E next \in Setups : Reconfigure(next)
             \/ \E n \in CapNodes : NodeReports(n) \/ OtherTask(n)
    BY <2>3, ChangesKeep
  <2>4. CASE UNCHANGED <<capVars, metaVars>>
    BY <2>4, CapStutter
  <2> QED  BY <2>1, <2>2, <2>3, <2>4 DEF CapNext
<1> QED  BY <1>1, <1>2, CapInvIsEnough, PTL DEF CapSpec

-----------------------------------------------------------------------------
(* The log of a task *)

Chunks == 1..MaxChunks
Messages == [seq : Chunks, chunk : Chunks, live : BOOLEAN]
Readers == [at : {"stat", "read", "status", "done"}, offset : Nat, size : Nat, got : Nat, sent : Seq(Chunks)]

\* Nothing is numbered or acknowledged beyond what was produced; the controller
\* remembers what it stored; there is an acknowledgement only while one is
\* awaited.
SenderTypes ==
  /\ produced \in 0..MaxChunks
  /\ pending \in [seq : 0..MaxChunks, chunk : 0..MaxChunks]
  /\ pending # NoEntry => pending.seq \in 1..produced /\ pending.chunk = produced
  /\ nextSeq \in 1..(produced + 1) /\ lastConfirmed \in 0..produced
  /\ stream \in {"closed", "open", "sent"} /\ (stream = "sent" => pending # NoEntry)
  /\ result \in [Chunks -> {"none", "ok", "failed"}] /\ abandoned \in BOOLEAN

WireTypes ==
  /\ wire \in SUBSET Messages
  /\ \A m \in wire : m.seq <= produced /\ m.chunk <= produced
  /\ \A m \in wire : m.live =>
       stream = "sent" /\ ack = NoAck /\ m = [seq |-> pending.seq, chunk |-> pending.chunk, live |-> TRUE]

StoreTypes ==
  /\ log \in Seq(Chunks) /\ \A i \in DOMAIN log : log[i] <= produced
  /\ stored \in 0..produced /\ cached \in {stored, NoAck} /\ ack \in (0..produced) \cup {NoAck}
  /\ ack # NoAck => stream = "sent"
  /\ faults \in Nat /\ restores \in Nat

UploadTypes == SenderTypes /\ WireTypes /\ StoreTypes

\* Both sides count alike, the controller by at most one ahead, unless its
\* count was restored.
CountInv ==
  restores = 0 =>
    /\ pending = NoEntry => nextSeq = lastConfirmed + 1
    /\ pending # NoEntry => pending.seq = lastConfirmed + 1 /\ nextSeq = lastConfirmed + 2
    /\ lastConfirmed <= stored /\ stored <= lastConfirmed + 1
    /\ ack # NoAck => lastConfirmed <= ack /\ ack <= stored
    /\ \A m \in wire : m.seq <= lastConfirmed + 1

\* What may still be appended comes after what is in the log.
OrderInv ==
  faults = 0 /\ restores = 0 =>
    /\ \A i, j \in DOMAIN log : i < j => log[i] < log[j]
    /\ \A m \in wire : m.seq > stored => \A i \in DOMAIN log : log[i] < m.chunk
    /\ pending # NoEntry /\ pending.seq > stored => \A i \in DOMAIN log : log[i] < pending.chunk

\* As long as every Upload waits for its acknowledgement a chunk is its number.
NumberInv ==
  ~abandoned /\ restores = 0 =>
    /\ nextSeq = produced + 1
    /\ pending.seq = pending.chunk
    /\ \A m \in wire : m.seq = m.chunk
    /\ \A c \in 1..stored : c \in ToSet(log)
    /\ \A c \in Chunks : result[c] = "ok" => c \in ToSet(log)

\* What lies before the reader's offset has been sent.
TailInv ==
  /\ tail \in Readers /\ tail.offset <= Len(log) /\ (tail.at = "read" => tail.size <= Len(log))
  /\ \A i \in 1..tail.offset : log[i] \in ToSet(tail.sent)

LogInv == UploadTypes /\ CountInv /\ OrderInv /\ NumberInv /\ TailInv

-----------------------------------------------------------------------------

LEMMA LogInitOK == LogInit => LogInv
<1> SUFFICES ASSUME LogInit PROVE LogInv
  OBVIOUS
<1> USE LogAssumption DEF LogInit
<1>1. UploadTypes
  <2>1. MaxChunks \in Nat /\ MaxChunks # 0
    BY DEF LogAssumption
  <2>2. pending = [seq |-> 0, chunk |-> 0]
    BY DEF NoEntry
  <2>3. result \in [Chunks -> {"none", "ok", "failed"}]
    BY DEF Chunks
  <2>4. log \in Seq(Chunks) /\ DOMAIN log = {}
    OBVIOUS
  <2>5. wire \in SUBSET Messages /\ \A m \in wire : FALSE
    OBVIOUS
  <2>6. produced = 0 /\ nextSeq = 1 /\ lastConfirmed = 0 /\ stored = 0 /\ faults = 0 /\ restores = 0
        /\ stream = "closed" /\ abandoned = FALSE /\ ack = NoAck /\ cached = NoAck /\ pending = NoEntry
    OBVIOUS
  <2>7. pending \in [seq : 0..MaxChunks, chunk : 0..MaxChunks]
    BY <2>1, <2>2
  <2>8. pending # NoEntry => pending.seq \in 1..produced /\ pending.chunk = produced
    BY <2>6
  <2>9. produced \in 0..MaxChunks /\ nextSeq \in 1..(produced + 1) /\ lastConfirmed \in 0..produced
        /\ stored \in 0..produced /\ faults \in Nat /\ restores \in Nat
    BY <2>1, <2>6
  <2>13. abandoned \in BOOLEAN
    BY <2>6
  <2>10. \A i \in DOMAIN log : log[i] <= produced
    BY <2>4
  <2>11. (ack # NoAck => stream = "sent") /\ (stream = "sent" => pending # NoEntry)
         /\ stream \in {"closed", "open", "sent"}
    BY <2>6
  <2>12. cached \in {stored, NoAck} /\ ack \in (0..produced) \cup {NoAck}
    BY <2>6
  <2> QED
    BY ONLY <2>3, <2>4, <2>5, <2>7, <2>8, <2>9, <2>10, <2>11, <2>12, <2>13
       DEF UploadTypes, SenderTypes, WireTypes, StoreTypes
<1>2. CountInv
  BY DEF CountInv, NoAck
<1>3. OrderInv
  BY DEF OrderInv
<1>4. NumberInv
  BY DEF NumberInv, NoEntry, Chunks
<1>5. TailInv
  BY DEF TailInv, Readers, Chunks
<1> QED
  BY <1>1, <1>2, <1>3, <1>4, <1>5 DEF LogInv

\* A chunk that is in the log stays in it.
LEMMA LogGrows ==
  ASSUME NEW s \in Seq(Chunks), NEW c \in Chunks
  PROVE  /\ Append(s, c) \in Seq(Chunks) /\ Len(Append(s, c)) = Len(s) + 1
         /\ \A i \in DOMAIN s : Append(s, c)[i] = s[i]
         /\ Append(s, c)[Len(s) + 1] = c
         /\ DOMAIN s = 1..Len(s) /\ DOMAIN Append(s, c) = 1..(Len(s) + 1)
         /\ ToSet(Append(s, c)) = ToSet(s) \cup {c}
<1>1. /\ Append(s, c) \in Seq(Chunks) /\ Len(Append(s, c)) = Len(s) + 1
      /\ \A i \in 1..Len(s) : Append(s, c)[i] = s[i]
      /\ Append(s, c)[Len(s) + 1] = c
      /\ DOMAIN s = 1..Len(s) /\ DOMAIN Append(s, c) = 1..(Len(s) + 1) /\ Len(s) \in Nat
  OBVIOUS
<1> DEFINE t == Append(s, c)
<1> HIDE DEF t
<1>2. ToSet(t) = ToSet(s) \cup {c}
  BY <1>1 DEF ToSet, t
<1> QED
  BY <1>1, <1>2 DEF t

\* What the reader sends is the log from its offset on.
LEMMA RestIsSent ==
  ASSUME NEW s \in Seq(Chunks), NEW sent \in Seq(Chunks), NEW n \in 0..Len(s)
  PROVE  /\ sent \o SubSeq(s, n + 1, Len(s)) \in Seq(Chunks)
         /\ ToSet(sent) \subseteq ToSet(sent \o SubSeq(s, n + 1, Len(s)))
         /\ \A i \in (n + 1)..Len(s) : s[i] \in ToSet(sent \o SubSeq(s, n + 1, Len(s)))
<1> DEFINE rest == SubSeq(s, n + 1, Len(s))
           all == sent \o rest
<1>1. rest \in Seq(Chunks) /\ Len(rest) = Len(s) - n /\ Len(s) \in Nat
      /\ \A i \in 1..(Len(s) - n) : rest[i] = s[n + i]
  OBVIOUS
<1> HIDE DEF rest
<1> HIDE DEF Chunks
<1>2. /\ all \in Seq(Chunks) /\ Len(all) = Len(sent) + Len(rest)
      /\ \A i \in 1..Len(sent) : all[i] = sent[i]
      /\ \A i \in 1..Len(rest) : all[Len(sent) + i] = rest[i]
      /\ DOMAIN sent = 1..Len(sent) /\ DOMAIN all = 1..Len(all) /\ Len(sent) \in Nat
  <2>1. rest \in Seq(Chunks) /\ sent \in Seq(Chunks)
    BY <1>1
  <2> QED
    BY ONLY <2>1
<1> HIDE DEF all
<1>3. ToSet(sent) \subseteq ToSet(all)
  BY <1>1, <1>2 DEF ToSet
<1>4. ASSUME NEW i \in (n + 1)..Len(s) PROVE s[i] \in ToSet(all)
  <2>1. i - n \in 1..Len(rest) /\ rest[i - n] = s[i]
    BY <1>1
  <2>2. Len(sent) + (i - n) \in DOMAIN all /\ all[Len(sent) + (i - n)] = s[i]
    BY <1>1, <1>2, <2>1
  <2> QED
    BY <2>2 DEF ToSet
<1>5. all \in Seq(Chunks)
  BY <1>2
<1>6. \A i \in (n + 1)..Len(s) : s[i] \in ToSet(all)
  BY <1>4
<1> QED
  BY ONLY <1>3, <1>5, <1>6 DEF all, rest

\* A broken stream leaves some of what it carried, and nobody waits for it.
LEMMA LessOnWire ==
  ASSUME wire \in SUBSET Messages, NEW ms \in {Unlive(wire), {}}
  PROVE  /\ ms \in SUBSET Messages
         /\ \A m \in ms : ~m.live /\ \E n \in wire : n.seq = m.seq /\ n.chunk = m.chunk
<1>1. ASSUME NEW m \in Unlive(wire)
      PROVE  m \in Messages /\ ~m.live /\ \E n \in wire : n.seq = m.seq /\ n.chunk = m.chunk
  <2>1. PICK n \in wire : m = [n EXCEPT !.live = FALSE]
    BY <1>1 DEF Unlive
  <2>2. n \in Messages
    OBVIOUS
  <2> QED
    BY <2>1, <2>2 DEF Messages
<1> QED
  BY <1>1

LEMMA UploadKeeps ==
  ASSUME LogInv, Upload
  PROVE  LogInv'
<1> USE LogAssumption DEF LogInv, UploadTypes, Upload, agentVars, serverVars
<1>1. SenderTypes'
  BY DEF SenderTypes, NoEntry, Chunks
<1>2. WireTypes'
  BY DEF SenderTypes, WireTypes, StoreTypes, Messages, Chunks
<1>3. StoreTypes'
  BY DEF SenderTypes, StoreTypes, Chunks, NoAck
<1>4. CountInv'
  BY DEF CountInv, SenderTypes, WireTypes, StoreTypes, NoEntry, NoAck, Messages
<1>5. OrderInv'
  BY DEF OrderInv, SenderTypes, WireTypes, StoreTypes, NoEntry, CountInv, Chunks
<1>6. NumberInv'
  BY DEF NumberInv, SenderTypes, WireTypes, StoreTypes, NoEntry
<1>7. TailInv'
  BY DEF TailInv
<1> QED
  BY <1>1, <1>2, <1>3, <1>4, <1>5, <1>6, <1>7

LEMMA SendKeeps ==
  ASSUME LogInv, SendPendingLog
  PROVE  LogInv'
<1> USE LogAssumption DEF LogInv, UploadTypes, SendPendingLog, agentVars, serverVars
<1>1. SenderTypes'
  BY DEF SenderTypes, WireTypes, StoreTypes
<1>2. WireTypes'
  <2> DEFINE sent == [seq |-> pending.seq, chunk |-> pending.chunk, live |-> TRUE]
  <2>1. /\ pending.seq \in 1..produced /\ pending.chunk = produced /\ produced \in 1..MaxChunks
        /\ produced \in Nat /\ MaxChunks \in Nat
    BY DEF SenderTypes
  <2>2. sent \in Messages /\ sent.seq <= produced /\ sent.chunk <= produced
    BY <2>1 DEF Messages, Chunks
  <2>3. \A m \in wire : ~m.live
    BY DEF WireTypes
  <2>4. ack' = NoAck /\ stream' = "sent" /\ pending' = pending /\ produced' = produced
    BY DEF StoreTypes
  <2>5. wire' = wire \cup {sent}
    OBVIOUS
  <2> HIDE DEF SendPendingLog
  <2>6. \A m \in wire' : m.live => m = sent
    BY <2>3, <2>5
  <2>7. \A m \in wire' : m \in Messages /\ m.seq <= produced /\ m.chunk <= produced
    BY <2>2, <2>5 DEF WireTypes
  <2> QED
    BY <2>4, <2>6, <2>7 DEF WireTypes
<1>3. StoreTypes'
  BY DEF StoreTypes, SenderTypes, WireTypes
<1>4. CountInv'
  BY DEF CountInv, SenderTypes, WireTypes, StoreTypes
<1>5. OrderInv'
  BY DEF OrderInv, SenderTypes, WireTypes, StoreTypes
<1>6. NumberInv'
  BY DEF NumberInv, SenderTypes, WireTypes, StoreTypes
<1>7. TailInv'
  BY DEF TailInv
<1> QED
  BY <1>1, <1>2, <1>3, <1>4, <1>5, <1>6, <1>7

LEMMA ReconnectKeeps ==
  ASSUME LogInv, Reconnect
  PROVE  LogInv'
<1> USE LogAssumption DEF LogInv, UploadTypes, Reconnect, agentVars, serverVars
<1>a. /\ wire' \in SUBSET Messages
      /\ \A m \in wire' : ~m.live /\ \E n \in wire : n.seq = m.seq /\ n.chunk = m.chunk
  BY LessOnWire DEF WireTypes
<1>1. SenderTypes'
  BY DEF SenderTypes, WireTypes, StoreTypes
<1>2. WireTypes'
  BY <1>a DEF SenderTypes, WireTypes, StoreTypes
<1>3. StoreTypes'
  BY DEF StoreTypes, SenderTypes, WireTypes
<1>4. CountInv'
  BY <1>a DEF CountInv, SenderTypes, WireTypes, StoreTypes
<1>5. OrderInv'
  BY <1>a DEF OrderInv
<1>6. NumberInv'
  BY <1>a DEF NumberInv
<1>7. TailInv'
  BY DEF TailInv
<1> QED
  BY <1>1, <1>2, <1>3, <1>4, <1>5, <1>6, <1>7

LEMMA ApplyAckKeeps ==
  ASSUME LogInv, ApplyAck
  PROVE  LogInv'
<1> USE LogAssumption DEF LogInv, UploadTypes, ApplyAck, agentVars, serverVars
<1>1. SenderTypes'
  <2>1. /\ ack \in 0..produced /\ lastConfirmed \in 0..produced /\ produced \in 0..MaxChunks
        /\ pending \in [seq : 0..MaxChunks, chunk : 0..MaxChunks]
        /\ pending.seq \in 1..produced /\ pending.chunk = produced /\ pending.chunk \in Chunks
        /\ produced \in Nat /\ MaxChunks \in Nat
    BY DEF SenderTypes, StoreTypes, Chunks
  <2>2. CASE ack < lastConfirmed
    <3>1. pending' = [seq |-> ack + 1, chunk |-> produced] /\ nextSeq' = ack + 2 /\ result' = result
      BY <2>1, <2>2
    <3>2. ack + 1 \in 1..produced /\ ack + 2 \in 1..(produced + 1) /\ ack + 1 \in 0..MaxChunks
      BY <2>1, <2>2
    <3> QED
      BY <2>1, <3>1, <3>2 DEF SenderTypes
  <2>3. CASE ~(ack < lastConfirmed) /\ pending.seq <= ack
    <3>1. result' \in [Chunks -> {"none", "ok", "failed"}]
      BY <2>1, <2>3 DEF SenderTypes
    <3>2. NoEntry \in [seq : 0..MaxChunks, chunk : 0..MaxChunks]
      BY <2>1 DEF NoEntry
    <3> QED
      BY <2>1, <2>3, <3>1, <3>2 DEF SenderTypes
  <2>4. CASE ~(ack < lastConfirmed) /\ ~(pending.seq <= ack)
    BY <2>1, <2>4 DEF SenderTypes
  <2> QED
    BY <2>2, <2>3, <2>4
<1>2. WireTypes'
  BY DEF SenderTypes, WireTypes, StoreTypes
<1>3. StoreTypes'
  BY DEF StoreTypes, SenderTypes, WireTypes
<1>4. CountInv'
  <2> SUFFICES ASSUME restores = 0
               PROVE  CountInv'
    BY DEF CountInv
  <2>1. /\ lastConfirmed \in Nat /\ stored \in Nat /\ ack \in Nat /\ ack # NoAck /\ pending # NoEntry
        /\ pending.seq \in Nat
    BY DEF SenderTypes, StoreTypes, NoEntry
  <2>2. /\ pending.seq = lastConfirmed + 1 /\ nextSeq = lastConfirmed + 2
        /\ lastConfirmed <= ack /\ ack <= stored /\ stored <= lastConfirmed + 1
        /\ \A m \in wire : m.seq <= lastConfirmed + 1
    BY <2>1 DEF CountInv
  <2>3. ack' = NoAck /\ stored' = stored /\ wire' = wire /\ nextSeq' = nextSeq /\ lastConfirmed' = ack
    BY <2>1, <2>2
  <2>4. \A m \in wire : m.seq \in Nat
    BY DEF WireTypes, Messages, Chunks
  <2>5. \A m \in wire : m.seq <= ack + 1
    BY <2>1, <2>2, <2>4
  <2>6. CASE pending.seq <= ack
    <3>1. pending' = NoEntry /\ ack = lastConfirmed + 1 /\ stored = ack
      BY <2>1, <2>2, <2>6
    <3> QED
      BY ONLY <2>1, <2>2, <2>3, <2>5, <3>1 DEF CountInv
  <2>7. CASE ~(pending.seq <= ack)
    <3>1. pending' = pending /\ ack = lastConfirmed
      BY <2>1, <2>2, <2>7
    <3> QED
      BY ONLY <2>1, <2>2, <2>3, <2>5, <3>1 DEF CountInv
  <2> QED
    BY <2>6, <2>7
<1>5. OrderInv'
  <2>1. ASSUME faults = 0, restores = 0
        PROVE  pending' = NoEntry \/ pending' = pending
    <3>1. ~(ack < lastConfirmed)
      BY <2>1 DEF CountInv, SenderTypes, StoreTypes
    <3> QED
      BY <3>1
  <2>2. /\ faults' = faults /\ restores' = restores /\ log' = log /\ stored' = stored /\ wire' = wire
    OBVIOUS
  <2> HIDE DEF ApplyAck
  <2> QED
    BY <2>1, <2>2 DEF OrderInv
<1>6. NumberInv'
  BY DEF NumberInv, CountInv, SenderTypes, WireTypes, StoreTypes, NoEntry, Chunks
<1>7. TailInv'
  BY DEF TailInv
<1> QED
  BY <1>1, <1>2, <1>3, <1>4, <1>5, <1>6, <1>7

LEMMA AbandonKeeps ==
  ASSUME LogInv, AbandonPending
  PROVE  LogInv'
<1> USE LogAssumption DEF LogInv, UploadTypes, AbandonPending, agentVars, serverVars
<1>a. /\ wire' \in SUBSET Messages
      /\ \A m \in wire' : ~m.live /\ \E n \in wire : n.seq = m.seq /\ n.chunk = m.chunk
  BY LessOnWire DEF WireTypes
<1>1. SenderTypes'
  BY DEF SenderTypes, NoEntry, Chunks
<1>2. WireTypes'
  BY <1>a DEF SenderTypes, WireTypes, StoreTypes
<1>3. StoreTypes'
  BY DEF SenderTypes, StoreTypes
<1>4. CountInv'
  BY <1>a DEF CountInv, SenderTypes, WireTypes, StoreTypes, NoEntry
<1>5. OrderInv'
  BY <1>a DEF OrderInv
<1>6. NumberInv'
  BY DEF NumberInv
<1>7. TailInv'
  BY DEF TailInv
<1> QED
  BY <1>1, <1>2, <1>3, <1>4, <1>5, <1>6, <1>7

LEMMA RestartKeeps ==
  ASSUME LogInv, NEW older \in BOOLEAN, RestartLogServer(older)
  PROVE  LogInv'
<1> USE LogAssumption DEF LogInv, UploadTypes, RestartLogServer, agentVars, serverVars
<1>1. SenderTypes'
  BY DEF SenderTypes, WireTypes, StoreTypes
<1>2. WireTypes'
  BY DEF WireTypes, SenderTypes, StoreTypes
<1>3. StoreTypes'
  BY DEF SenderTypes, StoreTypes, NoAck
<1>4. CountInv'
  BY DEF CountInv, SenderTypes, WireTypes, StoreTypes
<1>5. OrderInv'
  BY DEF OrderInv, SenderTypes, WireTypes, StoreTypes
<1>6. NumberInv'
  BY DEF NumberInv, SenderTypes, WireTypes, StoreTypes
<1>7. TailInv'
  BY DEF TailInv
<1> QED
  BY <1>1, <1>2, <1>3, <1>4, <1>5, <1>6, <1>7

LEMMA TaskEndsKeeps ==
  ASSUME LogInv, TaskEnds
  PROVE  LogInv'
<1> USE LogAssumption DEF LogInv, UploadTypes, TaskEnds, agentVars, serverVars
<1>1. SenderTypes'
  BY DEF SenderTypes, WireTypes, StoreTypes
<1>2. WireTypes'
  BY DEF WireTypes, SenderTypes, StoreTypes
<1>3. StoreTypes'
  BY DEF StoreTypes, SenderTypes, WireTypes
<1>4. CountInv'
  BY DEF CountInv, SenderTypes, WireTypes, StoreTypes
<1>5. OrderInv'
  BY DEF OrderInv, SenderTypes, WireTypes, StoreTypes
<1>6. NumberInv'
  BY DEF NumberInv, SenderTypes, WireTypes, StoreTypes
<1>7. TailInv'
  BY DEF TailInv
<1> QED
  BY <1>1, <1>2, <1>3, <1>4, <1>5, <1>6, <1>7

\* What appending the chunk of an accepted message does to the log.
LEMMA AppendKeeps ==
  ASSUME LogInv, NEW m \in wire, Accepts(m)
  PROVE  /\ Confirmed = stored /\ m.seq = stored + 1 /\ Stores(m.seq) /\ m.seq \in Chunks /\ m.chunk \in Chunks
         /\ m.seq <= produced /\ m.chunk <= produced
         /\ Append(log, m.chunk) \in Seq(Chunks)
         /\ \A i \in DOMAIN Append(log, m.chunk) : Append(log, m.chunk)[i] <= produced
         /\ ToSet(Append(log, m.chunk)) = ToSet(log) \cup {m.chunk}
         /\ (\A i \in DOMAIN log : log[i] < m.chunk) =>
              \A i \in DOMAIN Append(log, m.chunk) : Append(log, m.chunk)[i] <= m.chunk
         /\ (\A i \in DOMAIN log : log[i] < m.chunk) /\ (\A i, j \in DOMAIN log : i < j => log[i] < log[j]) =>
              \A i, j \in DOMAIN Append(log, m.chunk) :
                i < j => Append(log, m.chunk)[i] < Append(log, m.chunk)[j]
         /\ Len(Append(log, m.chunk)) = Len(log) + 1
         /\ \A i \in 1..Len(log) : Append(log, m.chunk)[i] = log[i]
<1> USE LogAssumption DEF LogInv, UploadTypes
<1>1. Confirmed = stored
  BY DEF Confirmed, StoreTypes
<1>2. m \in Messages /\ m.seq <= produced /\ m.chunk <= produced
  BY DEF WireTypes
<1>3. m.seq \in Chunks /\ m.chunk \in Chunks
  BY <1>2 DEF Messages
<1>4. stored \in Nat /\ produced \in Nat /\ MaxChunks \in Nat
  BY DEF StoreTypes, SenderTypes
<1>5. m.seq = stored + 1 /\ Stores(m.seq)
  BY <1>1, <1>4 DEF Accepts, Stores
<1> DEFINE t == Append(log, m.chunk)
           c == m.chunk
<1>6. /\ t \in Seq(Chunks) /\ Len(t) = Len(log) + 1
      /\ \A i \in DOMAIN log : t[i] = log[i]
      /\ t[Len(log) + 1] = c
      /\ DOMAIN log = 1..Len(log) /\ DOMAIN t = 1..(Len(log) + 1)
      /\ ToSet(t) = ToSet(log) \cup {c}
  BY <1>3, LogGrows DEF StoreTypes
<1>7. Len(log) \in Nat /\ \A i \in DOMAIN log : log[i] \in Nat /\ log[i] <= produced
  BY DEF StoreTypes, Chunks
<1>8. c \in Nat /\ c <= produced
  BY <1>2, <1>3 DEF Chunks
<1> HIDE DEF t, c
<1>9. \A i \in DOMAIN t : t[i] <= produced
  BY <1>4, <1>6, <1>7, <1>8
<1>10. (\A i \in DOMAIN log : log[i] < c) => \A i \in DOMAIN t : t[i] <= c
  BY <1>6, <1>7, <1>8
<1>11. ASSUME \A i \in DOMAIN log : log[i] < c, \A i, j \in DOMAIN log : i < j => log[i] < log[j],
              NEW i \in DOMAIN t, NEW j \in DOMAIN t, i < j
       PROVE  t[i] < t[j]
  BY <1>6, <1>7, <1>8, <1>11
<1>12. t \in Seq(Chunks) /\ Len(t) = Len(log) + 1 /\ ToSet(t) = ToSet(log) \cup {c}
       /\ \A i \in 1..Len(log) : t[i] = log[i]
  BY <1>6
<1> QED
  BY <1>1, <1>2, <1>3, <1>5, <1>9, <1>10, <1>11, <1>12 DEF t, c

LEMMA AppendFailKeeps ==
  ASSUME LogInv, NEW m \in wire, AppendThenFail(m)
  PROVE  LogInv'
<1> USE LogAssumption DEF LogInv, UploadTypes, AppendThenFail, agentVars, serverVars
<1>a. /\ Confirmed = stored /\ m.seq = stored + 1
      /\ log' \in Seq(Chunks) /\ \A i \in DOMAIN log' : log'[i] <= produced
      /\ ToSet(log') = ToSet(log) \cup {m.chunk}
      /\ Len(log') = Len(log) + 1 /\ \A i \in 1..Len(log) : log'[i] = log[i]
  BY AppendKeeps
<1>b. \A n \in wire : n.live /\ m.live => n = m
  BY DEF WireTypes
<1>c. faults' # 0
  BY DEF StoreTypes
<1>1. SenderTypes'
  BY <1>a DEF SenderTypes, WireTypes, StoreTypes
<1>2. WireTypes'
  BY <1>a, <1>b DEF SenderTypes, WireTypes, StoreTypes
<1>3. StoreTypes'
  BY <1>a, <1>b DEF SenderTypes, WireTypes, StoreTypes
<1>4. CountInv'
  BY <1>a DEF CountInv, SenderTypes, WireTypes, StoreTypes
<1>5. OrderInv'
  BY <1>c DEF OrderInv
<1>6. NumberInv'
  BY <1>a DEF NumberInv, SenderTypes, WireTypes, StoreTypes
<1>7. TailInv'
  <2>1. tail' = tail /\ tail.offset \in Nat /\ tail.size \in Nat /\ Len(log) \in Nat /\ tail.offset <= Len(log)
    BY DEF TailInv, Readers, StoreTypes
  <2>2. \A i \in 1..tail.offset : log'[i] = log[i]
    BY <1>a, <2>1
  <2>3. Len(log') = Len(log) + 1
    BY <1>a
  <2> QED
    BY ONLY <2>1, <2>2, <2>3, TailInv DEF TailInv
<1> QED
  BY <1>1, <1>2, <1>3, <1>4, <1>5, <1>6, <1>7

LEMMA ApplyUploadKeeps ==
  ASSUME LogInv, NEW m \in wire, ApplyTaskLogUpload(m), Accepts(m)
  PROVE  LogInv'
<1> USE LogAssumption DEF LogInv, UploadTypes, ApplyTaskLogUpload, agentVars, serverVars
<1>a. /\ Confirmed = stored /\ m.seq = stored + 1 /\ stored' = m.seq /\ cached' = m.seq
      /\ ack' = (IF m.live THEN m.seq ELSE ack)
      /\ log' = Append(log, m.chunk) /\ log' \in Seq(Chunks) /\ \A i \in DOMAIN log' : log'[i] <= produced
      /\ ToSet(log') = ToSet(log) \cup {m.chunk}
      /\ Len(log') = Len(log) + 1 /\ \A i \in 1..Len(log) : log'[i] = log[i]
  BY AppendKeeps
<1>b. \A n \in wire : n.live /\ m.live => n = m
  BY DEF WireTypes
<1>1. SenderTypes'
  BY DEF SenderTypes, WireTypes, StoreTypes
<1>2. WireTypes'
  BY <1>a, <1>b DEF SenderTypes, WireTypes, StoreTypes
<1>3. StoreTypes'
  BY <1>a, <1>b DEF SenderTypes, WireTypes, StoreTypes
<1>4. CountInv'
  BY <1>a DEF CountInv, SenderTypes, WireTypes, StoreTypes
<1>5. OrderInv'
  <2> SUFFICES ASSUME faults' = 0, restores' = 0
               PROVE  /\ \A i, j \in DOMAIN log' : i < j => log'[i] < log'[j]
                      /\ \A n \in wire' : ~(n.seq > stored')
                      /\ pending' # NoEntry => ~(pending'.seq > stored')
    BY DEF OrderInv
  <2>1. faults = 0 /\ restores = 0 /\ wire' \subseteq wire /\ pending' = pending
    OBVIOUS
  <2>2. stored' = stored + 1 /\ lastConfirmed <= stored /\ stored \in Nat /\ lastConfirmed \in Nat
    BY <1>a, <2>1 DEF CountInv, StoreTypes, SenderTypes
  <2>3. \A n \in wire : n.seq <= lastConfirmed + 1 /\ n.seq \in Nat
    BY <2>1 DEF CountInv, WireTypes, Messages, Chunks
  <2>4. pending # NoEntry => pending.seq = lastConfirmed + 1
    BY <2>1 DEF CountInv
  <2>5. m.seq > stored
    BY <1>a, <2>2
  <2>6. /\ \A i \in DOMAIN log : log[i] < m.chunk
        /\ \A i, j \in DOMAIN log : i < j => log[i] < log[j]
    BY <2>1, <2>5 DEF OrderInv
  <2>7. \A i, j \in DOMAIN Append(log, m.chunk) :
          i < j => Append(log, m.chunk)[i] < Append(log, m.chunk)[j]
    BY <2>6, AppendKeeps
  <2>8. \A i, j \in DOMAIN log' : i < j => log'[i] < log'[j]
    BY ONLY <1>a, <2>7
  <2>9. \A n \in wire' : ~(n.seq > stored')
    BY ONLY <2>1, <2>2, <2>3
  <2>10. pending' # NoEntry => ~(pending'.seq > stored')
    BY ONLY <2>1, <2>2, <2>4
  <2> QED
    BY ONLY <2>8, <2>9, <2>10
<1>6. NumberInv'
  BY <1>a DEF NumberInv, SenderTypes, WireTypes, StoreTypes
<1>7. TailInv'
  <2>1. tail' = tail /\ tail.offset \in Nat /\ tail.size \in Nat /\ Len(log) \in Nat /\ tail.offset <= Len(log)
    BY DEF TailInv, Readers, StoreTypes
  <2>2. \A i \in 1..tail.offset : log'[i] = log[i]
    BY <1>a, <2>1
  <2>3. Len(log') = Len(log) + 1
    BY <1>a
  <2> QED
    BY ONLY <2>1, <2>2, <2>3, TailInv DEF TailInv
<1> QED
  BY <1>1, <1>2, <1>3, <1>4, <1>5, <1>6, <1>7

LEMMA SkipKeeps ==
  ASSUME LogInv, NEW m \in wire, ApplyTaskLogUpload(m), ~Accepts(m)
  PROVE  LogInv'
<1> USE LogAssumption DEF LogInv, UploadTypes, ApplyTaskLogUpload, agentVars, serverVars
<1>a. Confirmed = stored /\ cached' = stored
  BY DEF Confirmed, StoreTypes
<1>b. \A n \in wire : n.live /\ m.live => n = m
  BY DEF WireTypes
<1>1. SenderTypes'
  BY DEF SenderTypes, WireTypes, StoreTypes
<1>2. WireTypes'
  BY <1>a, <1>b DEF SenderTypes, WireTypes, StoreTypes
<1>3. StoreTypes'
  BY <1>a, <1>b DEF SenderTypes, WireTypes, StoreTypes
<1>4. CountInv'
  BY <1>a DEF CountInv, SenderTypes, WireTypes, StoreTypes
<1>5. OrderInv'
  BY <1>a DEF OrderInv
<1>6. NumberInv'
  BY <1>a DEF NumberInv
<1>7. TailInv'
  BY <1>a DEF TailInv
<1> QED
  BY <1>1, <1>2, <1>3, <1>4, <1>5, <1>6, <1>7

LEMMA StatKeeps ==
  ASSUME LogInv, StatLog
  PROVE  LogInv'
<1> USE DEF LogInv, UploadTypes, StatLog, agentVars, serverVars
<1>1. UploadTypes' /\ CountInv' /\ OrderInv' /\ NumberInv'
  BY DEF SenderTypes, WireTypes, StoreTypes, CountInv, OrderInv, NumberInv
<1>2. TailInv'
  <2>1. tail \in Readers /\ Len(log) \in Nat /\ log' = log
    BY DEF TailInv, StoreTypes
  <2>2. tail' = [at |-> "read", offset |-> tail.offset, size |-> Len(log), got |-> tail.got, sent |-> tail.sent]
    BY <2>1 DEF Readers
  <2>3. tail' \in Readers /\ tail'.offset = tail.offset /\ tail'.size = Len(log) /\ tail'.sent = tail.sent
    BY <2>1, <2>2 DEF Readers
  <2> QED
    BY <2>1, <2>3 DEF TailInv
<1> QED
  BY <1>1, <1>2

LEMMA ReadKeeps ==
  ASSUME LogInv, ReadLog
  PROVE  LogInv'
<1> USE DEF LogInv, UploadTypes, agentVars, serverVars
<1>1. UploadTypes' /\ CountInv' /\ OrderInv' /\ NumberInv'
  BY DEF ReadLog, SenderTypes, WireTypes, StoreTypes, CountInv, OrderInv, NumberInv
<1> DEFINE rest == SubSeq(log, tail.offset + 1, Len(log))
           all == tail.sent \o rest
<1>2. /\ tail \in Readers /\ tail.offset \in 0..Len(log) /\ tail.size \in 0..Len(log)
      /\ tail.sent \in Seq(Chunks) /\ log \in Seq(Chunks) /\ Len(log) \in Nat
  BY DEF ReadLog, TailInv, Readers, StoreTypes
<1>3. /\ all \in Seq(Chunks) /\ ToSet(tail.sent) \subseteq ToSet(all)
      /\ \A i \in (tail.offset + 1)..Len(log) : log[i] \in ToSet(all)
  BY <1>2, RestIsSent
<1>4. /\ tail' = [tail EXCEPT !.at = "status", !.got = Len(log) - tail.offset, !.sent = all, !.offset = tail.size]
      /\ log' = log
  BY DEF ReadLog
<1> HIDE DEF all
<1>5. /\ tail' \in Readers /\ tail'.at = "status" /\ tail'.offset = tail.size /\ tail'.sent = all
  <2>1. Len(log) - tail.offset \in Nat /\ tail.size \in Nat
    BY <1>2
  <2>2. tail' = [at |-> "status", offset |-> tail.size, size |-> tail.size, got |-> Len(log) - tail.offset,
                 sent |-> all]
    BY <1>2, <1>4 DEF Readers
  <2>3. tail'.offset = tail.size /\ tail'.sent = all /\ tail'.at = "status"
    BY <2>2
  <2> QED
    BY <1>3, <2>1, <2>2, <2>3 DEF Readers
<1>6. ASSUME NEW i \in 1..tail.size PROVE log[i] \in ToSet(all)
  <2>1. CASE i <= tail.offset
    BY <1>2, <1>3, <2>1 DEF TailInv
  <2>2. CASE i > tail.offset
    BY <1>2, <1>3, <2>2
  <2> QED
    BY <1>2, <2>1, <2>2
<1>7. TailInv'
  BY <1>2, <1>4, <1>5, <1>6 DEF TailInv
<1> QED
  BY <1>1, <1>7

LEMMA CheckKeeps ==
  ASSUME LogInv, CheckStatus
  PROVE  LogInv'
<1> USE DEF LogInv, UploadTypes, CheckStatus, agentVars, serverVars
<1>1. UploadTypes' /\ CountInv' /\ OrderInv' /\ NumberInv'
  BY DEF SenderTypes, WireTypes, StoreTypes, CountInv, OrderInv, NumberInv
<1>2. TailInv'
  BY DEF TailInv, Readers
<1> QED
  BY <1>1, <1>2

LEMMA LogStep == LogInv /\ [LogNext]_logVars => LogInv'
<1> SUFFICES ASSUME LogInv, [LogNext]_logVars PROVE LogInv'
  OBVIOUS
<1>1. CASE UploaderStep
  BY <1>1, UploadKeeps, SendKeeps, ApplyAckKeeps DEF UploaderStep
<1>2. CASE Reconnect
  BY <1>2, ReconnectKeeps
<1>3. CASE AbandonPending
  BY <1>3, AbandonKeeps
<1>4. ASSUME NEW m \in wire, ApplyTaskLogUpload(m) PROVE LogInv'
  BY <1>4, ApplyUploadKeeps, SkipKeeps
<1>5. ASSUME NEW m \in wire, AppendThenFail(m) PROVE LogInv'
  BY <1>5, AppendFailKeeps
<1>6. ASSUME NEW older \in BOOLEAN, RestartLogServer(older) PROVE LogInv'
  BY <1>6, RestartKeeps
<1>7. CASE TaskEnds
  BY <1>7, TaskEndsKeeps
<1>8. CASE TailStep
  BY <1>8, StatKeeps, ReadKeeps, CheckKeeps DEF TailStep
<1>9. CASE UNCHANGED logVars
  BY <1>9 DEF LogInv, UploadTypes, SenderTypes, WireTypes, StoreTypes, CountInv, OrderInv, NumberInv, TailInv,
              logVars, agentVars, serverVars
<1> QED
  BY <1>1, <1>2, <1>3, <1>4, <1>5, <1>6, <1>7, <1>8, <1>9 DEF LogNext

LEMMA LogInvIsFaithful == LogInv => LogIsFaithful
<1> SUFFICES ASSUME LogInv PROVE LogIsFaithful
  OBVIOUS
<1> USE LogAssumption DEF LogInv, UploadTypes
<1>1. MaxChunks \in Nat
  OBVIOUS
<1>2. LogTypeOK
  BY <1>1 DEF LogTypeOK, SenderTypes, StoreTypes, TailInv, Readers, NoAck, Chunks
<1>3. LogInOrder
  BY DEF LogInOrder, OrderInv
<1>4. ConfirmedIsLogged
  BY DEF ConfirmedIsLogged, NumberInv, Chunks
<1>5. TailSkipsNothing
  BY DEF TailSkipsNothing, TailInv
<1> QED
  BY <1>2, <1>3, <1>4, <1>5 DEF LogIsFaithful

\* For any number of chunks, broken streams, failing writes and restored
\* databases: chunks are written in order and once, one whose Upload returned
\* nil is in the log, and the reader of TailTaskLogs skips nothing (within the
\* limits that the parts of LogIsFaithful name).
THEOREM LogFaithful == LogSpec => []LogIsFaithful
<1> QED
  BY LogInitOK, LogStep, LogInvIsFaithful, PTL DEF LogSpec
=============================================================================
