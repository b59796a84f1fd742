---------------------------- MODULE MCRepository ----------------------------
(***************************************************************************)
(* Instance of the service repository: its synchronisation with the remote,  *)
(* with two writers, a caller of SyncRepo and the periodic loop, and its     *)
(* files.  RepoFiles refines what RepoSync calls a write, one level below,   *)
(* and DnsSync publishes what the files declare, at a revision it holds on   *)
(* to, so each behaviour exercises one of the three, chosen at the start.    *)
(***************************************************************************)
EXTENDS RepoSync, RepoFiles, DnsSync

VARIABLE focus
ForSync == focus = "sync"
ForFiles == focus = "files"
ForDns == focus = "dns"

\* Two names; the zone of the longer one is delegated to another provider than
\* its parent, and only Cloudflare takes options.
Org == <<"org">>
OrgA == <<"org", "a">>
InA == <<"org", "a", "x">>
InB == <<"org", "b">>
mcDnsNames == {InA, InB}
mcZonesOf == [cloudflare |-> {Org}, alidns |-> {OrgA}]
mcAddresses == [n1 |-> {"A", "AAAA"}, n2 |-> {"A"}]
mcTunnelZones == {Org}
mcNodeTunnel == [n1 |-> "edge"]

\* Declarations: addresses of the node; several records of one name; a CNAME
\* with an explicit provider; and two the sync fails on, before the first call
\* (the second entry asks for an IPv6 address, no tunnel) and after it (options).  All share
\* names, some a route.
Entry(n, t, v, p, o) == [name |-> n, type |-> t, value |-> v, provider |-> p, options |-> o]
On(n, p, t) == <<[name |-> n, path |-> p, tunnel |-> t]>>
Declares(dns, tunnel, targets) == [dns |-> dns, tunnel |-> tunnel, targets |-> targets]
ByNode == Declares(<<Entry(InA, "", "", "", FALSE)>>, On(InB, "p", ""), <<"n1">>)
ByName == Declares(<<Entry(InA, "CNAME", "name", "cloudflare", TRUE)>>, On(InB, "q", "edge"), <<"n1", "n2">>)
mcNetworkMetas == {
  ByNode, ByName,
  Declares(<<Entry(InA, "A", "ip4", "", FALSE), Entry(InA, "", "", "", FALSE),
             Entry(InB, "AAAA", "ip6", "", TRUE)>>, <<>>, <<"n1">>),
  Declares(<<Entry(InA, "CNAME", "name", "", FALSE), Entry(InB, "AAAA", "", "", FALSE)>>, On(InB, "p", ""), <<"n2">>),
  Declares(<<Entry(InA, "", "ip6", "alidns", TRUE)>>, On(InB, "q", "spare"), <<"n2">>) }

\* Bound: a second revision or a failing call.
OneDnsEvent == Len(revisions') + callFaults' <= 2

MCInit ==
  /\ focus \in {"sync", "files", "dns"} /\ RepoInit /\ FilesInit /\ DnsInit
  /\ ~ForSync => repoMode = "local_only"
  /\ revisions = <<[s1 |-> ByNode, s2 |-> ByName]>> /\ running = {}
MCNext ==
  \/ ForSync /\ RepoNext /\ UNCHANGED <<focus, fileVars, dnsVars>>
  \/ ForFiles /\ FilesNext /\ UNCHANGED <<focus, repoVars, dnsVars>>
  \/ ForDns /\ DnsNext /\ UNCHANGED <<focus, repoVars, fileVars>> /\ OneDnsEvent

\* The periodic loop and the handlers run; commands of git end, by their
\* timeout at the latest.  Users need not do anything, and nobody must push.
SyncFairness ==
  /\ WF_repoVars(ForSync /\ LockSync(AutoPull)) /\ WF_repoVars(ForSync /\ FetchRevision(AutoPull))
  /\ WF_repoVars(ForSync /\ ApplyFetchedRevision(AutoPull))
  /\ WF_repoVars(ForSync /\ PushRevision(AutoPull)) /\ WF_repoVars(ForSync /\ PersistSynced(AutoPull))
  /\ WF_repoVars(ForSync /\ RecordRepoSyncFailure(AutoPull))
  /\ WF_repoVars(ForSync /\ ReturnFromSync(AutoPull))
  /\ WF_repoVars(ForSync /\ DiscoverServices) /\ WF_repoVars(ForSync /\ SetServicePendingDeploy)
  /\ WF_repoVars(ForSync /\ (NoDeploy(AutoPull) \/ AdmitDeploy(AutoPull)))
  /\ WF_repoVars(ForSync /\ ClearServicePendingDeploy(AutoPull))
  /\ \A p \in Writers :
       /\ WF_repoVars(ForSync /\ PrepareRepoWrite(p)) /\ WF_repoVars(ForSync /\ CommitPaths(p))
       /\ WF_repoVars(ForSync /\ FinalizeRepoWrite(p))
  /\ \A c \in Callers :
       WF_repoVars(ForSync /\ (FetchRevision(c) \/ ApplyFetchedRevision(c) \/ PushRevision(c)
                                 \/ PersistSynced(c) \/ RecordRepoSyncFailure(c) \/ ReturnFromSync(c)))

MCSpec == MCInit /\ [][MCNext]_<<focus, repoVars, fileVars, dnsVars>> /\ SyncFairness
=============================================================================
