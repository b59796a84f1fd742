------------------------------ MODULE DnsSync -------------------------------
(***************************************************************************)
(* What the controller publishes for its services: the DNS records of        *)
(* network.dns (dns_update tasks) and the ingress rules and CNAME records    *)
(* of network.cloudflare_tunnel (cloudflare_tunnel_sync tasks).  One worker  *)
(* executes both.  A task reads the declarations at the revision it was      *)
(* admitted with, works out all it wants before it calls a provider, and     *)
(* then makes one call after another; the first that fails ends the task     *)
(* and leaves the zone as it is.  The providers are external.                *)
(*                                                                           *)
(* A DNS name is the sequence of its labels from the root, so that a zone    *)
(* holds the names it is a prefix of.                                        *)
(***************************************************************************)
EXTENDS Integers, Sequences, FiniteSets, SequencesExt

CONSTANTS
  DnsServices,    \* service names
  DnsNames,       \* host names in use
  ZonesOf,        \* the zones configured for each DNS provider
  Credentialed,   \* the providers whose credentials are configured
  Addresses,      \* the record types each node has a public address for
  TunnelZones,    \* cloudflare_tunnel.zones
  TunnelNames,    \* cloudflare_tunnel.tunnels
  NodeTunnel,     \* cloudflare_tunnel.nodes: nodes bound to a tunnel
  NetworkMetas,   \* the declarations a service may have
  MaxRevisions,   \* bound on the commits
  MaxSyncs,       \* bound on the tasks admitted
  MaxCallFaults   \* bound on the provider calls that fail

VARIABLES
  revisions,   \* the declarations of all services at each revision
  running,     \* services with a running instance
  zones,       \* the records of each zone, name and type
  ingress,     \* the ingress rules of each tunnel
  pending,     \* tasks not claimed yet
  job,         \* the task being executed: {} or a singleton
  promise,     \* history: the records every name should have, {} if unknown
  synced,      \* history: the last tunnel sync, when it succeeded
  admitted, callFaults
dnsVars == <<revisions, running, zones, ingress, pending, job, promise, synced, admitted, callFaults>>

\* Zones are sequences of labels, and the routes of the declarations have
\* names in use.
ASSUME DnsAssumption ==
  /\ \A z \in (UNION {ZonesOf[p] : p \in DOMAIN ZonesOf}) \cup TunnelZones \cup DnsNames : Len(z) \in Nat
  /\ <<>> \notin TunnelZones
  /\ \A d \in NetworkMetas : d.tunnel # <<>> => d.tunnel[1].name \in DnsNames

\* In alphabetical order, in which the code goes through them.
managedDNSRecordTypes == <<"A", "AAAA", "CNAME">>
DnsProviders == DOMAIN ZonesOf
AllZones == (UNION {ZonesOf[p] : p \in DnsProviders}) \cup TunnelZones
dnsNameMatchesZone(name, zone) == IsPrefix(zone, name)
RecordKeys ==
  {k \in AllZones \X DnsNames \X ToSet(managedDNSRecordTypes) : dnsNameMatchesZone(k[2], k[1])}
Longest(zs) == CHOOSE z \in zs : \A y \in zs : Len(y) <= Len(z)

(***************************************************************************)
(* Declarations.  A network.dns entry is [name, type, value, provider,       *)
(* options]; an empty value asks for the addresses of the service's node.    *)
(***************************************************************************)
Tip == Len(revisions)
DnsMeta(s, r) == revisions[r][s]

\* validateNetwork: no two entries for one name and type, and no CNAME beside
\* another type of the same name.
ValidDnsEntries(entries) ==
  \A i, j \in DOMAIN entries : (i # j /\ entries[i].name = entries[j].name) =>
    /\ entries[i].type # entries[j].type
    /\ "CNAME" \notin {entries[i].type, entries[j].type}

\* ResolveDNSProvider: the provider with the longest configured zone.
ResolveDNSProvider(name) ==
  LET fits == {z \in UNION {ZonesOf[p] : p \in DnsProviders} : dnsNameMatchesZone(name, z)}
  IN  IF fits = {} THEN "" ELSE CHOOSE p \in DnsProviders : Longest(fits) \in ZonesOf[p]

\* matchingZone: among the zones of one client; <<>> when none fits.
matchingZone(zs, name) ==
  LET fits == {z \in zs : dnsNameMatchesZone(name, z)}
  IN  IF fits = {} THEN <<>> ELSE Longest(fits)

\* The records an entry asks for, as type and value; none when it cannot be
\* resolved.
desiredDNSRecordSetsForValue(type, value) ==
  LET own == CASE value = "ip4" -> "A" [] value = "ip6" -> "AAAA" [] OTHER -> "CNAME"
  IN  IF type \in {"", own} THEN {<<own, <<"value", value>>>>} ELSE {}
desiredDNSRecordSetsForNode(type, node) ==
  {<<t, <<"node", node>>>> : t \in Addresses[node] \cap (IF type = "" THEN {"A", "AAAA"} ELSE {type})}
desiredDNSRecordSets(entry, targets) ==
  CASE entry.value # "" -> desiredDNSRecordSetsForValue(entry.type, entry.value)
    [] entry.value = "" /\ Len(targets) = 1 -> desiredDNSRecordSetsForNode(entry.type, targets[1])
    [] OTHER -> {}

\* ForService and buildDesiredServiceDNS.
EntryProvider(entry) ==
  IF entry.provider = "" THEN ResolveDNSProvider(entry.name) ELSE entry.provider
EntryZone(entry) == matchingZone(ZonesOf[EntryProvider(entry)], entry.name)
Resolvable(entry, targets) ==
  /\ EntryProvider(entry) \in DnsProviders \cap Credentialed
  /\ EntryZone(entry) # <<>>
  /\ desiredDNSRecordSets(entry, targets) # {}

(***************************************************************************)
(* The calls of a task.  The code works through sorted lists of names,       *)
(* tunnels, services and types; a call has a turn, which places it in them.  *)
(***************************************************************************)
Call(turn, op, zone, name, type, values, options) ==
  [turn |-> turn, op |-> op, zone |-> zone, name |-> name, type |-> type, values |-> values, options |-> options]

\* A sorted list of the members of S, each with its place.
Sorted(S) == CHOOSE place \in [S -> 1..Cardinality(S)] : IsInjective(place)
Before(t, u) ==
  \/ t[1] < u[1]
  \/ t[1] = u[1] /\ t[2] < u[2]
  \/ t[1] = u[1] /\ t[2] = u[2] /\ t[3] < u[3]
NextCalls(calls) == {c \in calls : \A d \in calls : ~Before(d.turn, c.turn)}

(***************************************************************************)
(* dns_update (syncServiceDNSBatch): for each name the types no entry asks   *)
(* for are deleted, then each wanted type is set to the records of all       *)
(* entries together and its options are applied.                             *)
(***************************************************************************)
AskedRecords(entries, targets, zone, name, type) ==
  UNION {{d[2] : d \in {d \in desiredDNSRecordSets(entries[i], targets) : d[1] = type}} :
           i \in {i \in DOMAIN entries : entries[i].name = name /\ EntryZone(entries[i]) = zone}}

\* The options of the last entry that asks for the type.
OptionsOf(entries, targets, zone, name, type) ==
  LET asking == {i \in DOMAIN entries :
                   /\ entries[i].name = name /\ EntryZone(entries[i]) = zone
                   /\ \E d \in desiredDNSRecordSets(entries[i], targets) : d[1] = type}
  IN  entries[CHOOSE i \in asking : \A j \in asking : j <= i].options

CallsForName(entries, targets, zone, name, place) ==
  LET asked(i) == AskedRecords(entries, targets, zone, name, managedDNSRecordTypes[i])
      call(i, step, op, values, options) ==
        Call(<<0, place, step>>, op, zone, name, managedDNSRecordTypes[i], values, options)
      stale == {i \in DOMAIN managedDNSRecordTypes : asked(i) = {}}
      writable == DOMAIN managedDNSRecordTypes \ stale
  IN  {call(i, i, "delete", {}, FALSE) : i \in stale}
        \cup {call(i, 3 * i + 1, "set", asked(i), FALSE) : i \in writable}
        \cup {call(i, 3 * i + 2, "options", {},
                   OptionsOf(entries, targets, zone, name, managedDNSRecordTypes[i])) : i \in writable}

NamesAsked(entries) == {<<EntryZone(entries[i]), entries[i].name>> : i \in DOMAIN entries}
syncServiceDNSBatch(entries, targets) ==
  UNION {CallsForName(entries, targets, n[1], n[2], Sorted(NamesAsked(entries))[n]) : n \in NamesAsked(entries)}

(***************************************************************************)
(* cloudflare_tunnel_sync (syncCloudflareTunnels), from the declarations ds  *)
(* of a revision: every configured tunnel's ingress is replaced and the      *)
(* CNAME of each service on it is set; the excluded service's CNAME is       *)
(* deleted last.                                                             *)
(***************************************************************************)
CloudflareTunnelManaged(d) == d.tunnel # <<>>
Route(d) == d.tunnel[1]

\* resolveCloudflareTunnelName: the declared tunnel or the one all target
\* nodes are bound to, if it is configured.
Unresolved == ""
resolveCloudflareTunnelName(d) ==
  LET declared == Route(d).tunnel
      bound == {t \in TunnelNames : \A n \in ToSet(d.targets) : n \in DOMAIN NodeTunnel /\ NodeTunnel[n] = t}
  IN  CASE declared # Unresolved -> IF declared \in TunnelNames THEN declared ELSE Unresolved
        [] declared = Unresolved /\ d.targets # <<>> /\ bound # {} -> CHOOSE t \in bound : TRUE
        [] OTHER -> Unresolved

TunnelServices(ds) == {s \in DnsServices : CloudflareTunnelManaged(ds[s])}
RuleOf(d) == [tunnel |-> resolveCloudflareTunnelName(d), name |-> Route(d).name, path |-> Route(d).path]

\* cloudflareTunnelServicesAtRevision fails as a whole on an unresolved tunnel
\* or on two services with the same route.
RoutesResolve(ds) ==
  /\ \A s \in TunnelServices(ds) : resolveCloudflareTunnelName(ds[s]) # Unresolved
  /\ \A s, t \in TunnelServices(ds) : s # t => RuleOf(ds[s]) # RuleOf(ds[t])

OnTunnel(routable, ds, tunnel) == {s \in routable : resolveCloudflareTunnelName(ds[s]) = tunnel}
cloudflareTunnelIngressRules(routable, ds, tunnel) ==
  {[name |-> Route(ds[s]).name, path |-> Route(ds[s]).path, to |-> s] : s \in OnTunnel(routable, ds, tunnel)}

TunnelRecord(turn, op, d, values) ==
  Call(turn, op, matchingZone(TunnelZones, Route(d).name), Route(d).name, "CNAME", values, FALSE)
CallsForTunnel(routable, ds, tunnel) ==
  LET place == Sorted(TunnelNames)[tunnel]
      step(s) == 2 * Sorted(DnsServices)[s]
      mine == OnTunnel(routable, ds, tunnel)
  IN  {Call(<<0, place, 0>>, "ingress", <<>>, <<>>, tunnel, cloudflareTunnelIngressRules(routable, ds, tunnel), FALSE)}
        \cup {TunnelRecord(<<0, place, step(s)>>, "set", ds[s], {<<"tunnel", tunnel>>}) : s \in mine}
        \cup {TunnelRecord(<<0, place, step(s) + 1>>, "options", ds[s], {}) : s \in mine}

syncCloudflareTunnels(routable, excluded, ds) ==
  (UNION {CallsForTunnel(routable, ds, t) : t \in TunnelNames})
    \cup {TunnelRecord(<<1, 0, 0>>, "delete", ds[s], {}) : s \in excluded}

(***************************************************************************)
(* Actions.                                                                  *)
(***************************************************************************)
DnsInit ==
  /\ revisions \in {<<m>> : m \in [DnsServices -> {d \in NetworkMetas : ValidDnsEntries(d.dns)}]}
  /\ running \in SUBSET DnsServices
  /\ zones = [k \in RecordKeys |-> IF k[3] = "CNAME" THEN {} ELSE {<<"manual", k[3]>>}]
  /\ ingress = [t \in TunnelNames |-> {}]
  /\ pending = {} /\ job = {}
  /\ promise = [k \in RecordKeys |-> {zones[k]}]
  /\ synced = {} /\ admitted = 0 /\ callFaults = 0

\* A commit changes the declaration of one service.
CommitDeclaration(s) ==
  /\ Tip < MaxRevisions
  /\ \E d \in NetworkMetas : ValidDnsEntries(d.dns) /\ d # DnsMeta(s, Tip)
       /\ revisions' = Append(revisions, [revisions[Tip] EXCEPT ![s] = d])
  /\ UNCHANGED <<running, zones, ingress, pending, job, promise, synced, admitted, callFaults>>

\* A task in execution, with the services looked up so far and those of them
\* that ran, the calls left to make, and the services that started or stopped
\* since it started.
Job(t, phase, seen, routable, calls, unsteady) ==
  [kind |-> t.kind, service |-> t.service, rev |-> t.rev, excluded |-> t.excluded, phase |-> phase,
   seen |-> seen, routable |-> routable, calls |-> calls, unsteady |-> unsteady]

\* An instance of the service starts or the last one stops.
Unsteady(js, s) ==
  {Job(j, j.phase, j.seen, j.routable, j.calls, j.unsteady \cup IF j.kind = "tunnels" THEN {s} ELSE {}) : j \in js}
ChangeRunning(s) ==
  /\ running' = IF s \in running THEN running \ {s} ELSE running \cup {s}
  /\ job' = Unsteady(job, s) /\ synced' = Unsteady(synced, s)
  /\ UNCHANGED <<revisions, zones, ingress, pending, promise, admitted, callFaults>>

\* CreateTaskIfNoActiveServiceTask.
ActiveServices == {t.service : t \in pending} \cup {j.service : j \in job}
AdmitSync(kind, s, r, excluded) ==
  /\ admitted < MaxSyncs /\ s \notin ActiveServices
  /\ pending' = pending \cup {[kind |-> kind, service |-> s, rev |-> r, excluded |-> excluded]}
  /\ admitted' = admitted + 1
  /\ UNCHANGED <<revisions, running, zones, ingress, job, promise, synced, callFaults>>

\* For HEAD on request, for the deployed revision after a deployment.
createServiceDNSUpdateTask(s) ==
  \E r \in 1..Tip : Len(DnsMeta(s, r).dns) > 0 /\ AdmitSync("dns", s, r, {})

\* After a stop the service is excluded.
createServiceCloudflareTunnelSyncTask(s) ==
  /\ CloudflareTunnelManaged(DnsMeta(s, Tip))
  /\ \E excluded \in {{}, {s}} : AdmitSync("tunnels", s, Tip, excluded)

\* A task that writes the records of a name leaves their state open until it
\* has succeeded.
Touches(calls, k) ==
  \E c \in calls : c.op \in {"set", "delete"} /\ <<c.zone, c.name, c.type>> = k
ForgetTouched(calls) == [k \in RecordKeys |-> IF Touches(calls, k) THEN {} ELSE promise[k]]

\* The worker claims a task, DNS updates first.
\* executeDNSUpdateTask: an entry that cannot be resolved fails the task
\* before any call.
StartDNSUpdate(t) ==
  LET d == DnsMeta(t.service, t.rev)
      calls == syncServiceDNSBatch(d.dns, d.targets)
  IN  /\ job = {} /\ t.kind = "dns" /\ pending' = pending \ {t}
      /\ IF \A i \in DOMAIN d.dns : Resolvable(d.dns[i], d.targets)
           THEN job' = {Job(t, "calling", {}, {}, calls, {})} /\ promise' = ForgetTouched(calls)
           ELSE UNCHANGED <<job, promise>>
      /\ synced' = {}
      /\ UNCHANGED <<revisions, running, zones, ingress, admitted, callFaults>>

\* executeCloudflareTunnelSyncTask up to the list of services.
StartTunnelSync(t) ==
  /\ job = {} /\ t.kind = "tunnels" /\ \A u \in pending : u.kind # "dns"
  /\ pending' = pending \ {t}
  /\ job' = IF RoutesResolve(revisions[t.rev]) THEN {Job(t, "reading", {}, {}, {}, {})} ELSE {}
  /\ synced' = {}
  /\ UNCHANGED <<revisions, running, zones, ingress, promise, admitted, callFaults>>

\* cloudflareTunnelServiceIsRoutable: the services are looked up one by one.
ReadRoutable(s) ==
  \E j \in job :
    /\ j.phase = "reading" /\ s \in TunnelServices(revisions[j.rev]) \ j.seen
    /\ job' = {Job(j, "reading", j.seen \cup {s}, j.routable \cup ({s} \cap running), {}, j.unsteady)}
    /\ UNCHANGED <<revisions, running, zones, ingress, pending, promise, synced, admitted, callFaults>>

\* The excluded service loses its record unless it runs again.
PlanCalls(j, routable, excluded) ==
  LET calls == syncCloudflareTunnels(routable, excluded, revisions[j.rev])
  IN  /\ j.phase = "reading" /\ j.seen = TunnelServices(revisions[j.rev])
      /\ job' = {Job(j, "calling", {}, routable, calls, j.unsteady)}
      /\ promise' = ForgetTouched(calls)
      /\ UNCHANGED <<revisions, running, zones, ingress, pending, synced, admitted, callFaults>>

\* Mutant: the service of a stop is left out even if it runs again by now.
PlanTunnelCallsWithoutStopped ==
  \E j \in job : PlanCalls(j, j.routable \ j.excluded, j.excluded \cap j.seen)

PlanTunnelCalls ==
  \E j \in job : PlanCalls(j, j.routable, (j.excluded \cap j.seen) \ j.routable)

\* What a call does at the provider.
Applied(c) ==
  /\ zones' = IF c.op \in {"set", "delete"} THEN [zones EXCEPT ![<<c.zone, c.name, c.type>>] = c.values] ELSE zones
  /\ ingress' = IF c.op = "ingress" THEN [ingress EXCEPT ![c.type] = c.values] ELSE ingress

\* A name outside every zone of the client ends the task, and so do options
\* at a provider other than Cloudflare, whose records are set by then.
Refused(c) ==
  \/ c.op \in {"set", "delete"} /\ c.zone = <<>>
  \/ c.op = "options" /\ c.options /\ \E p \in DnsProviders \ {"cloudflare"} : c.zone \in ZonesOf[p]

\* What a dns_update that succeeds has established.
Promised(j) ==
  LET d == DnsMeta(j.service, j.rev)
  IN  [k \in RecordKeys |-> IF <<k[1], k[2]>> \in NamesAsked(d.dns)
                              THEN {AskedRecords(d.dns, d.targets, k[1], k[2], k[3])} ELSE promise[k]]

CallProvider ==
  \E j \in job : \E c \in NextCalls(j.calls) :
    /\ ~Refused(c) /\ Applied(c)
    /\ job' = {Job(j, j.phase, j.seen, j.routable, j.calls \ {c}, j.unsteady)}
    /\ UNCHANGED <<revisions, running, pending, promise, synced, admitted, callFaults>>

\* The call is refused, or it fails with or without an effect: the task fails.
CallFails ==
  \E j \in job : \E c \in NextCalls(j.calls) :
    /\ \/ Refused(c) /\ UNCHANGED <<zones, ingress, callFaults>>
       \/ /\ ~Refused(c) /\ callFaults < MaxCallFaults /\ callFaults' = callFaults + 1
          /\ Applied(c) \/ UNCHANGED <<zones, ingress>>
    /\ job' = {}
    /\ UNCHANGED <<revisions, running, pending, promise, synced, admitted>>

FinishSync ==
  \E j \in job :
    /\ j.phase = "calling" /\ j.calls = {} /\ job' = {}
    /\ promise' = IF j.kind = "dns" THEN Promised(j) ELSE promise
    /\ synced' = IF j.kind = "tunnels" THEN {j} ELSE {}
    /\ UNCHANGED <<revisions, running, zones, ingress, pending, admitted, callFaults>>

DnsNext ==
  \/ \E s \in DnsServices :
       \/ CommitDeclaration(s) \/ ChangeRunning(s) \/ createServiceDNSUpdateTask(s)
       \/ createServiceCloudflareTunnelSyncTask(s) \/ ReadRoutable(s)
  \/ \E t \in pending : StartDNSUpdate(t) \/ StartTunnelSync(t)
  \/ PlanTunnelCalls \/ CallProvider \/ CallFails \/ FinishSync

DnsSpec == DnsInit /\ [][DnsNext]_dnsVars

(***************************************************************************)
(* Properties.                                                               *)
(***************************************************************************)
\* Every name and managed type holds exactly what the last dns_update that
\* completed for it asked for, and a name no task has touched holds what it
\* held before, whatever tasks of other services, failed tasks and tunnel
\* syncs did in between.
ZonesAsPromised == \A k \in RecordKeys : promise[k] = {} \/ zones[k] \in promise[k]

\* After a tunnel sync that succeeded, a service whose state did not change
\* meanwhile is routed exactly when it runs, the name of one that runs is the
\* CNAME of a tunnel that routes it, and the name of the excluded one is gone.
\* The exception is the code's: a name shared with the excluded service is
\* deleted although a running service uses it with another path.
TunnelsFollowServices ==
  \A j \in synced : \A s \in TunnelServices(revisions[j.rev]) \ j.unsteady :
    LET ds == revisions[j.rev]
        name == Route(ds[s]).name
        cname == zones[<<matchingZone(TunnelZones, name), name, "CNAME">>]
        gone == {t \in j.excluded : t \in TunnelServices(ds) /\ Route(ds[t]).name = name}
        routes == UNION {ingress[t] : t \in TunnelNames}
    IN  /\ s \in running <=> \E rule \in routes : rule.to = s
        /\ (s \in running /\ gone = {}) =>
             \E t \in TunnelNames : /\ <<"tunnel", t>> \in cname
                                    /\ \E rule \in ingress[t] : rule.name = name
        /\ (s \in j.excluded /\ s \notin running) => cname = {}

\* Invariant of syncServiceDNSBatch and syncCloudflareTunnels.
ServicesArePublished == ZonesAsPromised /\ TunnelsFollowServices
=============================================================================
