CONSTANTS
  Writers = {w1, w2}
  Callers = {u1}
  AutoPull = auto
  Deployers = {}
  MaxCommits = 2
  MaxPushed = 1
  MaxRepoFaults = 1
  TopNames = {"a", "b"}
  SubNames = {"c"}
  Contents = {"v1", "v2"}
  DnsServices = {"s1", "s2"}
  DnsNames <- mcDnsNames
  ZonesOf <- mcZonesOf
  Credentialed = {"cloudflare", "alidns"}
  Addresses <- mcAddresses
  TunnelZones <- mcTunnelZones
  TunnelNames = {"edge", "spare"}
  NodeTunnel <- mcNodeTunnel
  NetworkMetas <- mcNetworkMetas
  MaxRevisions = 2
  MaxSyncs = 2
  MaxCallFaults = 1
SPECIFICATION MCSpec
CHECK_DEADLOCK FALSE
INVARIANTS
  RepoIsHonest  ServicesArePublished

  
