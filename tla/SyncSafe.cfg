SPECIFICATION FairSpec
CONSTANTS
  Names = {"main", "topic"}
  Protected = {"main"}
  Remotes = {"origin", "fork"}
  LocalStarts <- MCLocalStarts
  RemoteStarts <- MCRemoteStarts
  Merges = {5}
  Windows = {"idle", "fetching", "asking"}
  Switches = {"asking"}
  MaxOutside = 1
  MaxSyncs = 2
INVARIANTS
  NoRebaseLeft
PROPERTIES
  WorkAndUpstreamKept
  PublishesPlan
  CancelledSyncEnds
