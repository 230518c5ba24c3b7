SPECIFICATION Spec
CONSTANTS
  Names = {"main", "topic"}
  Protected = {"main"}
  Remotes = {"origin"}
  LocalStarts <- MCLocalStarts
  RemoteStarts <- MCRemoteStarts
  Merges = {5}
  Windows = {}
  Switches = {"fetching"}
  MaxOutside = 1
  MaxSyncs = 1
PROPERTIES
  PushesOwnBranch
