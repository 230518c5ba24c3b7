CHECK_DEADLOCK FALSE
SPECIFICATION DiffSpec
CONSTANTS
  small = small
  smaller = smaller
  big = big
  bigger = bigger
  conflict = conflict
  Snapshots <- MCSnapshots
  Text <- MCText
  Big = {big, bigger}
  Long = {}
  Markers = {"<<<<<<<"}
  Margin = 1
  None = None
  Heights = {2, 3}
  Step = 1
  CacheSize = 1
  MaxInputs = 3
  MaxSnapshots = 1
  Texts = {"a", "<<<<<<<"}
  MaxLines = 4
INVARIANTS
  ProjectionsAgree
  ViewportAims
  ReviewConsistent
PROPERTIES
  OpensWhereAsked
  ViewSettles
