CHECK_DEADLOCK FALSE
SPECIFICATION Spec
CONSTANTS
  Paths = {1, 2}
  Texts = {text}
  Binary = Binary
  Latin = Latin
  Absent = Absent
  Dir = Dir
  Unmerged = Unmerged
  NoUpstream = NoUpstream
  Gone = Gone
  Nothing = Nothing
  Ignored = {2}
  Starts <- MCStarts
  Workers = 2
  MaxWrites = 2
INVARIANTS
  QuietSnapshotSucceeds
