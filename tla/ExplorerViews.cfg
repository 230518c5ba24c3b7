SPECIFICATION Spec
CONSTANTS
  top = top
  inside = inside
  short = short
  long = long
  blank = blank
  binary = binary
  Files = {top, inside}
  Folder = {inside}
  Dir = Dir
  Contents = {short, long, blank, binary}
  Length <- Lengths
  Plain = {binary}
  Absent = Absent
  None = None
  Starts <- BothLong
  Rows = 1
  FullRows = 2
  MaxChanges = 1
  MaxInputs = 2
  MaxFailures = 1
INVARIANTS
  ViewerFollowsDisk
PROPERTIES
  ScrollCommits
