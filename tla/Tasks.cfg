CHECK_DEADLOCK FALSE
SPECIFICATION TasksSpec
CONSTANTS
  Nothing = Nothing
  NoReport = NoReport
  NothingStaged = NothingStaged
  Stagings = {s1, s2}
  RacesGit = FALSE
  MaxHead = 2
  Processes = {p1, p2}
  Newest = 3
  Chunks = 2
  Damaged = Damaged
  NoFile = NoFile
  MaxOutages = 1
  Budget = 60
  PreludeLength = 8
  SubjectsMarkup = 5
  SubjectsOmitted = 4
  FileFooter = 3
  EntryEnd = 1
  ContextFooter = 2
  Omission = 4
  Reserve = 6
  Diffs <- MCDiffs
  Headers = {3, 9}
  Subjects <- MCSubjects
  MaxFiles = 4
  Helpers = {h1, h2}
  NoHelper = NoHelper
  NoReply = NoReply
INVARIANTS
  CommitSound
  UpdateSafe
  ContextShared
  AskpassAnswers
PROPERTIES
  CancelWorks
  NoDowngrade
  HelpersServed
