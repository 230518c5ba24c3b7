CHECK_DEADLOCK FALSE
SPECIFICATION Spec
CONSTANTS
  RefNames <- MCRefNames
  Kind <- MCKind
  Short <- MCShort
  Commits <- MCCommits
  Time <- MCTime
  Ancestors <- MCAncestors
  MergeOf <- MCMergeOf
  Remotes = {a, b}
  OtherCommits = {"base"}
  Texts = {""}
  Viewport = 2
  Scores <- MCScores
  StartRepos <- MCStartRepos
  MaxQueries = 2
  MaxCommands = 2
  MaxForeign = 1
  RacesGit = FALSE
INVARIANTS
  PickersAnswered
PROPERTIES
  SnapshotKeepsChoice
  GitDoesWhatWasConfirmed
