CHECK_DEADLOCK FALSE
SPECIFICATION PanesSpec
CONSTANTS
  Commits <- MCCommits
  Log <- MCLog
  FilesOf <- MCFilesOf
  StartHead = "two"
  MaxMoves = 2
  MaxInputs = 2
  FileFails = FALSE
  MovesBack = FALSE
  Forests <- MCForests
  Lists <- MCLists
  ListAction <- MCAction
  Heights = {0, 2, 3}
  Widths = {3, 6}
  HeaderWidth = 6
  WheelStep = 1
  NoId = NoId
INVARIANTS
  OneSelectionShown
  HistoryArrives
PROPERTIES
  PickerSelectionShown
