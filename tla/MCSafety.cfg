SPECIFICATION SafetySpec
CONSTANTS
  Node = {n1, n2, n3}
  Call = {a, b}
  NoCall = NoCall
  MaxLines = 4
  Member = {"ann", "bob"}
  MaxMembers = 2
  MaxReports = 1
  MaxResumes = 1
  Branches <- TheBranches
  UserFile = {"f1", "f2"}
  MaxUserSteps = 1
  MaxAttempts = 1
INVARIANTS AnswerIsRight RecoveryIsLongest ChildRunsLessThanParent TeamKeepsItsPlaces
  AlwaysSurvivesRestart HistoriesArePaired CalmRosterIsRight UserFilesSurvive
PROPERTIES PublishedIsChecked
CHECK_DEADLOCK FALSE
