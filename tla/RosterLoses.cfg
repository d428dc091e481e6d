SPECIFICATION RosterSpec
CONSTANTS
  Member = {"ann", "bob"}
  MaxMembers = 2
  MaxReports = 1
  MaxResumes = 2
INVARIANTS StartedIsListed
CHECK_DEADLOCK FALSE
