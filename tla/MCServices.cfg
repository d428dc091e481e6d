SPECIFICATION Spec
CONSTANTS
  Agent = {"main", "sub"}
  Rules <- TheRules
  Job = {1, 2}
  MaxWorkers = 1
  MaxEvents = 3
  Server <- TheServers
  Caller = {"main", "sub"}
  MaxCalls = 2
  MaxNoise = 1
  Size = {1, 3}
  SingleLimit = 3
  GroupLimit = 5
  PreviewSize = 1
  SummarySize = 1
  PromptSize = 1
  AutoLimit = 7
  MinRecent = 2
  RecentKeep = 3
  MaxFailures = 2
  RestoredHistories <- TheHistories
  MaxMessages = 5
  MaxResults = 2
  MaxTries = 3
  TreeTask = {"t1"}
  Cleaner = "cleaner"
  MaxTreeDeaths = 2
  Sources <- TheSources
  Places <- ThePlaces
  SkillTexts <- TheTexts
  Reserved = {"help"}
  ToolOf <- TheTools
  StartFiles <- TheFiles
  MaxDepth = 3
  MaxEdits = 2
  MaxSkillCalls = 3
  NoteId = {"n1"}
  NoteTexts = {"", "x"}
  IndexLimit = 1
  MaxUpdates = 2
  MaxCommands = 1
  MaxOperations = 2
  Slot = {1, 2}
  MaxVersion = 4
INVARIANTS OnceRunsOnce AnswerIsReachable RequestKeepsPairs RecentIsKept
  WorkIsKept SkillsAreCurrent NotesSettle ReadsAreFresh
PROPERTIES ScheduledIsRecorded SkillsOnlyNarrow
CHECK_DEADLOCK FALSE
