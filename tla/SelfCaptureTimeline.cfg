SPECIFICATION ScSpec
CONSTANTS
  ScMaxJournal = 3
  ScNil = Nil
INVARIANT TimelineIsTheCommands
CHECK_DEADLOCK FALSE
