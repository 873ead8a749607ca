SPECIFICATION Spec
CONSTANTS
  MaxTurns = 4
  MaxStarts = 4
INVARIANTS TypeOK QuestionsAreAnswered OldSessionsComeBackLate
  OverlapsNeedNew
PROPERTIES PageIsFreed
CHECK_DEADLOCK FALSE
