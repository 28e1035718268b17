SPECIFICATION FairSpec
CONSTANTS
  Runtimes <- TwoServers
  Questions <- OneQuestion
  MaxUp = 1
  RequestsYield = FALSE
INVARIANTS
  StoppedOnlyOnRequest
  QuietWhenTerminal
  ParkedAnswerable
PROPERTIES
  TerminalFinal
  PausedUntilResume
  AnswersUndoneOnlyByStaleRuns
  StopTakesEffect
  PauseIsAnswered
CHECK_DEADLOCK FALSE
