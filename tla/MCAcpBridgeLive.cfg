CONSTANTS
  SessionIds = {s1}
  RequestIds = {r1, r2}
  NoTurn = NoTurn
  NoSession = NoSession
  Sizes = {1}
  MaxSessions = 1
  MaxConcurrentTurns = 1
  MaxBufferedBytes = 1
  PatientHost = TRUE
SPECIFICATION FairSpec
PROPERTIES
  PromptResolved
  CancelIsMade
  HangUpExits
