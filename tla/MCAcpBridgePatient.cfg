CONSTANTS
  SessionIds = {s1, s2}
  RequestIds = {r1, r2}
  NoTurn = NoTurn
  NoSession = NoSession
  Sizes = {1}
  MaxSessions = 2
  MaxConcurrentTurns = 2
  MaxBufferedBytes = 2
  PatientHost = TRUE
SPECIFICATION Spec
SYMMETRY Symmetry
INVARIANTS
  ReservationsExact
  QueueWithinCap
