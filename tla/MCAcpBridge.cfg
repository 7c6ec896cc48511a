CONSTANTS
  SessionIds = {s1, s2}
  RequestIds = {r1, r2}
  NoTurn = NoTurn
  NoSession = NoSession
  Sizes = {1}
  MaxSessions = 2
  MaxConcurrentTurns = 1
  MaxBufferedBytes = 1
  PatientHost = FALSE
SPECIFICATION Spec
SYMMETRY Symmetry
INVARIANTS
  BridgeTypeOK
  SlotOwned
  NoZombieSlot
  CancelWins
  CancelPropagated
  StreamsWithinCap
  NoSilentLoss
  SweepComplete
PROPERTIES
  ImplementsContract
  SlotReleaseAccounted
