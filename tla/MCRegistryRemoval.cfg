CONSTANTS
  SessionIds = {s1, s2, s3, s4}
  RequestIds = {r1, r2, r3}
  NoTurn = NoTurn
  Sizes = {1, 2}
  MaxSessions = 3
  MaxConcurrentTurns = 2
  MaxBufferedBytes = 3
SYMMETRY Symmetry
SPECIFICATION FineSpec
INVARIANTS
  CapsRespected
  BufferAccounting
  BufferCapRespected
  FiringDetached
  SlotHeldOrFiring
PROPERTIES
  ImplementsRegistry
