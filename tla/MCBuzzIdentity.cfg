CONSTANTS
  c1 = c1
  c2 = c2
  p1 = p1
  p2 = p2
  Malformed = Malformed
  None = None
  Uuids = {c1, c2}
  Pubkeys = {p1, p2}
  Setups <- SomeSetups
  Contexts <- Blocks
  ContentLines <- Quotable
  FreeLines <- AnyLine
  Names <- NamesOfPeople
  MaxEvents = 2
  MaxContent = 2
  MaxLines = 5
SPECIFICATION Spec
INVARIANTS
  ChannelFollowsSession
  SenderAttribution
  AmbiguityReported
  LostHeaderFallsBack
  ScanAgrees
PROPERTIES
  ChannelVerdictFinal
  SenderVerdictMoves
