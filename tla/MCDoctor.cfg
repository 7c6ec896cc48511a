CONSTANTS
  Names = {a, b}
  NoName = NoName
  HostNames = {"localhost", "example"}
  LocalHosts = {"localhost"}
  Inputs <- AllInputs
SPECIFICATION Spec
INVARIANTS
  ReportComplete
  SkipsExplained
  ExitZeroMeansConnects
  KeyOnlyDegrades
  ResolvesCheckedHost
