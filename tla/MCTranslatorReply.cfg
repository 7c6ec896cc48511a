CONSTANTS
  Texts = {t1}
  NoText = NoText
  ToolNames = {a, b}
  DefaultTool = DefaultTool
  ForwardThoughts = TRUE
  MaxUpdates = 3
SPECIFICATION Spec
SYMMETRY Symmetry
INVARIANTS
  ReplyShown
