----------------------------- MODULE MCTranslator -----------------------------
EXTENDS Translator

Symmetry == Permutations(ToolNames)
=============================================================================
