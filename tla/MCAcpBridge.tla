----------------------------- MODULE MCAcpBridge -----------------------------
EXTENDS AcpBridge

Symmetry == Permutations(SessionIds) \union Permutations(RequestIds)
=============================================================================
