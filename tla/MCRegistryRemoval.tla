------------------------- MODULE MCRegistryRemoval -------------------------
(***************************************************************************)
(* One session and one request more than the limits admit: the turn that   *)
(* is removed, the one that begins in the reopened session, and another    *)
(* session's.  Sizes 1 and 2 against a cap of 3 let reservations of        *)
(* different sizes be released in the wrong order.                         *)
(***************************************************************************)
EXTENDS RegistryRemoval, TLC

Symmetry == Permutations(SessionIds) \union Permutations(RequestIds)
=============================================================================
