--------------------------- MODULE RegistryRemoval ---------------------------
(***************************************************************************)
(* The registry with `remove` as the two steps it is: the entry leaves the *)
(* map under the lock, the turn's token fires after the lock was let go.   *)
(* In between any other thread may call any operation: reopen the session  *)
(* under the same id, begin its next turn, end or cancel either.           *)
(***************************************************************************)
EXTENDS SessionRegistry

VARIABLE firing  (* turns taken out of the map whose token is yet to fire    *)

fineVars == <<regVars, firing>>

FineInit == RegInit /\ firing = {}

(* mutant: remove returns once the entry is gone.                          *)
DropEntrySilently(s) ==
  /\ s \in registered
  /\ registered' = registered \ {s}
  /\ ClearSlots({s})
  /\ UNCHANGED <<firing, cancelled, begun, finished>>

(* mutant: the entry is only marked; it leaves the map with the token.     *)
MarkEntry(s) ==
  /\ s \in registered
  /\ firing' = firing \union ({active[s]} \ {NoTurn})
  /\ UNCHANGED regVars

DropEntry(s) ==
  /\ s \in registered
  /\ registered' = registered \ {s}
  /\ ClearSlots({s})
  /\ firing' = firing \union ({active[s]} \ {NoTurn})
  /\ UNCHANGED <<cancelled, begun, finished>>

(* mutant: the token of whatever turn the session has by now fires.        *)
FireCurrent(r) ==
  /\ r \in firing
  /\ firing' = firing \ {r}
  /\ cancelled' = cancelled \union {active[s] : s \in InFlight}
  /\ UNCHANGED <<registered, active, pending, buffered, begun, finished>>

FireToken(r) ==
  /\ r \in firing
  /\ firing' = firing \ {r}
  /\ cancelled' = cancelled \union {r}
  /\ UNCHANGED <<registered, active, pending, buffered, begun, finished>>

(* The operations that hold the lock from beginning to end.                *)
Locked ==
  \/ \E s \in SessionIds :
       \/ Create(s) \/ Resume(s) \/ CancelActiveTurn(s) \/ BufferWritten(s)
       \/ \E r \in RequestIds : BeginTurn(s, r) \/ EndTurn(s, r)
       \/ \E bytes \in Sizes : BufferReserve(s, bytes)
  \/ DrainActiveTurns

FineNext ==
  \/ Locked /\ UNCHANGED firing
  \/ \E s \in SessionIds : DropEntry(s)
  \/ \E r \in RequestIds : FireToken(r)

FineSpec == FineInit /\ [][FineNext]_fineVars

-----------------------------------------------------------------------------
Atomic == INSTANCE SessionRegistry WITH cancelled <- cancelled \union firing

(* Nobody can tell the two steps from one: the registry of threads is the  *)
(* registry whose remove is atomic, a token about to fire counted as fired.*)
ImplementsRegistry == Atomic!RegSpec

(* While remove is between its steps, the turn it took is in no slot, not  *)
(* even in one of the session reopened under the same id: the token that   *)
(* is about to fire is not the token of a turn begun since.                *)
FiringDetached == \A s \in SessionIds : active[s] \notin firing

(* A turn that nobody has ended holds its slot, or its token has fired, or *)
(* is about to: the window loses no turn.                                  *)
SlotHeldOrFiring ==
  \A r \in begun \ (cancelled \union finished) :
    r \in firing \/ \E s \in registered : \A t \in SessionIds : active[t] = r <=> t = s
=============================================================================
