--------------------------- MODULE SessionRegistry ---------------------------
(***************************************************************************)
(* The in-memory session registry of src/session.rs: which sessions exist, *)
(* which of them has an active turn, and how many bytes of that turn's     *)
(* session/update lines are queued northbound.  Every operation of the     *)
(* code runs under the one mutex, so every operation is one action here.   *)
(*                                                                         *)
(* RegSpec lets any caller call any operation at any time, with the ids    *)
(* the callers can hold: late end_turn calls of a turn whose session was   *)
(* closed, writes of lines nobody reserved, closes in the middle of a      *)
(* turn.  AcpBridge reuses the operations with the callers of agent.rs.    *)
(***************************************************************************)
EXTENDS Integers, Sequences, FiniteSets, SequencesExt

CONSTANTS
  SessionIds,          (* session ids, minted by the bridge or by the host    *)
  RequestIds,          (* MUXI request ids; new_id mints each at most once    *)
  NoTurn,              (* active_turn = None                                  *)
  Sizes,               (* serialized sizes of a session/update                *)
  MaxSessions,         (* limits.max_sessions                                 *)
  MaxConcurrentTurns,  (* limits.max_concurrent_turns                         *)
  MaxBufferedBytes     (* limits.max_buffered_bytes                           *)

ASSUME NoTurnAssumption == NoTurn \notin RequestIds
ASSUME FiniteAssumption == IsFiniteSet(SessionIds) /\ IsFiniteSet(RequestIds)
ASSUME SizesAssumption  == Sizes \subseteq Nat
ASSUME LimitsAssumption == /\ MaxSessions \in Nat
                           /\ MaxConcurrentTurns \in Nat
                           /\ MaxBufferedBytes \in Nat

VARIABLES
  registered,  (* the keys of the session map                                 *)
  active,      (* active_turn of each session; NoTurn when it has none        *)
  pending,     (* pending_writes of the active turn                           *)
  buffered,    (* buffered_bytes of the active turn                           *)
  cancelled,   (* requests whose cancellation token has fired                 *)
  begun,       (* history: requests that have claimed a turn                  *)
  finished     (* history: requests whose owner has called end_turn           *)

regVars == <<registered, active, pending, buffered, cancelled, begun,
             finished>>

RegInit ==
  /\ registered = {}
  /\ active   = [s \in SessionIds |-> NoTurn]
  /\ pending  = [s \in SessionIds |-> <<>>]
  /\ buffered = [s \in SessionIds |-> 0]
  /\ cancelled = {}
  /\ begun = {}
  /\ finished = {}

-----------------------------------------------------------------------------
(* What the operations look at.                                            *)

(* mutant: the limit is checked one too late.                              *)
SessionLimitOffByOne == Cardinality(registered) > MaxSessions

SessionLimitExceeded == Cardinality(registered) >= MaxSessions

InFlight == {s \in registered : active[s] # NoTurn}

(* mutant: the turn limit is checked one too late.                         *)
TurnLimitOffByOne(s) ==
  CASE s \notin registered -> "unknown_session"
    [] s \in registered /\ active[s] # NoTurn -> "turn_in_progress"
    [] s \in registered /\ active[s] = NoTurn
       /\ Cardinality(InFlight) > MaxConcurrentTurns -> "turn_limit"
    [] OTHER -> "ok"

BeginTurnVerdict(s) ==
  CASE s \notin registered -> "unknown_session"
    [] s \in registered /\ active[s] # NoTurn -> "turn_in_progress"
    [] s \in registered /\ active[s] = NoTurn
       /\ Cardinality(InFlight) >= MaxConcurrentTurns -> "turn_limit"
    [] OTHER -> "ok"

(* mutant: the cap is checked before the update is counted.                *)
OverflowCheckedLate(s, bytes) ==
  active[s] # NoTurn /\ buffered[s] > MaxBufferedBytes

WouldOverflow(s, bytes) ==
  active[s] # NoTurn /\ buffered[s] + bytes > MaxBufferedBytes

(* Dropping a TurnState drops its buffer accounting with it.               *)
ClearSlots(S) ==
  /\ active'   = [s \in SessionIds |-> IF s \in S THEN NoTurn ELSE active[s]]
  /\ pending'  = [s \in SessionIds |-> IF s \in S THEN <<>> ELSE pending[s]]
  /\ buffered' = [s \in SessionIds |-> IF s \in S THEN 0 ELSE buffered[s]]

-----------------------------------------------------------------------------
(* The operations.  The ones that only report an error change nothing.     *)

Register(s) ==
  /\ registered' = registered \union {s}
  /\ UNCHANGED <<active, pending, buffered, cancelled, begun, finished>>

(* new_id is random; that it repeats the id of a session in the map is not  *)
(* modelled.  Repeating the id of a closed one is what a resume does.      *)
Create(s) ==
  /\ s \notin registered
  /\ ~SessionLimitExceeded
  /\ Register(s)

Resume(s) ==
  IF s \in registered
  THEN UNCHANGED regVars
  ELSE ~SessionLimitExceeded /\ Register(s)

RemoveSession(s) ==
  /\ s \in registered
  /\ registered' = registered \ {s}
  /\ ClearSlots({s})
  /\ cancelled' = cancelled \union ({active[s]} \ {NoTurn})
  /\ UNCHANGED <<begun, finished>>

BeginTurn(s, r) ==
  /\ r \notin begun
  /\ BeginTurnVerdict(s) = "ok"
  /\ active'   = [active EXCEPT ![s] = r]
  /\ pending'  = [pending EXCEPT ![s] = <<>>]
  /\ buffered' = [buffered EXCEPT ![s] = 0]
  /\ begun' = begun \union {r}
  /\ UNCHANGED <<registered, cancelled, finished>>

(* mutant: end_turn without the request_id comparison.                     *)
EndAnyTurn(s, r) ==
  /\ r \in begun
  /\ finished' = finished \union {r}
  /\ ClearSlots({s} \intersect registered)
  /\ UNCHANGED <<registered, cancelled, begun>>

EndTurn(s, r) ==
  /\ r \in begun
  /\ finished' = finished \union {r}
  /\ ClearSlots(IF s \in registered /\ active[s] = r THEN {s} ELSE {})
  /\ UNCHANGED <<registered, cancelled, begun>>

CancelActiveTurn(s) ==
  /\ s \in registered /\ active[s] # NoTurn
  /\ cancelled' = cancelled \union {active[s]}
  /\ UNCHANGED <<registered, active, pending, buffered, begun, finished>>

BufferReserve(s, bytes) ==
  /\ ~WouldOverflow(s, bytes)
  /\ IF s \in registered /\ active[s] # NoTurn
     THEN /\ pending'  = [pending EXCEPT ![s] = Append(@, bytes)]
          /\ buffered' = [buffered EXCEPT ![s] = @ + bytes]
     ELSE UNCHANGED <<pending, buffered>>
  /\ UNCHANGED <<registered, active, cancelled, begun, finished>>

SaturatingSub(a, b) == IF a >= b THEN a - b ELSE 0

(* mutant: the newest reservation is popped, the oldest one subtracted.    *)
PopsBack(s) ==
  /\ IF s \in registered /\ active[s] # NoTurn /\ pending[s] # <<>>
     THEN /\ buffered' = [buffered EXCEPT ![s] = SaturatingSub(@, Head(pending[s]))]
          /\ pending'  = [pending EXCEPT ![s] = Front(@)]
     ELSE UNCHANGED <<pending, buffered>>
  /\ UNCHANGED <<registered, active, cancelled, begun, finished>>

BufferWritten(s) ==
  /\ IF s \in registered /\ active[s] # NoTurn /\ pending[s] # <<>>
     THEN /\ buffered' = [buffered EXCEPT ![s] = SaturatingSub(@, Head(pending[s]))]
          /\ pending'  = [pending EXCEPT ![s] = Tail(@)]
     ELSE UNCHANGED <<pending, buffered>>
  /\ UNCHANGED <<registered, active, cancelled, begun, finished>>

DrainActiveTurns ==
  /\ cancelled' = cancelled \union {active[s] : s \in InFlight}
  /\ ClearSlots(InFlight)
  /\ UNCHANGED <<registered, begun, finished>>

-----------------------------------------------------------------------------
RegNext ==
  \/ \E s \in SessionIds :
       \/ Create(s) \/ Resume(s) \/ RemoveSession(s)
       \/ CancelActiveTurn(s) \/ BufferWritten(s)
       \/ \E r \in RequestIds : BeginTurn(s, r) \/ EndTurn(s, r)
       \/ \E bytes \in Sizes : BufferReserve(s, bytes)
  \/ DrainActiveTurns

RegSpec == RegInit /\ [][RegNext]_regVars

-----------------------------------------------------------------------------
(* The state is well formed: the maps have the shapes the struct fields    *)
(* have, and a session without a turn has no buffer accounting.            *)
RegTypeOK ==
  /\ registered \subseteq SessionIds
  /\ active \in [SessionIds -> RequestIds \union {NoTurn}]
  /\ pending \in [SessionIds -> Seq(Sizes)]
  /\ buffered \in [SessionIds -> Nat]
  /\ cancelled \subseteq begun
  /\ begun \subseteq RequestIds
  /\ finished \subseteq begun

(* A turn in a slot is one that was begun, in a session that exists: no     *)
(* turn outlives the close of its session in the map.                      *)
ActiveTurnReal ==
  \A s \in SessionIds :
    active[s] # NoTurn => s \in registered /\ active[s] \in begun

(* No sequence of session/new, resume and close exceeds the two limits of  *)
(* config.rs `Limits`: sessions in the map, turns in flight over all of    *)
(* them.                                                                   *)
CapsRespected ==
  /\ Cardinality(registered) <= MaxSessions
  /\ Cardinality(InFlight) <= MaxConcurrentTurns

(* A request that has begun and whose owner has neither called end_turn    *)
(* nor been cancelled still owns exactly one slot: no call made for        *)
(* another turn (a late end_turn of a closed session's old turn, a close,  *)
(* a drain) frees or moves it.                                             *)
SlotHeld ==
  \A r \in begun \ (cancelled \union finished) :
    \E s \in registered : \A t \in SessionIds : active[t] = r <=> t = s

Total(sizes) == FoldLeft(+, 0, sizes)

(* The byte counter of a turn is the sum of its reservations, whatever     *)
(* order lines are reserved and written in: the saturating subtraction of  *)
(* buffer_written never saturates.                                         *)
BufferAccounting ==
  \A s \in SessionIds : buffered[s] = Total(pending[s])

(* ... and it never exceeds max_buffered_bytes.                            *)
BufferCapRespected ==
  \A s \in SessionIds : buffered[s] <= MaxBufferedBytes

(* A slot changes hands only through the empty slot, and a turn leaves its *)
(* slot only if its token fires in that very step or fired before, or if   *)
(* its own request calls end_turn: nobody loses a turn silently.           *)
SlotReleaseAccounted ==
  [][\A s \in SessionIds :
       active[s] # NoTurn /\ active'[s] # active[s] =>
         /\ active'[s] = NoTurn
         /\ active[s] \in cancelled' \union finished']_regVars
=============================================================================
