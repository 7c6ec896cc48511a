------------------------ MODULE RegistryRemovalProofs ------------------------
(***************************************************************************)
(* The two steps of `remove` implement the one step of SessionRegistry,    *)
(* for all sets of ids and all limits, and the window between them is      *)
(* harmless to every turn but the one that is being cancelled.             *)
(***************************************************************************)
EXTENDS RegistryRemoval, TLAPS

(* The instance counts as this module does.                                *)
LEMMA SameCardinality == \A S : Atomic!Cardinality(S) = Cardinality(S)
BY DEF Cardinality, Atomic!Cardinality

(* Each operation that holds the lock is the operation of the same name of *)
(* the atomic registry.                                                    *)
LEMMA LockedStep ==
  ASSUME Locked, UNCHANGED firing
  PROVE  Atomic!RegNext
<1>1. ASSUME NEW s \in SessionIds, Create(s) PROVE Atomic!Create(s)
  BY <1>1, SameCardinality DEF Create, Register, SessionLimitExceeded,
     Atomic!Create, Atomic!Register, Atomic!SessionLimitExceeded
<1>2. ASSUME NEW s \in SessionIds, Resume(s) PROVE Atomic!Resume(s)
  BY <1>2, SameCardinality DEF Resume, Register, SessionLimitExceeded, regVars,
     Atomic!Resume, Atomic!Register, Atomic!SessionLimitExceeded, Atomic!regVars
<1>3. ASSUME NEW s \in SessionIds, CancelActiveTurn(s) PROVE Atomic!CancelActiveTurn(s)
  BY <1>3 DEF CancelActiveTurn, Atomic!CancelActiveTurn
<1>4. ASSUME NEW s \in SessionIds, BufferWritten(s) PROVE Atomic!BufferWritten(s)
  BY <1>4 DEF BufferWritten, SaturatingSub, Atomic!BufferWritten, Atomic!SaturatingSub
<1>5. ASSUME NEW s \in SessionIds, NEW r \in RequestIds, BeginTurn(s, r)
      PROVE  Atomic!BeginTurn(s, r)
  BY <1>5, SameCardinality DEF BeginTurn, BeginTurnVerdict, InFlight,
     Atomic!BeginTurn, Atomic!BeginTurnVerdict, Atomic!InFlight
<1>6. ASSUME NEW s \in SessionIds, NEW r \in RequestIds, EndTurn(s, r)
      PROVE  Atomic!EndTurn(s, r)
  BY <1>6 DEF EndTurn, ClearSlots, Atomic!EndTurn, Atomic!ClearSlots
<1>7. ASSUME NEW s \in SessionIds, NEW bytes \in Sizes, BufferReserve(s, bytes)
      PROVE  Atomic!BufferReserve(s, bytes)
  BY <1>7 DEF BufferReserve, WouldOverflow, Atomic!BufferReserve, Atomic!WouldOverflow
<1>8. CASE DrainActiveTurns
  <2>1. Atomic!DrainActiveTurns
    BY <1>8 DEF DrainActiveTurns, ClearSlots, InFlight,
       Atomic!DrainActiveTurns, Atomic!ClearSlots, Atomic!InFlight
  <2> QED BY <2>1 DEF Atomic!RegNext
<1> QED BY <1>1, <1>2, <1>3, <1>4, <1>5, <1>6, <1>7, <1>8 DEF Locked, Atomic!RegNext

(* Every step of the registry of threads is a step of the atomic one or    *)
(* changes nothing of it: dropping the entry is the removal, firing the    *)
(* token a stutter.                                                        *)
LEMMA RemovalStep ==
  ASSUME [FineNext]_fineVars
  PROVE  [Atomic!RegNext]_(Atomic!regVars)
<1>1. CASE Locked /\ UNCHANGED firing
  BY <1>1, LockedStep
<1>2. ASSUME NEW s \in SessionIds, DropEntry(s) PROVE Atomic!RemoveSession(s)
  BY <1>2 DEF DropEntry, ClearSlots, Atomic!RemoveSession, Atomic!ClearSlots
<1>3. ASSUME NEW r \in RequestIds, FireToken(r) PROVE UNCHANGED Atomic!regVars
  <2>1. cancelled' \union firing' = cancelled \union firing
    BY <1>3 DEF FireToken
  <2> QED BY <1>3, <2>1 DEF FireToken, Atomic!regVars
<1>4. CASE UNCHANGED fineVars
  BY <1>4 DEF fineVars, regVars, Atomic!regVars
<1> QED BY <1>1, <1>2, <1>3, <1>4 DEF FineNext, Atomic!RegNext

(* No caller can tell that `remove` lets the lock go before it fires the   *)
(* token: the registry of threads implements the atomic registry.          *)
THEOREM RemovalImplementsRegistry == FineSpec => ImplementsRegistry
<1>1. FineInit => Atomic!RegInit
  BY DEF FineInit, RegInit, Atomic!RegInit
<1>2. [FineNext]_fineVars => [Atomic!RegNext]_(Atomic!regVars)
  BY RemovalStep
<1> QED BY <1>1, <1>2, PTL DEF FineSpec, ImplementsRegistry, Atomic!RegSpec

(* What every step preserves, and what the two properties below follow     *)
(* from: the shapes, every slot real, no turn in two slots, the turns of   *)
(* a running `remove` in none, and a slot for every turn that goes on.     *)
Shapes ==
  /\ registered \subseteq SessionIds
  /\ active \in [SessionIds -> RequestIds \union {NoTurn}]
  /\ begun \subseteq RequestIds
  /\ firing \subseteq begun

OneSlotEach ==
  \A s, t \in SessionIds : active[s] = active[t] /\ active[s] # NoTurn => s = t

RunningHeld ==
  \A r \in begun \ (cancelled \union finished \union firing) :
    \E s \in registered : active[s] = r

FineInv == Shapes /\ ActiveTurnReal /\ OneSlotEach /\ FiringDetached /\ RunningHeld

(* Emptying the slots of S loses none of the turns accounted for.          *)
LEMMA ClearedSlots ==
  ASSUME FineInv, NEW S \in SUBSET SessionIds, ClearSlots(S),
         registered' \subseteq registered, registered \ S \subseteq registered',
         begun' = begun, cancelled \subseteq cancelled',
         finished \subseteq finished',
         firing \subseteq firing',
         firing' \subseteq firing \union ({active[s] : s \in S} \ {NoTurn}),
         \A s \in S : active[s] \in cancelled' \union finished' \union firing' \union {NoTurn}
  PROVE  FineInv'
<1> USE NoTurnAssumption
<1>1. \A s \in SessionIds : active'[s] = IF s \in S THEN NoTurn ELSE active[s]
  BY DEF ClearSlots
<1>2. Shapes'
  <2>1. \A s \in S : active[s] # NoTurn => active[s] \in begun
    BY DEF FineInv, ActiveTurnReal
  <2> QED BY <2>1 DEF FineInv, Shapes, ClearSlots
<1>3. ActiveTurnReal'
  BY <1>1 DEF FineInv, ActiveTurnReal, Shapes
<1>4. OneSlotEach'
  BY <1>1 DEF FineInv, OneSlotEach
<1>5. FiringDetached'
  <2> SUFFICES ASSUME NEW s \in SessionIds, active'[s] \in firing' PROVE FALSE
    BY DEF FiringDetached
  <2>1. active'[s] # NoTurn
    BY <1>2 DEF Shapes
  <2>2. s \notin S /\ active'[s] = active[s]
    BY <1>1, <2>1
  <2>3. active[s] \notin firing
    BY DEF FineInv, FiringDetached
  <2>4. PICK t \in S : active[t] = active[s]
    BY <2>2, <2>3
  <2> QED BY <2>1, <2>2, <2>4 DEF FineInv, OneSlotEach
<1>6. RunningHeld'
  <2> SUFFICES ASSUME NEW r \in begun',
                      r \notin cancelled' \union finished' \union firing'
               PROVE  \E s \in registered' : active'[s] = r
    BY DEF RunningHeld
  <2>1. PICK s \in registered : active[s] = r
    BY DEF FineInv, RunningHeld
  <2>2. r # NoTurn
    BY DEF FineInv, Shapes
  <2>3. s \notin S
    BY <2>1, <2>2
  <2> QED BY <1>1, <2>1, <2>3 DEF FineInv, Shapes
<1> QED BY <1>2, <1>3, <1>4, <1>5, <1>6 DEF FineInv

(* A step that leaves every slot alone keeps what is accounted for.        *)
LEMMA SlotsUntouched ==
  ASSUME FineInv, active' = active, begun' = begun,
         registered \subseteq registered', registered' \subseteq SessionIds,
         cancelled \subseteq cancelled', finished' = finished, firing' \subseteq firing,
         firing \ firing' \subseteq cancelled'
  PROVE  FineInv'
BY DEF FineInv, Shapes, ActiveTurnReal, OneSlotEach, FiringDetached, RunningHeld

(* A turn that begins is new: its id is in no slot and about to be fired   *)
(* by nobody.                                                              *)
LEMMA BegunInEmptySlot ==
  ASSUME FineInv, NEW s \in SessionIds, NEW r \in RequestIds, BeginTurn(s, r),
         UNCHANGED firing
  PROVE  FineInv'
<1> USE NoTurnAssumption
<1>1. s \in registered /\ active[s] = NoTurn
  BY DEF BeginTurn, BeginTurnVerdict
<1>2. /\ active' = [active EXCEPT ![s] = r]
      /\ begun' = begun \union {r} /\ r \notin begun
      /\ UNCHANGED <<registered, cancelled, finished>>
  BY DEF BeginTurn
<1>3. \A t \in SessionIds : active[t] # r
  BY <1>2 DEF FineInv, ActiveTurnReal
<1> QED BY <1>1, <1>2, <1>3 DEF FineInv, Shapes, ActiveTurnReal, OneSlotEach,
           FiringDetached, RunningHeld

(* Every step of the registry of threads preserves the invariant.          *)
LEMMA FineStep ==
  ASSUME FineInv, [FineNext]_fineVars
  PROVE  FineInv'
<1>1. ASSUME NEW s \in SessionIds, Create(s) \/ Resume(s), UNCHANGED firing
      PROVE  FineInv'
  BY <1>1, SlotsUntouched DEF Create, Resume, Register, regVars, FineInv, Shapes
<1>2. ASSUME NEW s \in SessionIds, CancelActiveTurn(s), UNCHANGED firing PROVE FineInv'
  BY <1>2, SlotsUntouched DEF CancelActiveTurn, FineInv, Shapes
<1>3. ASSUME NEW s \in SessionIds, BufferWritten(s), UNCHANGED firing PROVE FineInv'
  BY <1>3, SlotsUntouched DEF BufferWritten, FineInv, Shapes
<1>4. ASSUME NEW s \in SessionIds, NEW bytes \in Sizes, BufferReserve(s, bytes),
             UNCHANGED firing
      PROVE  FineInv'
  BY <1>4, SlotsUntouched DEF BufferReserve, FineInv, Shapes
<1>5. ASSUME NEW s \in SessionIds, NEW r \in RequestIds, BeginTurn(s, r), UNCHANGED firing
      PROVE  FineInv'
  BY <1>5, BegunInEmptySlot
<1>6. ASSUME NEW s \in SessionIds, NEW r \in RequestIds, EndTurn(s, r), UNCHANGED firing
      PROVE  FineInv'
  <2> DEFINE S == IF s \in registered /\ active[s] = r THEN {s} ELSE {}
  <2>1. /\ S \in SUBSET SessionIds /\ ClearSlots(S)
        /\ \A t \in S : active[t] \in finished'
        /\ finished \subseteq finished' /\ UNCHANGED <<registered, cancelled, begun>>
    BY <1>6 DEF EndTurn
  <2> HIDE DEF S
  <2> QED BY <1>6, <2>1, ClearedSlots
<1>7. ASSUME DrainActiveTurns, UNCHANGED firing PROVE FineInv'
  <2>1. /\ InFlight \in SUBSET SessionIds /\ ClearSlots(InFlight)
        /\ \A t \in InFlight : active[t] \in cancelled'
        /\ cancelled \subseteq cancelled' /\ UNCHANGED <<registered, finished, begun>>
    BY <1>7 DEF DrainActiveTurns, InFlight, FineInv, Shapes
  <2> QED BY <1>7, <2>1, ClearedSlots
<1>8. ASSUME NEW s \in SessionIds, DropEntry(s) PROVE FineInv'
  <2>1. /\ {s} \in SUBSET SessionIds /\ ClearSlots({s})
        /\ registered' = registered \ {s} /\ UNCHANGED <<cancelled, begun, finished>>
        /\ firing' = firing \union ({active[s]} \ {NoTurn})
    BY <1>8 DEF DropEntry
  <2>2. \A t \in {s} : active[t] \in firing' \union {NoTurn}
    BY <2>1
  <2> QED BY <2>1, <2>2, ClearedSlots
<1>9. ASSUME NEW r \in RequestIds, FireToken(r) PROVE FineInv'
  BY <1>9, SlotsUntouched DEF FireToken, FineInv, Shapes
<1>10. CASE UNCHANGED fineVars
  BY <1>10 DEF fineVars, regVars, FineInv, Shapes, ActiveTurnReal, OneSlotEach,
     FiringDetached, RunningHeld
<1> QED BY <1>1, <1>2, <1>3, <1>4, <1>5, <1>6, <1>7, <1>8, <1>9, <1>10
        DEF FineNext, Locked

(* The invariant holds throughout.                                         *)
THEOREM RemovalInvariant == FineSpec => []FineInv
<1>1. FineInit => FineInv
  BY DEF FineInit, RegInit, FineInv, Shapes, ActiveTurnReal, OneSlotEach,
     FiringDetached, RunningHeld
<1> QED BY <1>1, FineStep, PTL DEF FineSpec

(* The token fired at the end of `remove` is never the token of a turn     *)
(* begun since.                                                            *)
THEOREM RemovalFiresItsOwn == FineSpec => []FiringDetached
<1>1. FineInv => FiringDetached
  BY DEF FineInv
<1> QED BY <1>1, RemovalInvariant, PTL

(* The window of `remove` loses no turn.                                   *)
THEOREM RemovalKeepsTurns == FineSpec => []SlotHeldOrFiring
<1>1. FineInv => SlotHeldOrFiring
  <2> SUFFICES ASSUME FineInv, NEW r \in begun \ (cancelled \union finished),
                      r \notin firing
               PROVE  \E s \in registered : \A t \in SessionIds : active[t] = r <=> t = s
    BY DEF SlotHeldOrFiring
  <2>1. PICK s \in registered : active[s] = r
    BY DEF FineInv, RunningHeld
  <2> QED BY <2>1, NoTurnAssumption DEF FineInv, Shapes, OneSlotEach
<1> QED BY <1>1, RemovalInvariant, PTL
=============================================================================
