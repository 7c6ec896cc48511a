------------------------ MODULE SessionRegistryProofs ------------------------
(***************************************************************************)
(* The registry's invariants, for all sets of ids and all limits.          *)
(***************************************************************************)
EXTENDS SessionRegistry, FoldLemmas, FiniteSetTheorems, TLAPS

(* The inductive invariant: everything but the two caps, which follow from *)
(* it step by step.                                                        *)
RegCore ==
  /\ RegTypeOK
  /\ ActiveTurnReal
  /\ SlotHeld
  /\ BufferCapRespected

(* The shape of the tail and of an extension of a sequence of sizes, for   *)
(* the accounting of pending_writes.                                       *)
LEMMA SeqShapes ==
  ASSUME NEW S
  PROVE  /\ <<>> \in Seq(S)
         /\ \A q \in Seq(S), x \in S : Append(q, x) \in Seq(S)
         /\ \A q \in Seq(S) : q # <<>> => /\ Tail(q) \in Seq(S)
                                          /\ Head(q) \in S
  OBVIOUS

(* Clearing slots keeps the maps of the registry well formed.              *)
LEMMA ClearSlotsType ==
  ASSUME RegTypeOK, NEW S, ClearSlots(S)
  PROVE  /\ active' \in [SessionIds -> RequestIds \union {NoTurn}]
         /\ pending' \in [SessionIds -> Seq(Sizes)]
         /\ buffered' \in [SessionIds -> Nat]
  BY SeqShapes DEF RegTypeOK, ClearSlots

(* The code's state stays well formed: the type invariant holds in every   *)
(* state of the registry under arbitrary callers.                          *)
LEMMA RegTypeStep ==
  ASSUME RegTypeOK, ActiveTurnReal, RegNext
  PROVE  RegTypeOK'
<1> USE NoTurnAssumption, SizesAssumption, LimitsAssumption
<1>1. ASSUME NEW s \in SessionIds, Create(s) PROVE RegTypeOK'
  BY <1>1 DEF RegTypeOK, Create, Register
<1>2. ASSUME NEW s \in SessionIds, Resume(s) PROVE RegTypeOK'
  BY <1>2 DEF RegTypeOK, Resume, Register, regVars
<1>3. ASSUME NEW s \in SessionIds, RemoveSession(s) PROVE RegTypeOK'
  BY <1>3, ClearSlotsType DEF RegTypeOK, ActiveTurnReal, RemoveSession
<1>4. ASSUME NEW s \in SessionIds, CancelActiveTurn(s) PROVE RegTypeOK'
  BY <1>4 DEF RegTypeOK, ActiveTurnReal, CancelActiveTurn
<1>5. ASSUME NEW s \in SessionIds, BufferWritten(s) PROVE RegTypeOK'
  <2>1. CASE s \in registered /\ active[s] # NoTurn /\ pending[s] # <<>>
    <3>1. pending[s] \in Seq(Sizes)
      BY DEF RegTypeOK
    <3>2. Tail(pending[s]) \in Seq(Sizes) /\ Head(pending[s]) \in Nat
      BY <2>1, <3>1, SeqShapes
    <3>3. SaturatingSub(buffered[s], Head(pending[s])) \in Nat
      BY <3>2 DEF RegTypeOK, SaturatingSub
    <3>4. pending' \in [SessionIds -> Seq(Sizes)]
      BY <1>5, <2>1, <3>2 DEF RegTypeOK, BufferWritten
    <3>5. buffered' \in [SessionIds -> Nat]
      BY <1>5, <2>1, <3>3 DEF RegTypeOK, BufferWritten
    <3> QED BY <1>5, <3>4, <3>5 DEF RegTypeOK, BufferWritten
  <2>2. CASE ~(s \in registered /\ active[s] # NoTurn /\ pending[s] # <<>>)
    BY <1>5, <2>2 DEF RegTypeOK, BufferWritten
  <2> QED BY <2>1, <2>2
<1>6. ASSUME NEW s \in SessionIds, NEW r \in RequestIds, BeginTurn(s, r)
      PROVE  RegTypeOK'
  BY <1>6, SeqShapes DEF RegTypeOK, BeginTurn
<1>7. ASSUME NEW s \in SessionIds, NEW r \in RequestIds, EndTurn(s, r)
      PROVE  RegTypeOK'
  <2>1. ClearSlots(IF s \in registered /\ active[s] = r THEN {s} ELSE {})
    BY <1>7 DEF EndTurn
  <2> QED BY <1>7, <2>1, ClearSlotsType DEF RegTypeOK, EndTurn
<1>8. ASSUME NEW s \in SessionIds, NEW bytes \in Sizes, BufferReserve(s, bytes)
      PROVE  RegTypeOK'
  <2>1. CASE s \in registered /\ active[s] # NoTurn
    <3>1. Append(pending[s], bytes) \in Seq(Sizes) /\ buffered[s] + bytes \in Nat
      BY SeqShapes DEF RegTypeOK
    <3>2. pending' = [pending EXCEPT ![s] = Append(pending[s], bytes)]
      BY <1>8, <2>1 DEF BufferReserve
    <3>3. buffered' = [buffered EXCEPT ![s] = buffered[s] + bytes]
      BY <1>8, <2>1 DEF BufferReserve
    <3> QED BY <1>8, <3>1, <3>2, <3>3 DEF RegTypeOK, BufferReserve
  <2>2. CASE ~(s \in registered /\ active[s] # NoTurn)
    BY <1>8, <2>2 DEF RegTypeOK, BufferReserve
  <2> QED BY <2>1, <2>2
<1>9. CASE DrainActiveTurns
  BY <1>9, ClearSlotsType DEF RegTypeOK, ActiveTurnReal, DrainActiveTurns, InFlight
<1> QED BY <1>1, <1>2, <1>3, <1>4, <1>5, <1>6, <1>7, <1>8, <1>9 DEF RegNext

(* Each operation keeps a turn in a slot real: begun, in a session of the  *)
(* map.                                                                    *)
LEMMA ActiveTurnRealStep ==
  ASSUME RegTypeOK, ActiveTurnReal, RegNext
  PROVE  ActiveTurnReal'
<1> USE NoTurnAssumption DEF RegTypeOK, ActiveTurnReal
<1>1. ASSUME NEW s \in SessionIds,
             Create(s) \/ Resume(s) \/ CancelActiveTurn(s) \/ BufferWritten(s)
      PROVE  ActiveTurnReal'
  BY <1>1 DEF Create, Resume, Register, regVars, CancelActiveTurn, BufferWritten
<1>2. ASSUME NEW s \in SessionIds, RemoveSession(s) PROVE ActiveTurnReal'
  BY <1>2 DEF RemoveSession, ClearSlots
<1>3. ASSUME NEW s \in SessionIds, NEW r \in RequestIds, BeginTurn(s, r)
      PROVE  ActiveTurnReal'
  <2>1. s \in registered
    BY <1>3 DEF BeginTurn, BeginTurnVerdict
  <2> QED BY <1>3, <2>1 DEF BeginTurn
<1>4. ASSUME NEW s \in SessionIds, NEW r \in RequestIds, EndTurn(s, r)
      PROVE  ActiveTurnReal'
  BY <1>4 DEF EndTurn, ClearSlots
<1>5. ASSUME NEW s \in SessionIds, NEW bytes \in Sizes, BufferReserve(s, bytes)
      PROVE  ActiveTurnReal'
  BY <1>5 DEF BufferReserve
<1>6. CASE DrainActiveTurns
  BY <1>6 DEF DrainActiveTurns, ClearSlots
<1> QED BY <1>1, <1>2, <1>3, <1>4, <1>5, <1>6 DEF RegNext

(* No operation called for another turn takes the slot of a turn that is   *)
(* neither cancelled nor finished.                                         *)
LEMMA SlotHeldStep ==
  ASSUME RegTypeOK, ActiveTurnReal, SlotHeld, RegNext
  PROVE  SlotHeld'
<1> DEFINE Owns(s, r) == \A t \in SessionIds : active[t] = r <=> t = s
<1> SUFFICES ASSUME NEW r \in begun', r \notin cancelled', r \notin finished'
             PROVE  \E s \in registered' : Owns(s, r)'
  BY DEF SlotHeld
<1> USE NoTurnAssumption DEF RegTypeOK, ActiveTurnReal
<1>1. ASSUME r \in begun, r \notin cancelled, r \notin finished
      PROVE  \E s \in registered : Owns(s, r) /\ r # NoTurn
  BY <1>1 DEF SlotHeld
<1>2. ASSUME NEW s \in SessionIds,
             Create(s) \/ Resume(s) \/ CancelActiveTurn(s) \/ BufferWritten(s)
      PROVE  \E t \in registered' : Owns(t, r)'
  <2>1. /\ active' = active /\ registered \subseteq registered'
        /\ begun' = begun /\ cancelled \subseteq cancelled' /\ finished' = finished
    BY <1>2 DEF Create, Resume, Register, regVars, CancelActiveTurn, BufferWritten
  <2>2. PICK t \in registered : Owns(t, r)
    BY <1>1, <2>1
  <2> QED BY <2>1, <2>2
<1>3. ASSUME NEW s \in SessionIds, RemoveSession(s)
      PROVE  \E t \in registered' : Owns(t, r)'
  <2>1. PICK t \in registered : Owns(t, r) /\ r # NoTurn
    BY <1>1, <1>3 DEF RemoveSession
  <2>2. t # s
    BY <1>3, <2>1 DEF RemoveSession
  <2>3. t \in registered' /\ Owns(t, r)'
    BY <1>3, <2>1, <2>2 DEF RemoveSession, ClearSlots
  <2> QED BY <2>3
<1>4. ASSUME NEW s \in SessionIds, NEW q \in RequestIds, BeginTurn(s, q)
      PROVE  \E t \in registered' : Owns(t, r)'
  <2>1. s \in registered /\ active[s] = NoTurn /\ q \notin begun
    BY <1>4 DEF BeginTurn, BeginTurnVerdict
  <2>2. CASE r = q
    <3>1. \A t \in SessionIds : active[t] # q
      BY <2>1
    <3>2. Owns(s, r)' /\ s \in registered'
      BY <1>4, <2>1, <2>2, <3>1 DEF BeginTurn
    <3> QED BY <3>2
  <2>3. CASE r # q
    <3>1. PICK t \in registered : Owns(t, r) /\ r # NoTurn
      BY <1>1, <1>4, <2>3 DEF BeginTurn
    <3>2. t # s
      BY <2>1, <3>1
    <3>3. t \in registered' /\ Owns(t, r)'
      BY <1>4, <2>3, <3>1, <3>2 DEF BeginTurn
    <3> QED BY <3>3
  <2> QED BY <2>2, <2>3
<1>5. ASSUME NEW s \in SessionIds, NEW q \in RequestIds, EndTurn(s, q)
      PROVE  \E t \in registered' : Owns(t, r)'
  <2>1. r # q
    BY <1>5 DEF EndTurn
  <2>2. PICK t \in registered : Owns(t, r) /\ r # NoTurn
    BY <1>1, <1>5 DEF EndTurn
  <2>3. t \in registered' /\ Owns(t, r)'
    BY <1>5, <2>1, <2>2 DEF EndTurn, ClearSlots
  <2> QED BY <2>3
<1>6. ASSUME NEW s \in SessionIds, NEW bytes \in Sizes, BufferReserve(s, bytes)
      PROVE  \E t \in registered' : Owns(t, r)'
  BY <1>1, <1>6 DEF BufferReserve
<1>7. CASE DrainActiveTurns
  <2>1. PICK t \in registered : Owns(t, r) /\ r # NoTurn
    BY <1>1, <1>7 DEF DrainActiveTurns
  <2>2. t \in InFlight /\ active[t] = r
    BY <2>1 DEF InFlight
  <2> QED BY <1>7, <2>2 DEF DrainActiveTurns
<1> QED BY <1>2, <1>3, <1>4, <1>5, <1>6, <1>7 DEF RegNext

(* No reservation takes a turn's queued bytes past max_buffered_bytes, and *)
(* no write makes the counter grow.                                        *)
LEMMA BufferCapStep ==
  ASSUME RegTypeOK, BufferCapRespected, RegNext
  PROVE  BufferCapRespected'
<1> USE NoTurnAssumption, LimitsAssumption, SizesAssumption
    DEF RegTypeOK, BufferCapRespected
<1>1. ASSUME NEW s \in SessionIds,
             Create(s) \/ Resume(s) \/ CancelActiveTurn(s)
      PROVE  BufferCapRespected'
  BY <1>1 DEF Create, Resume, Register, regVars, CancelActiveTurn
<1>2. ASSUME NEW S, ClearSlots(S) PROVE BufferCapRespected'
  BY <1>2 DEF ClearSlots
<1>3. ASSUME NEW s \in SessionIds, RemoveSession(s) PROVE BufferCapRespected'
  BY <1>2, <1>3 DEF RemoveSession
<1>4. ASSUME NEW s \in SessionIds, NEW r \in RequestIds, BeginTurn(s, r)
      PROVE  BufferCapRespected'
  BY <1>4 DEF BeginTurn
<1>5. ASSUME NEW s \in SessionIds, NEW r \in RequestIds, EndTurn(s, r)
      PROVE  BufferCapRespected'
  BY <1>2, <1>5 DEF EndTurn
<1>6. ASSUME NEW s \in SessionIds, NEW bytes \in Sizes, BufferReserve(s, bytes)
      PROVE  BufferCapRespected'
  <2>1. CASE s \in registered /\ active[s] # NoTurn
    <3>1. buffered[s] + bytes <= MaxBufferedBytes
      BY <1>6, <2>1 DEF BufferReserve, WouldOverflow
    <3>2. buffered' = [buffered EXCEPT ![s] = buffered[s] + bytes]
      BY <1>6, <2>1 DEF BufferReserve
    <3> QED BY <3>1, <3>2
  <2>2. CASE ~(s \in registered /\ active[s] # NoTurn)
    BY <1>6, <2>2 DEF BufferReserve
  <2> QED BY <2>1, <2>2
<1>7. ASSUME NEW s \in SessionIds, BufferWritten(s) PROVE BufferCapRespected'
  <2>1. CASE s \in registered /\ active[s] # NoTurn /\ pending[s] # <<>>
    <3>1. Head(pending[s]) \in Nat
      BY <2>1, SeqShapes
    <3>2. SaturatingSub(buffered[s], Head(pending[s])) <= buffered[s]
      BY <3>1 DEF SaturatingSub
    <3>3. SaturatingSub(buffered[s], Head(pending[s])) <= MaxBufferedBytes
      BY <3>1, <3>2 DEF SaturatingSub
    <3>4. buffered' = [buffered EXCEPT ![s] = SaturatingSub(buffered[s], Head(pending[s]))]
      BY <1>7, <2>1 DEF BufferWritten
    <3> QED BY <3>3, <3>4
  <2>2. CASE ~(s \in registered /\ active[s] # NoTurn /\ pending[s] # <<>>)
    BY <1>7, <2>2 DEF BufferWritten
  <2> QED BY <2>1, <2>2
<1>8. CASE DrainActiveTurns
  BY <1>2, <1>8 DEF DrainActiveTurns
<1> QED BY <1>1, <1>3, <1>4, <1>5, <1>6, <1>7, <1>8 DEF RegNext

(* The step of Total, as a function.                                       *)
Plus == [v \in Nat \X Nat |-> v[1] + v[2]]

(* Total is the fold of that step.                                         *)
LEMMA TotalIsFold ==
  ASSUME NEW s \in Seq(Nat)
  PROVE  Total(s) = Fold(Plus, 0, s)
<1> DEFINE n == Len(s)
           Is(f) == f = [S \in SUBSET (1 .. n) |->
                           IF S = {} THEN 0 ELSE f[S \ {Max(S)}] + s[Max(S)]]
           iter == CHOOSE f : Is(f)
<1>1. Total(s) = iter[1 .. n]
  <2>1. DOMAIN s = 1 .. n
    OBVIOUS
  <2> QED BY <2>1 DEF Total, FoldLeft, MapThenFoldSet
<1>2. Folding(Nat, Nat, Plus, 0) /\ \A a, b \in Nat : Plus[<<a, b>>] = a + b
  BY DEF Folding, Plus
<1>3. PICK f : Unfolds(Nat, Plus, 0, s, n, f)
  BY <1>2, UnfoldsExists
<1> HIDE DEF n
<1>4. \A S \in SUBSET (1 .. n) : S # {} =>
        s[Max(S)] \in Nat /\ S \ {Max(S)} \in SUBSET (1 .. n)
  BY LastPosition DEF n
<1>5. Is(f)
  BY <1>2, <1>3, <1>4 DEF Unfolds
<1>6. Is(iter)
  <2> HIDE DEF Is
  <2> QED BY <1>5
<1> HIDE DEF iter
<1>7. \A S \in SUBSET (1 .. n) :
        iter[S] = IF S = {} THEN 0 ELSE iter[S \ {Max(S)}] + s[Max(S)]
  BY <1>6
<1>8. Reaches(Nat, Plus, 0, s, iter)
  BY <1>2, <1>4, <1>7 DEF Reaches, n
<1>9. iter[1 .. n] = Fold(Plus, 0, s)
  BY <1>2, <1>8, UnfoldsFold DEF n
<1> QED BY <1>1, <1>9

(* Summing up a sequence step by step.                                     *)
LEMMA TotalSteps ==
  ASSUME NEW s \in Seq(Nat)
  PROVE  /\ Total(<<>>) = 0 /\ Total(s) \in Nat
         /\ \A x \in Nat : Total(Append(s, x)) = Total(s) + x
         /\ s # <<>> => Total(s) = Head(s) + Total(Tail(s))
<1>1. /\ Folding(Nat, Nat, Plus, 0)
      /\ \A a, b \in Nat : Plus[<<a, b>>] = a + b
  BY DEF Folding, Plus
<1>2. \A t \in Seq(Nat) : Total(t) = Fold(Plus, 0, t)
  BY TotalIsFold
<1>3. Fold(Plus, 0, <<>>) = 0 /\ Fold(Plus, 0, s) \in Nat
  BY <1>1, FoldEmpty, FoldType
<1>4. \A x \in Nat : Fold(Plus, 0, Append(s, x)) = Plus[<<Fold(Plus, 0, s), x>>]
  BY <1>1, FoldAppend
<1>5. <<>> \in Seq(Nat) /\ \A x \in Nat : Append(s, x) \in Seq(Nat)
  OBVIOUS
<1>6. ASSUME s # <<>>
      PROVE  Total(s) = Head(s) + Total(Tail(s))
  <2> DEFINE a == Head(s)
             t == Tail(s)
             R == {v \in Nat \X Nat : v[2] = a + v[1]}
  <2>1. a \in Nat /\ t \in Seq(Nat)
    BY <1>6
  <2> HIDE DEF a, t
  <2>2. Fold(Plus, 0, s) = Fold(Plus, a, t)
    <3>1. Plus[<<0, a>>] = a
      BY <1>1, <2>1
    <3> QED BY <1>1, <1>6, <3>1, FoldFirst DEF a, t
  <2>3. Folding(Nat, Nat, Plus, a)
    BY <1>1, <2>1 DEF Folding
  <2>4. <<0, a>> \in R
    BY <2>1
  <2>5. Related(Nat, Nat, Nat, Plus, Plus, R)
    <3> SUFFICES ASSUME NEW v \in Nat, NEW w \in Nat, NEW x \in Nat, w = a + v
                 PROVE  <<Plus[<<v, x>>], Plus[<<w, x>>]>> \in R
      BY DEF Related
    <3>1. Plus[<<v, x>>] = v + x /\ Plus[<<w, x>>] = w + x
      BY <1>1
    <3>2. v + x \in Nat /\ w + x \in Nat /\ w + x = a + (v + x)
      BY <2>1
    <3> QED BY <3>1, <3>2
  <2> HIDE DEF R
  <2>6. <<Fold(Plus, 0, t), Fold(Plus, a, t)>> \in R
    BY <1>1, <2>1, <2>3, <2>4, <2>5, FoldRelated
  <2>7. Fold(Plus, a, t) = a + Fold(Plus, 0, t)
    BY <2>6 DEF R
  <2> QED BY <1>2, <2>1, <2>2, <2>7 DEF a, t
<1> QED BY <1>1, <1>2, <1>3, <1>4, <1>5, <1>6

(* ... for the sizes the model has.                                        *)
LEMMA TotalOfSizes ==
  ASSUME NEW q \in Seq(Sizes)
  PROVE  /\ Total(<<>>) = 0 /\ Total(q) \in Nat
         /\ \A x \in Sizes : Total(Append(q, x)) = Total(q) + x
         /\ q # <<>> => /\ Head(q) \in Nat /\ Tail(q) \in Seq(Sizes)
                        /\ Total(q) = Head(q) + Total(Tail(q))
<1>1. q \in Seq(Nat)
  <2>1. q = [i \in 1 .. Len(q) |-> q[i]] /\ \A i \in 1 .. Len(q) : q[i] \in Nat
    BY SizesAssumption
  <2> QED BY <2>1
<1>2. q # <<>> => Head(q) \in Nat /\ Tail(q) \in Seq(Sizes)
  BY SeqShapes, SizesAssumption
<1>3. \A x \in Sizes : x \in Nat
  BY SizesAssumption
<1> QED BY <1>1, <1>2, <1>3, TotalSteps

(* Each operation keeps every counter the sum of its reservations: a write *)
(* takes back from the sum what the oldest reservation put in.             *)
LEMMA BufferAccountingStep ==
  ASSUME RegTypeOK, BufferAccounting, RegNext
  PROVE  BufferAccounting'
<1> USE NoTurnAssumption, SizesAssumption DEF RegTypeOK
<1>0. \A q \in Seq(Sizes) :
        /\ Total(<<>>) = 0 /\ Total(q) \in Nat
        /\ \A x \in Sizes : Total(Append(q, x)) = Total(q) + x
        /\ q # <<>> => /\ Head(q) \in Nat /\ Tail(q) \in Seq(Sizes)
                       /\ Total(q) = Head(q) + Total(Tail(q))
  BY TotalOfSizes
<1> SUFFICES ASSUME NEW t \in SessionIds, buffered[t] = Total(pending[t])
             PROVE  buffered'[t] = Total(pending'[t])
  BY DEF BufferAccounting
<1>1. ASSUME NEW s \in SessionIds, Create(s) \/ Resume(s) \/ CancelActiveTurn(s)
      PROVE  buffered'[t] = Total(pending'[t])
  BY <1>1 DEF Create, Resume, Register, regVars, CancelActiveTurn
<1>2. ASSUME NEW S, ClearSlots(S) PROVE buffered'[t] = Total(pending'[t])
  BY <1>0, <1>2 DEF ClearSlots
<1>3. ASSUME NEW s \in SessionIds, RemoveSession(s)
      PROVE  buffered'[t] = Total(pending'[t])
  BY <1>2, <1>3 DEF RemoveSession
<1>4. ASSUME NEW s \in SessionIds, NEW r \in RequestIds, BeginTurn(s, r)
      PROVE  buffered'[t] = Total(pending'[t])
  BY <1>0, <1>4 DEF BeginTurn
<1>5. ASSUME NEW s \in SessionIds, NEW r \in RequestIds, EndTurn(s, r)
      PROVE  buffered'[t] = Total(pending'[t])
  BY <1>2, <1>5 DEF EndTurn
<1>6. ASSUME NEW s \in SessionIds, NEW bytes \in Sizes, BufferReserve(s, bytes)
      PROVE  buffered'[t] = Total(pending'[t])
  <2>1. CASE s \in registered /\ active[s] # NoTurn
    <3>1. /\ pending' = [pending EXCEPT ![s] = Append(pending[s], bytes)]
          /\ buffered' = [buffered EXCEPT ![s] = buffered[s] + bytes]
      BY <1>6, <2>1 DEF BufferReserve
    <3>2. pending[t] \in Seq(Sizes)
      OBVIOUS
    <3>3. Total(Append(pending[t], bytes)) = Total(pending[t]) + bytes
      BY <1>0, <3>2
    <3> QED BY <3>1, <3>3
  <2>2. CASE ~(s \in registered /\ active[s] # NoTurn)
    BY <1>6, <2>2 DEF BufferReserve
  <2> QED BY <2>1, <2>2
<1>7. ASSUME NEW s \in SessionIds, BufferWritten(s)
      PROVE  buffered'[t] = Total(pending'[t])
  <2>1. CASE s \in registered /\ active[s] # NoTurn /\ pending[s] # <<>>
    <3>1. /\ pending' = [pending EXCEPT ![s] = Tail(pending[s])]
          /\ buffered' = [buffered EXCEPT ![s] = SaturatingSub(buffered[s], Head(pending[s]))]
      BY <1>7, <2>1 DEF BufferWritten
    <3>2. CASE t = s
      <4>1. /\ Head(pending[s]) \in Nat /\ Total(Tail(pending[s])) \in Nat
            /\ Total(pending[s]) = Head(pending[s]) + Total(Tail(pending[s]))
        BY <1>0, <2>1
      <4>2. SaturatingSub(buffered[s], Head(pending[s])) = Total(Tail(pending[s]))
        BY <3>2, <4>1 DEF SaturatingSub
      <4> QED BY <3>1, <3>2, <4>2
    <3>3. CASE t # s
      BY <3>1, <3>3
    <3> QED BY <3>2, <3>3
  <2>2. CASE ~(s \in registered /\ active[s] # NoTurn /\ pending[s] # <<>>)
    BY <1>7, <2>2 DEF BufferWritten
  <2> QED BY <2>1, <2>2
<1>8. CASE DrainActiveTurns
  BY <1>2, <1>8 DEF DrainActiveTurns
<1> QED BY <1>1, <1>3, <1>4, <1>5, <1>6, <1>7, <1>8 DEF RegNext

(* Registering a session keeps the count within the limit it was checked   *)
(* against.                                                                *)
LEMMA AddWithinLimit ==
  ASSUME NEW S, NEW x, NEW Limit \in Nat, IsFiniteSet(S), Cardinality(S) <= Limit,
         ~(Cardinality(S) >= Limit)
  PROVE  Cardinality(S \union {x}) <= Limit
BY FS_AddElement, FS_CardinalityType

(* The two caps hold after every step.                                     *)
LEMMA CapsStep ==
  ASSUME RegTypeOK, ActiveTurnReal, CapsRespected, RegNext
  PROVE  CapsRespected'
<1> USE NoTurnAssumption, LimitsAssumption, FiniteAssumption
<1>1. IsFiniteSet(registered) /\ IsFiniteSet(InFlight)
  BY FS_Subset DEF RegTypeOK, InFlight
<1>2. ASSUME registered' \subseteq registered, InFlight' \subseteq InFlight
      PROVE  CapsRespected'
  <2>1. Cardinality(registered') <= Cardinality(registered)
    BY <1>1, <1>2, FS_Subset
  <2>2. Cardinality(InFlight') <= Cardinality(InFlight)
    BY <1>1, <1>2, FS_Subset
  <2>3. /\ Cardinality(registered) \in Nat /\ Cardinality(registered') \in Nat
        /\ Cardinality(InFlight) \in Nat /\ Cardinality(InFlight') \in Nat
    BY <1>1, <1>2, FS_Subset, FS_CardinalityType
  <2> QED BY <2>1, <2>2, <2>3 DEF CapsRespected
<1>3. ASSUME NEW s \in SessionIds, ~SessionLimitExceeded, s \notin registered, Register(s)
      PROVE  CapsRespected'
  <2>1. InFlight' = InFlight
    BY <1>3 DEF Register, InFlight, ActiveTurnReal
  <2>2. Cardinality(registered') <= MaxSessions
    BY <1>1, <1>3, AddWithinLimit DEF Register, SessionLimitExceeded, CapsRespected
  <2> QED BY <2>1, <2>2 DEF CapsRespected
<1>4. ASSUME NEW s \in SessionIds, Create(s) PROVE CapsRespected'
  BY <1>3, <1>4 DEF Create
<1>5. ASSUME NEW s \in SessionIds, Resume(s) PROVE CapsRespected'
  <2>1. CASE s \in registered
    BY <1>2, <1>5, <2>1 DEF Resume, regVars, InFlight
  <2>2. CASE s \notin registered
    BY <1>3, <1>5, <2>2 DEF Resume
  <2> QED BY <2>1, <2>2
<1>6. ASSUME NEW s \in SessionIds, RemoveSession(s) PROVE CapsRespected'
  BY <1>2, <1>6 DEF RemoveSession, ClearSlots, InFlight, RegTypeOK
<1>7. ASSUME NEW s \in SessionIds, CancelActiveTurn(s) \/ BufferWritten(s)
      PROVE  CapsRespected'
  BY <1>2, <1>7 DEF CancelActiveTurn, BufferWritten, InFlight
<1>8. ASSUME NEW s \in SessionIds, NEW r \in RequestIds, BeginTurn(s, r)
      PROVE  CapsRespected'
  <2>1. /\ s \in registered /\ active[s] = NoTurn
        /\ ~(Cardinality(InFlight) >= MaxConcurrentTurns)
    BY <1>8 DEF BeginTurn, BeginTurnVerdict
  <2>2. InFlight' = InFlight \union {s}
    BY <1>8, <2>1 DEF BeginTurn, InFlight, RegTypeOK
  <2>3. Cardinality(InFlight') <= MaxConcurrentTurns
    BY <1>1, <2>1, <2>2, AddWithinLimit DEF CapsRespected
  <2>4. registered' = registered
    BY <1>8 DEF BeginTurn
  <2> QED BY <2>3, <2>4 DEF CapsRespected
<1>9. ASSUME NEW s \in SessionIds, NEW r \in RequestIds, EndTurn(s, r)
      PROVE  CapsRespected'
  BY <1>2, <1>9 DEF EndTurn, ClearSlots, InFlight, RegTypeOK
<1>10. ASSUME NEW s \in SessionIds, NEW bytes \in Sizes, BufferReserve(s, bytes)
       PROVE  CapsRespected'
  BY <1>2, <1>10 DEF BufferReserve, InFlight
<1>11. CASE DrainActiveTurns
  BY <1>2, <1>11 DEF DrainActiveTurns, ClearSlots, InFlight, RegTypeOK
<1> QED BY <1>4, <1>5, <1>6, <1>7, <1>8, <1>9, <1>10, <1>11 DEF RegNext

-----------------------------------------------------------------------------
(* The initial registry, empty, satisfies everything.                      *)
LEMMA RegInitCore ==
  ASSUME RegInit
  PROVE  RegCore /\ CapsRespected
<1> USE NoTurnAssumption, LimitsAssumption
<1>1. RegTypeOK
  BY SeqShapes DEF RegInit, RegTypeOK
<1>2. ActiveTurnReal /\ SlotHeld /\ BufferCapRespected
  BY DEF RegInit, ActiveTurnReal, SlotHeld, BufferCapRespected
<1>3. registered = {} /\ InFlight = {}
  BY DEF RegInit, InFlight
<1>4. CapsRespected
  BY <1>3, FS_EmptySet DEF CapsRespected
<1> QED BY <1>1, <1>2, <1>4 DEF RegCore

(* The invariant of the registry is inductive.                             *)
LEMMA RegStep ==
  ASSUME RegCore, CapsRespected, [RegNext]_regVars
  PROVE  RegCore' /\ CapsRespected'
<1>1. CASE RegNext
  BY <1>1, RegTypeStep, ActiveTurnRealStep, SlotHeldStep, BufferCapStep, CapsStep
     DEF RegCore
<1>2. CASE UNCHANGED regVars
  BY <1>2 DEF regVars, RegCore, RegTypeOK, ActiveTurnReal, SlotHeld,
     BufferCapRespected, CapsRespected, InFlight
<1> QED BY <1>1, <1>2

(* A turn is never lost silently in any single step: what SlotRelease-     *)
(* Accounted says of one transition.                                       *)
LEMMA SlotReleaseStep ==
  ASSUME RegTypeOK, ActiveTurnReal, [RegNext]_regVars,
         NEW s \in SessionIds, active[s] # NoTurn, active'[s] # active[s]
  PROVE  /\ active'[s] = NoTurn
         /\ active[s] \in cancelled' \union finished'
<1> USE NoTurnAssumption DEF RegTypeOK, ActiveTurnReal
<1>1. ASSUME NEW t \in SessionIds,
             \/ Create(t) \/ Resume(t) \/ CancelActiveTurn(t) \/ BufferWritten(t)
             \/ \E bytes \in Sizes : BufferReserve(t, bytes)
      PROVE  FALSE
  BY <1>1 DEF Create, Resume, Register, regVars, CancelActiveTurn, BufferWritten,
     BufferReserve
<1>2. ASSUME NEW t \in SessionIds, RemoveSession(t)
      PROVE  active'[s] = NoTurn /\ active[s] \in cancelled'
  BY <1>2 DEF RemoveSession, ClearSlots
<1>3. ASSUME NEW t \in SessionIds, NEW r \in RequestIds, BeginTurn(t, r)
      PROVE  FALSE
  BY <1>3 DEF BeginTurn, BeginTurnVerdict
<1>4. ASSUME NEW t \in SessionIds, NEW r \in RequestIds, EndTurn(t, r)
      PROVE  active'[s] = NoTurn /\ active[s] \in finished'
  BY <1>4 DEF EndTurn, ClearSlots
<1>5. CASE DrainActiveTurns
  BY <1>5 DEF DrainActiveTurns, ClearSlots, InFlight
<1>6. CASE UNCHANGED regVars
  BY <1>6 DEF regVars
<1> QED BY <1>1, <1>2, <1>3, <1>4, <1>5, <1>6 DEF RegNext

(* Under arbitrary callers, and for all limits, the registry stays well    *)
(* formed, keeps both of its caps and the byte cap, and never gives the    *)
(* slot of an unfinished, uncancelled turn away.                           *)
THEOREM RegistryInvariant ==
  RegSpec => [](RegTypeOK /\ ActiveTurnReal /\ SlotHeld /\ BufferCapRespected
                /\ CapsRespected)
<1>1. RegInit => RegCore /\ CapsRespected
  BY RegInitCore
<1>2. (RegCore /\ CapsRespected) /\ [RegNext]_regVars => (RegCore /\ CapsRespected)'
  BY RegStep
<1>3. RegCore <=> RegTypeOK /\ ActiveTurnReal /\ SlotHeld /\ BufferCapRespected
  BY DEF RegCore
<1> QED BY <1>1, <1>2, <1>3, PTL DEF RegSpec

(* What is reserved for a turn never exceeds the byte cap.                 *)
THEOREM RegistryByteCap == RegSpec => []BufferCapRespected
BY RegistryInvariant, PTL

(* Whatever order lines are reserved and written in, the byte counter of a *)
(* turn is the sum of its outstanding reservations.                        *)
THEOREM RegistryAccounting == RegSpec => []BufferAccounting
<1>1. RegInit => BufferAccounting
  <2>1. Total(<<>>) = 0
    <3>1. <<>> \in Seq(Nat)
      OBVIOUS
    <3> QED BY <3>1, TotalSteps
  <2> QED BY <2>1 DEF RegInit, BufferAccounting
<1>2. RegTypeOK /\ BufferAccounting /\ [RegNext]_regVars => BufferAccounting'
  <2>1. UNCHANGED regVars /\ BufferAccounting => BufferAccounting'
    BY DEF regVars, BufferAccounting
  <2> QED BY <2>1, BufferAccountingStep
<1>3. RegSpec => []RegTypeOK
  BY RegistryInvariant, PTL
<1> QED BY <1>1, <1>2, <1>3, PTL DEF RegSpec

(* A turn leaves its slot only through its own end_turn or through its     *)
(* cancellation token.                                                     *)
THEOREM RegistryReleases == RegSpec => SlotReleaseAccounted
<1>1. RegSpec => [](RegTypeOK /\ ActiveTurnReal)
  BY RegistryInvariant, PTL
<1>2. RegTypeOK /\ ActiveTurnReal /\ [RegNext]_regVars
      => [\A s \in SessionIds :
            active[s] # NoTurn /\ active'[s] # active[s] =>
              /\ active'[s] = NoTurn
              /\ active[s] \in cancelled' \union finished']_regVars
  BY SlotReleaseStep
<1> QED BY <1>1, <1>2, PTL DEF RegSpec, SlotReleaseAccounted
=============================================================================
