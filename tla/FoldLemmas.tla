------------------------------ MODULE FoldLemmas ------------------------------
(***************************************************************************)
(* What the proofs keep needing of numbers and sequences: the least and    *)
(* the greatest of a set of positions, induction up to a bound, and what   *)
(* FoldLeft does to a sequence, one element after the other.  A fold is    *)
(* given by its step as a function, so that these facts can be cited.      *)
(***************************************************************************)
EXTENDS Integers, Sequences, SequencesExt, WellFoundedInduction, TLAPS

(* A set of naturals that is not empty has a least element, and Min is it. *)
LEMMA MinOfNats ==
  ASSUME NEW S \in SUBSET Nat, S # {}
  PROVE  Min(S) \in S /\ \A i \in S : Min(S) <= i
<1> DEFINE less == {p \in Nat \X Nat : p[1] < p[2]}
<1>0. OpToRel(<, Nat) = less
  BY DEF OpToRel
<1>1. IsWellFoundedOn(less, Nat)
  BY NatLessThanWellFounded, <1>0
<1>2. PICK m \in S : \A i \in S : ~ (<<i, m>> \in less)
  <2> HIDE DEF less
  <2> QED BY <1>1, WFMin
<1>3. ASSUME NEW i \in S PROVE m <= i
  <2>1. i \in Nat /\ m \in Nat
    OBVIOUS
  <2>2. i < m => <<i, m>> \in less
    BY <2>1
  <2>3. ~ (i < m)
    BY <1>2, <2>2
  <2> QED BY <2>1, <2>3
<1> QED BY <1>3 DEF Min

(* Min of a set is the one element that is least in it.                    *)
LEMMA MinIs ==
  ASSUME NEW S \in SUBSET Nat, NEW m \in S, \A i \in S : m <= i
  PROVE  Min(S) = m
<1>1. \A i \in S : (\A j \in S : i <= j) => i = m
  OBVIOUS
<1> QED BY <1>1 DEF Min

(* Adding what is greater leaves the least element alone.                  *)
LEMMA MinOfMore ==
  ASSUME NEW S \in SUBSET Nat, S # {}, NEW T \in SUBSET Nat, S \subseteq T,
         \A i \in T \ S, j \in S : j <= i
  PROVE  Min(T) = Min(S)
<1>1. Min(S) \in S /\ \A i \in S : Min(S) <= i
  BY MinOfNats
<1>2. \A i \in T : Min(S) <= i
  BY <1>1
<1> QED BY <1>1, <1>2, MinIs

(* A set of numbers up to n that is not empty has a greatest one: Max.     *)
LEMMA MaxOfBounded ==
  ASSUME NEW n \in Nat, NEW S \in SUBSET (1 .. n), S # {}
  PROVE  Max(S) \in S /\ \A i \in S : i <= Max(S)
<1> DEFINE T == {k \in 0 .. n : n - k \in S}
<1>1. \A i \in S : n - i \in T
  OBVIOUS
<1>2. T \in SUBSET Nat /\ T # {}
  <2>1. PICK i \in S : TRUE
    OBVIOUS
  <2>2. n - i \in T
    BY <1>1
  <2>3. T \in SUBSET Nat
    OBVIOUS
  <2> HIDE DEF T
  <2> QED BY <2>2, <2>3
<1>3. PICK least \in T : \A j \in T : least <= j
  <2> HIDE DEF T
  <2> QED BY <1>2, MinOfNats
<1>4. n - least \in S
  OBVIOUS
<1>5. \A i \in S : i <= n - least
  BY <1>1, <1>3
<1> HIDE DEF T
<1> QED BY <1>4, <1>5 DEF Max

(* Max of a set is the one element that is greatest in it.                 *)
LEMMA MaxIs ==
  ASSUME NEW S \in SUBSET Nat, NEW m \in S, \A i \in S : i <= m
  PROVE  Max(S) = m
<1>1. \A i \in S : (\A j \in S : j <= i) => i = m
  OBVIOUS
<1> QED BY <1>1 DEF Max

-----------------------------------------------------------------------------
(* Induction up to n, for a set of numbers.                                *)
LEMMA UpwardsTo ==
  ASSUME NEW n \in Nat, NEW T, 0 \in T, \A k \in 1 .. n : k - 1 \in T => k \in T
  PROVE  0 .. n \subseteq T
<1> DEFINE Missing == {k \in 0 .. n : k \notin T}
<1> SUFFICES ASSUME Missing # {} PROVE FALSE
  OBVIOUS
<1>1. PICK m \in Missing : \A k \in Missing : m <= k
  <2>1. Missing \in SUBSET Nat
    OBVIOUS
  <2> HIDE DEF Missing
  <2> QED BY <2>1, MinOfNats
<1>2. m \in 1 .. n
  OBVIOUS
<1>3. m - 1 \in 0 .. n /\ ~ (m <= m - 1)
  BY <1>2
<1>4. m - 1 \in T
  BY <1>1, <1>3
<1> QED BY <1>2, <1>4

(* Folds over sequences, given by a step function.                         *)
Folding(V, E, step, base) == step \in [V \X E -> V] /\ base \in V

(* FoldLeft is written with a function on the sets of positions: on those  *)
(* up to k.                                                                *)
Unfolds(V, step, base, s, k, f) ==
  /\ f \in [SUBSET (1 .. k) -> V]
  /\ \A S \in SUBSET (1 .. k) :
       f[S] = IF S = {} THEN base ELSE step[<<f[S \ {Max(S)}], s[Max(S)]>>]

(* There is one, for every fold.                                           *)
LEMMA UnfoldsExists ==
  ASSUME NEW V, NEW E, NEW step, NEW base, Folding(V, E, step, base), NEW s \in Seq(E)
  PROVE  \E f : Unfolds(V, step, base, s, Len(s), f)
<1>0. /\ step \in [V \X E -> V] /\ base \in V
      /\ Len(s) \in Nat /\ s \in [1 .. Len(s) -> E]
  BY DEF Folding
<1> SUFFICES ASSUME NEW n \in Nat, n = Len(s), s \in [1 .. n -> E]
             PROVE  \E f \in [SUBSET (1 .. n) -> V] :
                      \A S \in SUBSET (1 .. n) :
                        f[S] = IF S = {} THEN base
                               ELSE step[<<f[S \ {Max(S)}], s[Max(S)]>>]
  BY <1>0 DEF Unfolds
<1> USE <1>0
<1> DEFINE Iter(k, f) ==
             \A S \in SUBSET (1 .. k) :
               f[S] = IF S = {} THEN base ELSE step[<<f[S \ {Max(S)}], s[Max(S)]>>]
           T == {k \in 0 .. n : \E f \in [SUBSET (1 .. k) -> V] : Iter(k, f)}
<1>1. 0 \in T
  <2> DEFINE f == [S \in SUBSET (1 .. 0) |-> base]
  <2>1. \A S \in SUBSET (1 .. 0) : S = {}
    OBVIOUS
  <2>2. f \in [SUBSET (1 .. 0) -> V]
    OBVIOUS
  <2>3. Iter(0, f)
    BY <2>1
  <2>4. 0 \in 0 .. n
    OBVIOUS
  <2> HIDE DEF f, Iter
  <2> QED BY <2>2, <2>3, <2>4
<1>2. ASSUME NEW k \in 1 .. n, k - 1 \in T PROVE k \in T
  <2>1. PICK f \in [SUBSET (1 .. k - 1) -> V] : Iter(k - 1, f)
    BY <1>2
  <2> DEFINE g == [S \in SUBSET (1 .. k) |->
                     IF k \in S THEN step[<<f[S \ {k}], s[k]>>] ELSE f[S]]
  <2>2. ASSUME NEW S \in SUBSET (1 .. k)
        PROVE  /\ k \notin S => S \in SUBSET (1 .. k - 1)
               /\ S \ {k} \in SUBSET (1 .. k - 1)
    OBVIOUS
  <2>3. ASSUME NEW S \in SUBSET (1 .. k) PROVE g[S] \in V
    <3>1. CASE k \in S
      <4>1. f[S \ {k}] \in V /\ s[k] \in E
        BY <2>2
      <4> QED BY <3>1, <4>1
    <3>2. CASE k \notin S
      BY <2>2, <3>2
    <3> QED BY <3>1, <3>2
  <2>4. g \in [SUBSET (1 .. k) -> V]
    <3>1. g = [S \in SUBSET (1 .. k) |-> g[S]]
      OBVIOUS
    <3> HIDE DEF g
    <3> QED BY <2>3, <3>1
  <2>5. ASSUME NEW S \in SUBSET (1 .. k), S # {}
        PROVE  g[S] = step[<<g[S \ {Max(S)}], s[Max(S)]>>]
    <3>0. k \in Nat
      OBVIOUS
    <3>1. Max(S) \in S /\ \A i \in S : i <= Max(S)
      <4> HIDE DEF g
      <4> QED BY <2>5, <3>0, MaxOfBounded
    <3>2. CASE k \in S
      <4>1. Max(S) = k
        <5> HIDE DEF g
        <5>1. Max(S) \in 1 .. k /\ k <= Max(S)
          BY <3>1, <3>2
        <5> QED BY <5>1
      <4>2. g[S \ {k}] = f[S \ {k}]
        BY <2>2
      <4> QED BY <3>2, <4>1, <4>2
    <3>3. CASE k \notin S
      <4>1. S \in SUBSET (1 .. k - 1) /\ S \ {Max(S)} \in SUBSET (1 .. k - 1)
        BY <2>2, <3>3
      <4>2. g[S] = f[S] /\ g[S \ {Max(S)}] = f[S \ {Max(S)}]
        BY <3>3, <4>1
      <4>3. f[S] = step[<<f[S \ {Max(S)}], s[Max(S)]>>]
        BY <2>1, <2>5, <4>1
      <4> QED BY <4>2, <4>3
    <3> QED BY <3>2, <3>3
  <2>6. g[{}] = base
    <3>1. {} \in SUBSET (1 .. k) /\ {} \in SUBSET (1 .. k - 1) /\ k \notin {}
      OBVIOUS
    <3>2. g[{}] = f[{}]
      BY <3>1
    <3> QED BY <2>1, <3>1, <3>2
  <2>7. Iter(k, g)
    <3> HIDE DEF g
    <3> QED BY <2>5, <2>6
  <2> HIDE DEF g, Iter
  <2> QED BY <2>4, <2>7
<1>3. n \in T
  <2>1. \A k \in 1 .. n : k - 1 \in T => k \in T
    <3> HIDE DEF T
    <3> QED BY <1>2
  <2> HIDE DEF T
  <2>2. n \in 0 .. n
    OBVIOUS
  <2> QED BY <1>1, <2>1, <2>2, UpwardsTo
<1> QED BY <1>3

(* What a fold goes through on a sequence, and where it ends.               *)
Through(step, base, s, p) ==
  /\ p[0] = base
  /\ \A i \in 1 .. Len(s) : p[i] = step[<<p[i - 1], s[i]>>]

Fold(step, base, s) == CHOOSE v : \E p : Through(step, base, s, p) /\ v = p[Len(s)]

(* Every fold goes through some values, all of its type.                   *)
LEMMA ThroughExists ==
  ASSUME NEW V, NEW E, NEW step, NEW base, Folding(V, E, step, base), NEW s \in Seq(E)
  PROVE  \E p \in [0 .. Len(s) -> V] : Through(step, base, s, p)
<1> DEFINE Upto(k, p) == /\ p[0] = base
                         /\ \A i \in 1 .. k : p[i] = step[<<p[i - 1], s[i]>>]
           T == {k \in 0 .. Len(s) : \E p \in [0 .. k -> V] : Upto(k, p)}
<1>0. Len(s) \in Nat /\ step \in [V \X E -> V] /\ base \in V
  BY DEF Folding
<1>1. 0 \in T
  <2> DEFINE p == [i \in 0 .. 0 |-> base]
  <2>1. p \in [0 .. 0 -> V] /\ Upto(0, p)
    BY <1>0
  <2>2. 0 \in 0 .. Len(s)
    BY <1>0
  <2> HIDE DEF p, Upto
  <2> QED BY <2>1, <2>2
<1>2. ASSUME NEW k \in 1 .. Len(s), k - 1 \in T PROVE k \in T
  <2>1. PICK p \in [0 .. k - 1 -> V] : Upto(k - 1, p)
    BY <1>2
  <2>2. p[k - 1] \in V /\ s[k] \in E
    BY <1>0
  <2> DEFINE q == [i \in 0 .. k |-> IF i = k THEN step[<<p[k - 1], s[k]>>] ELSE p[i]]
  <2>3. q \in [0 .. k -> V]
    BY <1>0, <2>2
  <2>4. Upto(k, q)
    <3>1. ASSUME NEW i \in 1 .. k PROVE q[i] = step[<<q[i - 1], s[i]>>]
      <4>1. i \in 0 .. k /\ i - 1 \in 0 .. k /\ i - 1 # k
        OBVIOUS
      <4>2. q[i - 1] = p[i - 1]
        BY <4>1
      <4>3. CASE i = k
        BY <4>1, <4>2, <4>3
      <4>4. CASE i # k
        <5>1. i \in 1 .. k - 1
          BY <4>4
        <5>2. q[i] = p[i]
          BY <4>1, <4>4
        <5> QED BY <2>1, <4>2, <5>1, <5>2
      <4> QED BY <4>3, <4>4
    <3>2. q[0] = base
      BY <2>1
    <3> HIDE DEF q
    <3> QED BY <3>1, <3>2
  <2>5. k \in 0 .. Len(s)
    OBVIOUS
  <2> HIDE DEF q, Upto
  <2> QED BY <2>3, <2>4, <2>5
<1>3. Len(s) \in T
  <2> HIDE DEF T
  <2>1. 0 .. Len(s) \subseteq T
    BY <1>0, <1>1, <1>2, UpwardsTo
  <2> QED BY <1>0, <2>1
<1> QED BY <1>3 DEF Through

(* They are determined up to every position at which the sequences agree.  *)
LEMMA ThroughUnique ==
  ASSUME NEW step, NEW base, NEW S, NEW T, NEW s \in Seq(S), NEW t \in Seq(T),
         NEW p, Through(step, base, s, p), NEW q, Through(step, base, t, q),
         NEW n \in Nat, n <= Len(s), n <= Len(t),
         \A i \in 1 .. n : s[i] = t[i]
  PROVE  p[n] = q[n]
<1> DEFINE Same == {k \in 0 .. n : p[k] = q[k]}
<1>1. 0 \in Same
  BY DEF Through
<1>2. ASSUME NEW k \in 1 .. n, k - 1 \in Same PROVE k \in Same
  <2>1. k \in 1 .. Len(s) /\ k \in 1 .. Len(t) /\ k \in 0 .. n
    <3>1. Len(s) \in Nat /\ Len(t) \in Nat
      OBVIOUS
    <3> QED BY <3>1
  <2>2. p[k] = step[<<p[k - 1], s[k]>>] /\ q[k] = step[<<q[k - 1], t[k]>>]
    BY <2>1 DEF Through
  <2>3. p[k - 1] = q[k - 1] /\ s[k] = t[k]
    BY <1>2
  <2> QED BY <2>1, <2>2, <2>3
<1>3. n \in Same
  <2> HIDE DEF Same
  <2>1. 0 .. n \subseteq Same
    BY <1>1, <1>2, UpwardsTo
  <2>2. n \in 0 .. n
    OBVIOUS
  <2> QED BY <2>1, <2>2
<1> QED BY <1>3 DEF Same

(* So the fold ends where any such values end.                             *)
LEMMA FoldIs ==
  ASSUME NEW step, NEW base, NEW S, NEW s \in Seq(S), NEW p, Through(step, base, s, p)
  PROVE  Fold(step, base, s) = p[Len(s)]
<1>1. \A q : Through(step, base, s, q) => q[Len(s)] = p[Len(s)]
  <2> SUFFICES ASSUME NEW q, Through(step, base, s, q) PROVE q[Len(s)] = p[Len(s)]
    OBVIOUS
  <2>1. Len(s) \in Nat
    OBVIOUS
  <2> QED BY <2>1, ThroughUnique
<1> QED BY <1>1 DEF Fold

(* What a fold makes of no element,                                        *)
LEMMA FoldEmpty ==
  ASSUME NEW V, NEW E, NEW step, NEW base, Folding(V, E, step, base)
  PROVE  Fold(step, base, <<>>) = base
<1>1. <<>> \in Seq(E) /\ Len(<<>>) = 0
  OBVIOUS
<1>2. PICK p : Through(step, base, <<>>, p)
  BY <1>1, ThroughExists
<1>3. Fold(step, base, <<>>) = p[0]
  BY <1>1, <1>2, FoldIs
<1> QED BY <1>2, <1>3 DEF Through

(* ... of any: a value of its type,                                        *)
LEMMA FoldType ==
  ASSUME NEW V, NEW E, NEW step, NEW base, Folding(V, E, step, base), NEW s \in Seq(E)
  PROVE  Fold(step, base, s) \in V
<1>1. PICK p \in [0 .. Len(s) -> V] : Through(step, base, s, p)
  BY ThroughExists
<1>2. Fold(step, base, s) = p[Len(s)]
  BY <1>1, FoldIs
<1> QED BY <1>2

(* ... of one more,                                                        *)
LEMMA FoldAppend ==
  ASSUME NEW V, NEW E, NEW step, NEW base, Folding(V, E, step, base), NEW s \in Seq(E),
         NEW x \in E
  PROVE  Fold(step, base, Append(s, x)) = step[<<Fold(step, base, s), x>>]
<1> DEFINE t == Append(s, x)
<1>1. /\ t \in Seq(E) /\ Len(s) \in Nat /\ Len(t) = Len(s) + 1 /\ t[Len(t)] = x
      /\ \A i \in 1 .. Len(s) : t[i] = s[i]
  OBVIOUS
<1> HIDE DEF t
<1>2. PICK p : Through(step, base, s, p)
  BY ThroughExists
<1>3. PICK q : Through(step, base, t, q)
  BY <1>1, ThroughExists
<1>4. Fold(step, base, s) = p[Len(s)] /\ Fold(step, base, t) = q[Len(t)]
  BY <1>1, <1>2, <1>3, FoldIs
<1>5. q[Len(s)] = p[Len(s)]
  <2>1. Len(s) <= Len(s) /\ Len(s) <= Len(t)
    BY <1>1
  <2> QED BY <1>1, <1>2, <1>3, <2>1, ThroughUnique
<1>6. Len(t) \in 1 .. Len(t) /\ Len(t) - 1 = Len(s)
  BY <1>1
<1>7. q[Len(t)] = step[<<q[Len(t) - 1], t[Len(t)]>>]
  BY <1>3, <1>6 DEF Through
<1> QED BY <1>1, <1>4, <1>5, <1>6, <1>7 DEF t

(* ... and of the first.                                                   *)
LEMMA FoldFirst ==
  ASSUME NEW V, NEW E, NEW step, NEW base, Folding(V, E, step, base), NEW s \in Seq(E),
         s # <<>>
  PROVE  Fold(step, base, s) = Fold(step, step[<<base, Head(s)>>], Tail(s))
<1>1. PICK p : Through(step, base, s, p)
  BY ThroughExists
<1>2. Fold(step, base, s) = p[Len(s)]
  BY <1>1, FoldIs
<1> DEFINE t == Tail(s)
           q == [i \in 0 .. Len(t) |-> p[i + 1]]
<1>3. /\ t \in Seq(E) /\ Len(t) \in Nat /\ Len(s) = Len(t) + 1 /\ Head(s) = s[1]
      /\ \A i \in 1 .. Len(t) : t[i] = s[i + 1]
  OBVIOUS
<1> HIDE DEF t
<1>4. q[0] = step[<<base, Head(s)>>]
  <2>1. 1 \in 1 .. Len(s) /\ 0 \in 0 .. Len(t)
    BY <1>3
  <2> QED BY <1>1, <1>3, <2>1 DEF Through
<1>5. ASSUME NEW i \in 1 .. Len(t) PROVE q[i] = step[<<q[i - 1], t[i]>>]
  <2>1. i + 1 \in 1 .. Len(s) /\ i \in 0 .. Len(t) /\ i - 1 \in 0 .. Len(t)
    BY <1>3
  <2>2. (i + 1) - 1 = i /\ (i - 1) + 1 = i
    OBVIOUS
  <2>3. p[i + 1] = step[<<p[i], s[i + 1]>>]
    BY <1>1, <2>1, <2>2 DEF Through
  <2> QED BY <1>3, <2>1, <2>2, <2>3
<1>6. q[Len(t)] = p[Len(s)]
  BY <1>3
<1> HIDE DEF q
<1>7. Through(step, step[<<base, Head(s)>>], t, q)
  BY <1>4, <1>5 DEF Through
<1>8. Fold(step, step[<<base, Head(s)>>], t) = q[Len(t)]
  BY <1>3, <1>7, FoldIs
<1> QED BY <1>2, <1>6, <1>8 DEF t

(* Two folds over the same sequence stay related when each step keeps them *)
(* related.                                                                *)
Related(V, W, E, step, move, R) ==
  \A v \in V, w \in W, x \in E :
    <<v, w>> \in R => <<step[<<v, x>>], move[<<w, x>>]>> \in R

(* ... from where they start to where they end.                            *)
LEMMA FoldRelated ==
  ASSUME NEW V, NEW E, NEW step, NEW base, Folding(V, E, step, base),
         NEW W, NEW move, NEW start, Folding(W, E, move, start),
         NEW R, <<base, start>> \in R, Related(V, W, E, step, move, R),
         NEW s \in Seq(E)
  PROVE  <<Fold(step, base, s), Fold(move, start, s)>> \in R
<1>1. PICK p \in [0 .. Len(s) -> V] : Through(step, base, s, p)
  BY ThroughExists
<1>2. PICK q \in [0 .. Len(s) -> W] : Through(move, start, s, q)
  BY ThroughExists
<1>3. Fold(step, base, s) = p[Len(s)] /\ Fold(move, start, s) = q[Len(s)]
  BY <1>1, <1>2, FoldIs
<1> DEFINE T == {k \in 0 .. Len(s) : <<p[k], q[k]>> \in R}
<1>4. 0 \in T
  <2>1. 0 \in 0 .. Len(s)
    OBVIOUS
  <2> QED BY <1>1, <1>2, <2>1 DEF Through
<1>5. ASSUME NEW k \in 1 .. Len(s), k - 1 \in T PROVE k \in T
  <2>1. k \in 0 .. Len(s) /\ k - 1 \in 0 .. Len(s) /\ s[k] \in E
    OBVIOUS
  <2>2. p[k] = step[<<p[k - 1], s[k]>>] /\ q[k] = move[<<q[k - 1], s[k]>>]
    BY <1>1, <1>2 DEF Through
  <2>3. p[k - 1] \in V /\ q[k - 1] \in W /\ <<p[k - 1], q[k - 1]>> \in R
    BY <1>5, <2>1
  <2>4. <<p[k], q[k]>> \in R
    BY <2>1, <2>2, <2>3 DEF Related
  <2> QED BY <2>1, <2>4
<1>6. Len(s) \in T
  <2> HIDE DEF T
  <2>0. Len(s) \in Nat /\ \A k \in 1 .. Len(s) : k - 1 \in T => k \in T
    BY <1>5
  <2>1. 0 .. Len(s) \subseteq T
    BY <1>4, <2>0, UpwardsTo
  <2>2. Len(s) \in 0 .. Len(s)
    BY <2>0
  <2> QED BY <2>1, <2>2
<1> QED BY <1>3, <1>6

(* Such a function, or one that goes the same way while it stays in V.     *)
Reaches(V, step, base, s, iter) ==
  /\ iter[{}] = base
  /\ \A S \in SUBSET (1 .. Len(s)) :
       S # {} /\ iter[S \ {Max(S)}] \in V =>
         iter[S] = step[<<iter[S \ {Max(S)}], s[Max(S)]>>]

(* Its values on the prefixes are what the fold goes through.              *)
LEMMA ReachesThrough ==
  ASSUME NEW V, NEW E, NEW step, NEW base, Folding(V, E, step, base), NEW s \in Seq(E),
         NEW iter, Reaches(V, step, base, s, iter)
  PROVE  \E p : Through(step, base, s, p) /\ iter[1 .. Len(s)] = p[Len(s)]
<1>0. /\ step \in [V \X E -> V] /\ base \in V
      /\ Len(s) \in Nat /\ s \in [1 .. Len(s) -> E]
  BY DEF Folding
<1> SUFFICES ASSUME NEW n \in Nat, n = Len(s), s \in [1 .. n -> E],
                    iter[{}] = base,
                    \A S \in SUBSET (1 .. n) :
                      S # {} /\ iter[S \ {Max(S)}] \in V =>
                        iter[S] = step[<<iter[S \ {Max(S)}], s[Max(S)]>>]
             PROVE  \E p \in [0 .. n -> V] :
                      /\ p[0] = base
                      /\ \A i \in 1 .. n : p[i] = step[<<p[i - 1], s[i]>>]
                      /\ iter[1 .. n] = p[n]
  BY <1>0 DEF Through, Reaches
<1> USE <1>0
<1> DEFINE T == {k \in 0 .. n : iter[1 .. k] \in V}
           p == [k \in 0 .. n |-> iter[1 .. k]]
<1>1. ASSUME NEW k \in 1 .. n
      PROVE  /\ 1 .. k \in SUBSET (1 .. n) /\ 1 .. k # {}
             /\ Max(1 .. k) = k /\ (1 .. k) \ {Max(1 .. k)} = 1 .. k - 1
  <2>1. k \in Nat /\ k \in 1 .. k /\ 1 .. k \in SUBSET (1 .. k)
    OBVIOUS
  <2>2. Max(1 .. k) \in 1 .. k /\ k <= Max(1 .. k)
    BY <2>1, MaxOfBounded
  <2>3. Max(1 .. k) = k
    BY <2>2
  <2>4. (1 .. k) \ {k} = 1 .. k - 1
    BY <2>1
  <2>5. 1 .. k \in SUBSET (1 .. n)
    OBVIOUS
  <2> QED BY <2>1, <2>3, <2>4, <2>5
<1>2. ASSUME NEW k \in 1 .. n, iter[1 .. k - 1] \in V
      PROVE  /\ iter[1 .. k] = step[<<iter[1 .. k - 1], s[k]>>]
             /\ iter[1 .. k] \in V
  <2>1. iter[1 .. k] = step[<<iter[1 .. k - 1], s[k]>>]
    BY <1>1, <1>2
  <2>2. s[k] \in E
    OBVIOUS
  <2> QED BY <1>2, <2>1, <2>2
<1>3. 0 \in T
  <2>1. 1 .. 0 = {}
    OBVIOUS
  <2> QED BY <2>1
<1>4. 0 .. n \subseteq T
  <2>1. ASSUME NEW k \in 1 .. n, k - 1 \in T PROVE k \in T
    <3>1. iter[1 .. k - 1] \in V
      BY <2>1
    <3>2. iter[1 .. k] \in V
      BY <1>2, <3>1
    <3> QED BY <3>2
  <2> HIDE DEF T
  <2> QED BY <1>3, <2>1, UpwardsTo
<1>5. \A k \in 0 .. n : iter[1 .. k] \in V
  BY <1>4
<1>6. p \in [0 .. n -> V]
  BY <1>5
<1>7. p[0] = base
  <2>1. 1 .. 0 = {}
    OBVIOUS
  <2> QED BY <2>1
<1>8. ASSUME NEW i \in 1 .. n PROVE p[i] = step[<<p[i - 1], s[i]>>]
  <2>1. i - 1 \in 0 .. n /\ i \in 0 .. n
    OBVIOUS
  <2> QED BY <1>2, <1>5, <2>1
<1>9. iter[1 .. n] = p[n]
  OBVIOUS
<1> HIDE DEF p
<1> QED BY <1>6, <1>7, <1>8, <1>9

(* ... and any, on all positions, is the fold.                             *)
LEMMA UnfoldsFold ==
  ASSUME NEW V, NEW E, NEW step, NEW base, Folding(V, E, step, base), NEW s \in Seq(E),
         NEW iter, Reaches(V, step, base, s, iter)
  PROVE  iter[1 .. Len(s)] = Fold(step, base, s)
<1>1. PICK p : Through(step, base, s, p) /\ iter[1 .. Len(s)] = p[Len(s)]
  BY ReachesThrough
<1> QED BY <1>1, FoldIs

(* The last element of a set of positions.                                 *)
LEMMA LastPosition ==
  ASSUME NEW E, NEW s \in Seq(E), NEW S \in SUBSET (1 .. Len(s)), S # {}
  PROVE  s[Max(S)] \in E /\ S \ {Max(S)} \in SUBSET (1 .. Len(s))
<1>1. Len(s) \in Nat /\ S \in SUBSET (1 .. Len(s))
  OBVIOUS
<1>2. Max(S) \in S
  BY <1>1, MaxOfBounded
<1>3. Max(S) \in 1 .. Len(s)
  BY <1>2
<1>4. s[Max(S)] \in E
  BY <1>3
<1> QED BY <1>4
=============================================================================
