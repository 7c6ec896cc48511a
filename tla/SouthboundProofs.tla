-------------------------- MODULE SouthboundProofs --------------------------
(***************************************************************************)
(* The three ways a formation can be left running a turn nobody waits for  *)
(* are the only ones, for all sets of requests, whatever order the network *)
(* delivers in.                                                            *)
(***************************************************************************)
EXTENDS Southbound, TLAPS

(* Somebody still answers for r upstream, or it is known why nobody does.  *)
Settled(r) ==
  \/ dels[r] > 0 \/ r \in Explained
  \/ post[r] \in {"unsent", "lost"}
  \/ formation[r] \in {"stopped", "finished"}

(* The POST and the formation move together, and only a turn that was      *)
(* polled has a POST.                                                      *)
PostsInStep ==
  \A r \in Requests :
    /\ post[r] \in {"unsent", "wire", "lost"} <=> formation[r] = "unknown"
    /\ turn[r] \in {"unborn", "spawned"} => post[r] = "unsent"

(* A turn that still owes a cancel is one that shutdown will find.         *)
SlotsKept ==
  \A r \in Requests :
    main = "serving" /\ turn[r] \in {"spawned", "streaming", "left"} /\ r \notin token
      => r \in slots

(* A turn that is being cancelled, or that nobody waits for, is settled.   *)
CancelledSettled ==
  \A r \in Requests : r \in token \/ Deserted(r) => Settled(r)

IInv == TypeOK /\ PostsInStep /\ SlotsKept /\ CancelledSettled

(* Every action keeps the shapes.                                          *)
LEMMA TypeStep ==
  ASSUME TypeOK, [Next]_vars
  PROVE  TypeOK'
<1> USE MaxDeletesAssumption DEF TypeOK, network, process
<1>1. ASSUME NEW r \in Requests, Prompt(r) PROVE TypeOK'
  BY <1>1 DEF Prompt
<1>2. ASSUME NEW r \in Requests, HostCancels(r) PROVE TypeOK'
  BY <1>2 DEF HostCancels, SendDelete
<1>3. ASSUME NEW r \in Requests, HostCloses(r) PROVE TypeOK'
  BY <1>3 DEF HostCloses, SendDelete
<1>4. ASSUME NEW r \in Requests, SendPost(r) PROVE TypeOK'
  BY <1>4 DEF SendPost
<1>5. ASSUME NEW r \in Requests, SeesToken(r) PROVE TypeOK'
  BY <1>5 DEF SeesToken, TurnOver
<1>6. ASSUME NEW r \in Requests, GivesUp(r) PROVE TypeOK'
  BY <1>6 DEF GivesUp, TurnOver, SendDelete
<1>7. ASSUME NEW r \in Requests, StreamDone(r) PROVE TypeOK'
  BY <1>7 DEF StreamDone, TurnOver
<1>8. ASSUME NEW r \in Requests, StreamBreaks(r) PROVE TypeOK'
  BY <1>8 DEF StreamBreaks, TurnOver
<1>9. ASSUME NEW r \in Requests, SeesEof(r) PROVE TypeOK'
  BY <1>9 DEF SeesEof
<1>10. ASSUME NEW r \in Requests, PostArrives(r) PROVE TypeOK'
  BY <1>10 DEF PostArrives
<1>11. ASSUME NEW r \in Requests, PostLost(r) PROVE TypeOK'
  BY <1>11 DEF PostLost
<1>12. ASSUME NEW r \in Requests, DeleteArrives(r) PROVE TypeOK'
  BY <1>12 DEF DeleteArrives
<1>13. ASSUME NEW r \in Requests, DeleteLost(r) PROVE TypeOK'
  BY <1>13 DEF DeleteLost
<1>14. ASSUME NEW r \in Requests, FormationFinishes(r) PROVE TypeOK'
  BY <1>14 DEF FormationFinishes
<1>15. CASE HostHangsUp
  BY <1>15 DEF HostHangsUp
<1>16. CASE Shutdown
  <2>1. \A r \in slots : dels[r] + 1 \in 0 .. MaxDeletes
    BY <1>16 DEF Shutdown
  <2> QED BY <1>16, <2>1 DEF Shutdown
<1>17. CASE UNCHANGED vars
  BY <1>17 DEF vars
<1> QED BY <1>1, <1>2, <1>3, <1>4, <1>5, <1>6, <1>7, <1>8, <1>9, <1>10, <1>11,
        <1>12, <1>13, <1>14, <1>15, <1>16, <1>17 DEF Next, TurnStep, Network

(* Every action keeps the rest of the invariant.  Only the parts that the  *)
(* action touches are looked at, request by request.                       *)
LEMMA SettledStep ==
  ASSUME IInv, [Next]_vars
  PROVE  (PostsInStep /\ SlotsKept /\ CancelledSettled)'
<1> USE MaxDeletesAssumption
    DEF IInv, TypeOK, PostsInStep, SlotsKept, CancelledSettled, Settled, Deserted,
        Explained, network, process
<1> DEFINE Rest == PostsInStep /\ SlotsKept /\ CancelledSettled
<1>1. ASSUME NEW r \in Requests, Prompt(r) PROVE Rest'
  BY <1>1 DEF Prompt
<1>2. ASSUME NEW r \in Requests, HostCancels(r) PROVE Rest'
  BY <1>2 DEF HostCancels, SendDelete
<1>3. ASSUME NEW r \in Requests, HostCloses(r) PROVE Rest'
  BY <1>3 DEF HostCloses, SendDelete
<1>4. ASSUME NEW r \in Requests, SendPost(r) PROVE Rest'
  BY <1>4 DEF SendPost, Live
<1>5. ASSUME NEW r \in Requests, SeesToken(r) PROVE Rest'
  BY <1>5 DEF SeesToken, TurnOver, Live
<1>6. ASSUME NEW r \in Requests, GivesUp(r) PROVE Rest'
  BY <1>6 DEF GivesUp, TurnOver, SendDelete, Undisturbed, Live
<1>7. ASSUME NEW r \in Requests, StreamDone(r) PROVE Rest'
  BY <1>7 DEF StreamDone, TurnOver, Undisturbed, Live
<1>8. ASSUME NEW r \in Requests, StreamBreaks(r) PROVE Rest'
  BY <1>8 DEF StreamBreaks, TurnOver, Undisturbed, Live
<1>9. ASSUME NEW r \in Requests, SeesEof(r) PROVE Rest'
  BY <1>9 DEF SeesEof, Live
<1>10. ASSUME NEW r \in Requests, PostArrives(r) PROVE Rest'
  BY <1>10 DEF PostArrives
<1>11. ASSUME NEW r \in Requests, PostLost(r) PROVE Rest'
  BY <1>11 DEF PostLost
<1>12. ASSUME NEW r \in Requests, DeleteArrives(r) PROVE Rest'
  BY <1>12 DEF DeleteArrives
<1>13. ASSUME NEW r \in Requests, DeleteLost(r) PROVE Rest'
  BY <1>13 DEF DeleteLost
<1>14. ASSUME NEW r \in Requests, FormationFinishes(r) PROVE Rest'
  BY <1>14 DEF FormationFinishes
<1>15. CASE HostHangsUp
  BY <1>15 DEF HostHangsUp
<1>16. CASE Shutdown
  BY <1>16 DEF Shutdown
<1>17. CASE UNCHANGED vars
  BY <1>17 DEF vars
<1> QED BY <1>1, <1>2, <1>3, <1>4, <1>5, <1>6, <1>7, <1>8, <1>9, <1>10, <1>11,
        <1>12, <1>13, <1>14, <1>15, <1>16, <1>17 DEF Next, TurnStep, Network

(* IInv is an invariant.                                                   *)
LEMMA Invariance == Spec => []IInv
<1>1. Init => IInv
  BY MaxDeletesAssumption DEF Init, IInv, TypeOK, PostsInStep, SlotsKept,
     CancelledSettled, Settled, Deserted, Explained
<1>2. IInv /\ [Next]_vars => IInv'
  BY TypeStep, SettledStep DEF IInv
<1> QED BY <1>1, <1>2, PTL DEF Spec

(* The maps keep the shapes declared for them.                             *)
THEOREM SouthboundTypeCorrect == Spec => []TypeOK
<1>1. IInv => TypeOK
  BY DEF IInv
<1> QED BY <1>1, Invariance, PTL

(* A formation is left running a turn nobody waits for only where a DELETE *)
(* was overtaken or lost or the stream broke.                              *)
THEOREM OrphansOnlyThreeWays == Spec => []OrphansExplained
<1>1. IInv => OrphansExplained
  BY DEF IInv, TypeOK, PostsInStep, CancelledSettled, Settled, OrphansExplained
<1> QED BY <1>1, Invariance, PTL

(* A prompt cancelled before its first poll never reaches the formation.   *)
THEOREM EarlyCancelHarmless == Spec => CancelledEarlyNeverStarts
<1> DEFINE Early(r) == r \in token /\ post[r] = "unsent"
<1>1. ASSUME NEW r \in Requests
      PROVE  Spec => [](Early(r) => [](formation[r] = "unknown"))
  <2>1. IInv /\ Early(r) /\ [Next]_vars => Early(r)'
    <3> SUFFICES ASSUME IInv, Early(r), [Next]_vars PROVE Early(r)'
      OBVIOUS
    <3> USE DEF network, process
    <3>1. ASSUME NEW q \in Requests, TurnStep(q) PROVE Early(r)'
      BY <3>1 DEF TurnStep, SendPost, SeesToken, GivesUp, StreamDone, StreamBreaks,
         SeesEof, IInv, TypeOK
    <3>2. ASSUME NEW q \in Requests, Network(q) PROVE Early(r)'
      BY <3>2 DEF Network, PostArrives, PostLost, DeleteArrives, DeleteLost, IInv, TypeOK
    <3>3. ASSUME NEW q \in Requests,
                 Prompt(q) \/ HostCancels(q) \/ HostCloses(q) \/ FormationFinishes(q)
          PROVE  Early(r)'
      BY <3>3 DEF Prompt, HostCancels, HostCloses, FormationFinishes
    <3>4. ASSUME HostHangsUp \/ Shutdown \/ UNCHANGED vars PROVE Early(r)'
      BY <3>4 DEF HostHangsUp, Shutdown, vars
    <3> QED BY <3>1, <3>2, <3>3, <3>4 DEF Next
  <2>2. IInv /\ Early(r) => formation[r] = "unknown"
    BY DEF IInv, PostsInStep
  <2> QED BY <2>1, <2>2, Invariance, PTL DEF Spec
<1>2. Spec => \A r \in Requests : [](Early(r) => [](formation[r] = "unknown"))
  BY <1>1
<1> QED BY <1>2 DEF CancelledEarlyNeverStarts
=============================================================================
