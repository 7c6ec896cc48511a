---------------------------- MODULE TurnContract ----------------------------
(***************************************************************************)
(* What the bridge promises an ACP host about prompt turns, with nothing   *)
(* of how: binding spec 3 and 8 as agent.rs and session.rs state them.     *)
(*   - a session has at most one turn running, the bridge at most Cap;     *)
(*   - a turn that was accepted ends once, with one result or, when the    *)
(*     connection goes, with none;                                         *)
(*   - once a turn is asked to stop it ends cancelled and nothing else     *)
(*     (or with no result), and only such a turn ends cancelled.           *)
(***************************************************************************)
EXTENDS Integers, FiniteSets

CONSTANTS Sessions, Requests, Cap, Nowhere, Results

VARIABLES
  phase,   (* of each request: unborn, running, stopping or over              *)
  place,   (* the session of each request                                     *)
  result   (* what the host was answered                                      *)

cvars == <<phase, place, result>>

Running == {r \in Requests : phase[r] = "running"}

ContractInit ==
  /\ phase = [r \in Requests |-> "unborn"]
  /\ place = [r \in Requests |-> Nowhere]
  /\ result = [r \in Requests |-> "none"]

Accept(r, s) ==
  /\ phase[r] = "unborn"
  /\ \A q \in Running : place[q] # s
  /\ Cardinality(Running) < Cap
  /\ phase' = [phase EXCEPT ![r] = "running"]
  /\ place' = [place EXCEPT ![r] = s]
  /\ UNCHANGED result

Stop(r) ==
  /\ phase[r] = "running"
  /\ phase' = [phase EXCEPT ![r] = "stopping"]
  /\ UNCHANGED <<place, result>>

Outcomes(r) ==
  CASE phase[r] = "running"  -> Results
    [] phase[r] = "stopping" -> {"cancelled"}
    [] OTHER -> {}

Finish(r) ==
  /\ phase[r] \in {"running", "stopping"}
  /\ phase' = [phase EXCEPT ![r] = "over"]
  /\ \E outcome \in Outcomes(r) : result' = [result EXCEPT ![r] = outcome]
  /\ UNCHANGED place

(* One turn that the host will not be answered: it hung up, or the send    *)
(* failed.                                                                 *)
Abandon(r) ==
  /\ phase[r] \in {"running", "stopping"}
  /\ phase' = [phase EXCEPT ![r] = "over"]
  /\ UNCHANGED <<place, result>>

(* A prompt that was accepted and never started.                           *)
Stillborn(r, s) ==
  /\ phase[r] = "unborn"
  /\ phase' = [phase EXCEPT ![r] = "over"]
  /\ place' = [place EXCEPT ![r] = s]
  /\ UNCHANGED result

(* The process stops serving with turns in progress.                       *)
AbandonAll ==
  /\ phase' = [r \in Requests |->
                 IF phase[r] \in {"running", "stopping"} THEN "over" ELSE phase[r]]
  /\ UNCHANGED <<place, result>>

ContractNext ==
  \/ \E r \in Requests :
       \/ \E s \in Sessions : Accept(r, s) \/ Stillborn(r, s)
       \/ Stop(r) \/ Finish(r) \/ Abandon(r)
  \/ AbandonAll

ContractSpec == ContractInit /\ [][ContractNext]_cvars
=============================================================================
