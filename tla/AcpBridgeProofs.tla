--------------------------- MODULE AcpBridgeProofs ---------------------------
(***************************************************************************)
(* The bridge's invariants, for all sets of sessions and requests and all  *)
(* limits: who holds a slot and what a turn is answered; the contract the  *)
(* bridge implements; who tells the formation; and what is queued for the  *)
(* host.                                                                   *)
(*                                                                         *)
(* The first argument has three stages.  Every step of the bridge is a     *)
(* step of the registry, so the registry's invariants carry over; every    *)
(* step has one of the few shapes below as far as slots, tokens, futures   *)
(* and answers go; and each shape preserves the inductive invariant Inv.   *)
(***************************************************************************)
EXTENDS AcpBridge, SessionRegistryProofs

(* A turn is begun when its future is spawned, with its session captured.  *)
Captured ==
  \A r \in RequestIds :
    /\ task[r] = "unborn" <=> r \notin begun
    /\ r \in begun => owner[r] \in SessionIds

-----------------------------------------------------------------------------
(* Stage one.                                                              *)

(* A line at the head of the queue names a session and a request.          *)
LEMMA HeadLine ==
  ASSUME outgoing \in Seq(Lines), outgoing # <<>>
  PROVE  Head(outgoing).session \in SessionIds /\ Tail(outgoing) \in Seq(Lines)
<1>1. Head(outgoing) \in Lines /\ Tail(outgoing) \in Seq(Lines)
  BY SeqShapes
<1> QED BY <1>1 DEF Lines

(* Breaking the loop of a live turn is an end_turn call for the session it *)
(* captured.                                                               *)
LEMMA BreakEndsTurn ==
  ASSUME Captured, NEW r \in RequestIds, Live(r), BreakTurn(r)
  PROVE  owner[r] \in SessionIds /\ EndTurn(owner[r], r) /\ RegNext
<1>1. r \in begun
  BY DEF Captured, Live
<1>2. owner[r] \in SessionIds /\ EndTurn(owner[r], r)
  BY <1>1 DEF Captured, BreakTurn
<1> QED BY <1>2 DEF RegNext

(* The handlers act on the registry through its operations only.           *)
LEMMA HandlersUseRegistry ==
  ASSUME Handlers
  PROVE  [RegNext]_regVars
<1>1. PICK s \in SessionIds :
        \/ HandleNewSession(s) \/ HandleResume(s)
        \/ HandleCancel(s) \/ HandleClose(s)
        \/ \E r \in RequestIds, textOnly \in BOOLEAN : HandlePrompt(s, r, textOnly)
  BY DEF Handlers
<1>2. CASE HandleNewSession(s)
  <2>1. UNCHANGED regVars \/ Create(s)
    BY <1>2 DEF HandleNewSession
  <2> QED BY <2>1 DEF RegNext
<1>3. CASE HandleResume(s)
  <2>1. UNCHANGED regVars \/ Resume(s)
    BY <1>3 DEF HandleResume
  <2> QED BY <2>1 DEF RegNext
<1>4. CASE HandleCancel(s)
  <2>1. CancelActiveTurn(s)
    BY <1>4 DEF HandleCancel
  <2> QED BY <2>1 DEF RegNext
<1>5. CASE HandleClose(s)
  <2>1. RemoveSession(s)
    BY <1>5 DEF HandleClose
  <2> QED BY <2>1 DEF RegNext
<1>6. CASE \E r \in RequestIds, textOnly \in BOOLEAN : HandlePrompt(s, r, textOnly)
  <2>1. PICK r \in RequestIds, textOnly \in BOOLEAN : HandlePrompt(s, r, textOnly)
    BY <1>6
  <2>2. UNCHANGED regVars \/ BeginTurn(s, r)
    BY <2>1 DEF HandlePrompt, regVars
  <2> QED BY <2>2 DEF RegNext
<1> QED BY <1>1, <1>2, <1>3, <1>4, <1>5, <1>6

(* So do the turns.                                                        *)
LEMMA TurnsUseRegistry ==
  ASSUME Captured, NEW r \in RequestIds, TurnStep(r)
  PROVE  [RegNext]_regVars
<1>1. ASSUME Live(r) /\ BreakTurn(r) PROVE RegNext
  BY <1>1, BreakEndsTurn
<1>2. CASE \/ TurnCancelled(r) \/ TurnTimeout(r) \/ IdleTimeout(r) \/ StreamDone(r)
           \/ UpstreamError(r) \/ StreamEnds(r) \/ TransportFails(r)
  BY <1>1, <1>2 DEF TurnCancelled, TurnTimeout, IdleTimeout, StreamDone,
     UpstreamError, StreamEnds, TransportFails, Reading, Undisturbed
<1>3. CASE HostGone(r) \/ OpenStream(r)
  BY <1>3 DEF HostGone, OpenStream
<1>4. ASSUME NEW completed \in BOOLEAN, QuietFrame(r, completed)
      PROVE  UNCHANGED regVars
  BY <1>4 DEF QuietFrame
<1>5. ASSUME NEW bytes \in Sizes, Overflow(r, bytes) \/ SendFails(r, bytes)
      PROVE  RegNext
  BY <1>1, <1>5 DEF Overflow, SendFails, Reading, Undisturbed
<1>6. ASSUME NEW bytes \in Sizes, NEW completed \in BOOLEAN, Forward(r, bytes, completed)
      PROVE  RegNext
  <2>1. owner[r] \in SessionIds
    BY <1>6 DEF Forward, Reading, Undisturbed, Live, Captured
  <2>2. BufferReserve(owner[r], bytes)
    BY <1>6 DEF Forward
  <2> QED BY <2>1, <2>2 DEF RegNext
<1> QED BY <1>2, <1>3, <1>4, <1>5, <1>6 DEF TurnStep

(* Every step of the bridge is a step of the registry.                     *)
LEMMA RegistryStep ==
  ASSUME BridgeTypeOK, Captured, [Next]_vars
  PROVE  [RegNext]_regVars
<1>1. CASE Handlers
  BY <1>1, HandlersUseRegistry
<1>2. ASSUME NEW r \in RequestIds, TurnStep(r) PROVE [RegNext]_regVars
  BY <1>2, TurnsUseRegistry
<1>3. ASSUME NEW r \in RequestIds,
             \/ DeliverCancel(r) \/ SweepCancel(r)
             \/ \E kind \in {"turn", "idle"} : DeadlinePasses(r, kind)
      PROVE  UNCHANGED regVars
  BY <1>3 DEF DeliverCancel, SweepCancel, DeadlinePasses
<1>4. CASE WriteLine
  <2>1. Head(outgoing).session \in SessionIds
    BY <1>4, HeadLine DEF WriteLine, BridgeTypeOK
  <2>2. BufferWritten(Head(outgoing).session)
    BY <1>4 DEF WriteLine
  <2> QED BY <2>1, <2>2 DEF RegNext
<1>5. CASE HostDisconnects \/ ConnectionFails \/ RunReturns \/ RunErrs \/ Signal \/ Exit
  BY <1>5 DEF HostDisconnects, ConnectionFails, RunReturns, RunErrs, Signal,
     LeaveServing, Exit
<1>6. CASE Drain
  BY <1>6 DEF Drain, RegNext
<1>7. CASE Exited \/ UNCHANGED vars
  BY <1>7 DEF Exited, vars
<1> QED BY <1>1, <1>2, <1>3, <1>4, <1>5, <1>6, <1>7 DEF Next

-----------------------------------------------------------------------------
(* Stage one, continued: the types of the bridge's own variables.          *)
TurnTypeOK ==
  /\ task \in [RequestIds -> TaskStates]
  /\ owner \in [RequestIds -> SessionIds \union {NoSession}]
  /\ answer \in [RequestIds -> Answers]
  /\ sawTerminal \subseteq RequestIds /\ lossy \subseteq RequestIds
  /\ due \in [RequestIds -> SUBSET {"turn", "idle"}]

RestTypeOK ==
  /\ outgoing \in Seq(Lines)
  /\ deletes \subseteq RequestIds /\ deleted \subseteq RequestIds
  /\ lostDeletes \subseteq RequestIds /\ sweep \subseteq RequestIds
  /\ upstream \in [RequestIds -> {"idle", "running", "missed", "over"}]
  /\ stdin \in {"open", "eof"} /\ conn \in {"open", "closing"}
  /\ proc \in {"serving", "stopping", "sweeping", "exited", "expired"}

(* The type invariant is the registry's part and the bridge's own parts.   *)
LEMMA BridgeTypeSplit ==
  BridgeTypeOK <=> RegTypeOK /\ TurnTypeOK /\ RestTypeOK
BY DEF BridgeTypeOK, TurnTypeOK, RestTypeOK

(* The pieces the actions are made of keep the types.                      *)
LEMMA PieceTypes ==
  ASSUME TurnTypeOK, RestTypeOK, NEW r \in RequestIds
  PROVE  /\ \A outcome \in Answers : Respond(r, outcome) => answer' \in [RequestIds -> Answers]
         /\ SpawnMuxCancel(r) => /\ deletes' \subseteq RequestIds
                                 /\ UNCHANGED <<deleted, lostDeletes, upstream>>
         /\ FormationStops(r) => upstream' \in [RequestIds -> {"idle", "running", "missed", "over"}]
         /\ \A R \in SUBSET RequestIds :
              DropLocals(R) => /\ due' \in [RequestIds -> SUBSET {"turn", "idle"}]
                               /\ sawTerminal' \subseteq RequestIds
         /\ BreakTurn(r) => /\ task' \in [RequestIds -> TaskStates]
                            /\ due' \in [RequestIds -> SUBSET {"turn", "idle"}]
                            /\ sawTerminal' \subseteq RequestIds
                            /\ UNCHANGED <<owner, outgoing, mainVars>>
<1>1. \A outcome \in Answers : Respond(r, outcome) => answer' \in [RequestIds -> Answers]
  BY DEF TurnTypeOK, Respond, Answers
<1>2. SpawnMuxCancel(r) => /\ deletes' \subseteq RequestIds
                           /\ UNCHANGED <<deleted, lostDeletes, upstream>>
  BY DEF RestTypeOK, SpawnMuxCancel
<1>3. FormationStops(r) => upstream' \in [RequestIds -> {"idle", "running", "missed", "over"}]
  BY DEF RestTypeOK, FormationStops
<1>4. ASSUME NEW R \in SUBSET RequestIds, DropLocals(R)
      PROVE  /\ due' \in [RequestIds -> SUBSET {"turn", "idle"}]
             /\ sawTerminal' \subseteq RequestIds
  BY <1>4 DEF TurnTypeOK, DropLocals
<1>5. BreakTurn(r) => /\ task' \in [RequestIds -> TaskStates]
                      /\ UNCHANGED <<owner, outgoing, mainVars>>
                      /\ DropLocals({r})
  BY DEF BreakTurn, TurnTypeOK, TaskStates
<1> QED BY <1>1, <1>2, <1>3, <1>4, <1>5

(* The handlers keep the types.                                            *)
LEMMA HandlersType ==
  ASSUME TurnTypeOK, RestTypeOK, RegTypeOK, Handlers
  PROVE  TurnTypeOK' /\ RestTypeOK'
<1> USE NoTurnAssumption
<1>1. ASSUME NEW r \in RequestIds, SpawnMuxCancel(r), UNCHANGED <<turnVars, outgoing, mainVars>>
      PROVE  TurnTypeOK' /\ RestTypeOK'
  BY <1>1, PieceTypes DEF TurnTypeOK, RestTypeOK, turnVars, mainVars
<1>2. ASSUME UNCHANGED bridgeVars PROVE TurnTypeOK' /\ RestTypeOK'
  BY <1>2 DEF TurnTypeOK, RestTypeOK, bridgeVars, turnVars, cancelVars, mainVars
<1>3. ASSUME NEW s \in SessionIds, HandleNewSession(s) \/ HandleResume(s)
      PROVE  TurnTypeOK' /\ RestTypeOK'
  BY <1>2, <1>3 DEF HandleNewSession, HandleResume
<1>4. ASSUME NEW s \in SessionIds, HandleCancel(s)
      PROVE  TurnTypeOK' /\ RestTypeOK'
  <2>1. active[s] \in RequestIds
    BY <1>4 DEF HandleCancel, RegTypeOK
  <2> QED BY <1>1, <1>4, <2>1 DEF HandleCancel
<1>5. ASSUME NEW s \in SessionIds, HandleClose(s)
      PROVE  TurnTypeOK' /\ RestTypeOK'
  <2>1. CASE active[s] # NoTurn
    <3>1. active[s] \in RequestIds
      BY <2>1 DEF RegTypeOK
    <3> QED BY <1>1, <1>5, <2>1, <3>1 DEF HandleClose
  <2>2. CASE active[s] = NoTurn
    BY <1>2, <1>5, <2>2 DEF HandleClose, bridgeVars
  <2> QED BY <2>1, <2>2
<1>6. ASSUME NEW s \in SessionIds, NEW r \in RequestIds, NEW textOnly \in BOOLEAN,
             HandlePrompt(s, r, textOnly)
      PROVE  TurnTypeOK' /\ RestTypeOK'
  <2>1. owner' = [owner EXCEPT ![r] = s] \/ owner' = owner
    BY <1>6 DEF HandlePrompt
  <2>2. \/ task' = [task EXCEPT ![r] = "spawned"]
        \/ task' = [task EXCEPT ![r] = "dropped"]
        \/ task' = task
    BY <1>6 DEF HandlePrompt
  <2>3. UNCHANGED <<answer, sawTerminal, due, lossy, outgoing, cancelVars, mainVars>>
    BY <1>6 DEF HandlePrompt
  <2> QED BY <2>1, <2>2, <2>3 DEF TurnTypeOK, RestTypeOK, TaskStates, cancelVars, mainVars
<1> QED BY <1>3, <1>4, <1>5, <1>6 DEF Handlers

(* A turn that breaks keeps the types.                                     *)
LEMMA BreaksType ==
  ASSUME TurnTypeOK, RestTypeOK, NEW r \in RequestIds, BreakTurn(r),
         lossy' \subseteq RequestIds,
         (\E outcome \in Answers : Respond(r, outcome)) \/ UNCHANGED answer,
         \/ SpawnMuxCancel(r)
         \/ FormationStops(r) /\ UNCHANGED <<deletes, deleted, lostDeletes>>
         \/ UNCHANGED cancelVars
  PROVE  TurnTypeOK' /\ RestTypeOK'
<1>1. answer' \in [RequestIds -> Answers]
  BY PieceTypes DEF TurnTypeOK
<1>2. /\ deletes' \subseteq RequestIds /\ deleted' \subseteq RequestIds
      /\ lostDeletes' \subseteq RequestIds
      /\ upstream' \in [RequestIds -> {"idle", "running", "missed", "over"}]
  BY PieceTypes DEF RestTypeOK, cancelVars
<1>3. /\ task' \in [RequestIds -> TaskStates]
      /\ due' \in [RequestIds -> SUBSET {"turn", "idle"}]
      /\ sawTerminal' \subseteq RequestIds
      /\ UNCHANGED <<owner, outgoing, mainVars>>
  BY PieceTypes
<1> QED BY <1>1, <1>2, <1>3 DEF TurnTypeOK, RestTypeOK, mainVars

(* So do the steps of a turn.                                              *)
LEMMA TurnsType ==
  ASSUME TurnTypeOK, RestTypeOK, Captured, NEW r \in RequestIds, TurnStep(r)
  PROVE  TurnTypeOK' /\ RestTypeOK'
<1>0. /\ lossy \subseteq RequestIds /\ lossy \union {r} \subseteq RequestIds
      /\ {"cancelled", "turn_timeout", "idle_timeout", "overflow", "end_turn",
          "truncated", "transport", "upstream_error"} \subseteq Answers
  BY DEF TurnTypeOK, Answers, Failures
<1>1. CASE TurnCancelled(r)
  BY <1>0, <1>1, BreaksType DEF TurnCancelled
<1>2. CASE TurnTimeout(r) \/ IdleTimeout(r)
  BY <1>0, <1>2, BreaksType DEF TurnTimeout, IdleTimeout
<1>3. CASE StreamDone(r) \/ UpstreamError(r) \/ TransportFails(r)
  BY <1>0, <1>3, BreaksType DEF StreamDone, UpstreamError, TransportFails
<1>4. CASE StreamEnds(r)
  <2>1. Respond(r, "end_turn") \/ Respond(r, "truncated")
    BY <1>4 DEF StreamEnds
  <2> QED BY <1>0, <1>4, <2>1, BreaksType DEF StreamEnds
<1>5. ASSUME NEW bytes \in Sizes, Overflow(r, bytes) \/ SendFails(r, bytes)
      PROVE  TurnTypeOK' /\ RestTypeOK'
  BY <1>0, <1>5, BreaksType DEF Overflow, SendFails
<1>6. CASE HostGone(r)
  <2>1. task' \in [RequestIds -> TaskStates]
    BY <1>6 DEF HostGone, TurnTypeOK, TaskStates
  <2>2. /\ due' \in [RequestIds -> SUBSET {"turn", "idle"}]
        /\ sawTerminal' \subseteq RequestIds
    BY <1>6, PieceTypes DEF HostGone
  <2> QED BY <1>6, <2>1, <2>2 DEF HostGone, TurnTypeOK, RestTypeOK, cancelVars, mainVars
<1>7. CASE OpenStream(r)
  BY <1>7 DEF OpenStream, TurnTypeOK, RestTypeOK, TaskStates, mainVars
<1>8. ASSUME NEW completed \in BOOLEAN,
             IF completed
             THEN sawTerminal' = sawTerminal \union {r} /\ FormationStops(r)
             ELSE UNCHANGED <<sawTerminal, upstream>>
      PROVE  /\ sawTerminal' \subseteq RequestIds
             /\ upstream' \in [RequestIds -> {"idle", "running", "missed", "over"}]
  BY <1>8, PieceTypes DEF TurnTypeOK, RestTypeOK
<1>9. ASSUME NEW completed \in BOOLEAN, QuietFrame(r, completed)
      PROVE  TurnTypeOK' /\ RestTypeOK'
  BY <1>8, <1>9 DEF QuietFrame, TurnTypeOK, RestTypeOK, mainVars
<1>10. ASSUME NEW bytes \in Sizes, NEW completed \in BOOLEAN, Forward(r, bytes, completed)
       PROVE  TurnTypeOK' /\ RestTypeOK'
  <2>1. owner[r] \in SessionIds
    BY <1>10 DEF Forward, Reading, Undisturbed, Live, Captured
  <2>2. [session |-> owner[r], request |-> r, bytes |-> bytes] \in Lines
    BY <2>1 DEF Lines
  <2>3. outgoing' \in Seq(Lines)
    BY <1>10, <2>2, SeqShapes DEF Forward, RestTypeOK
  <2> QED BY <1>8, <1>10, <2>3 DEF Forward, TurnTypeOK, RestTypeOK, mainVars
<1> QED BY <1>1, <1>2, <1>3, <1>4, <1>5, <1>6, <1>7, <1>9, <1>10 DEF TurnStep

(* And everything else.                                                    *)
LEMMA OthersType ==
  ASSUME TurnTypeOK, RestTypeOK, RegTypeOK,
         \/ \E r \in RequestIds :
              \/ DeliverCancel(r) \/ SweepCancel(r)
              \/ \E kind \in {"turn", "idle"} : DeadlinePasses(r, kind)
         \/ WriteLine \/ HostDisconnects \/ ConnectionFails
         \/ RunReturns \/ RunErrs \/ Signal \/ Drain \/ Exit \/ Exited
         \/ UNCHANGED vars
  PROVE  TurnTypeOK' /\ RestTypeOK'
<1> USE NoTurnAssumption
<1>1. ASSUME NEW r \in RequestIds, DeliverCancel(r) \/ SweepCancel(r)
      PROVE  TurnTypeOK' /\ RestTypeOK'
  <2>1. upstream' \in [RequestIds -> {"idle", "running", "missed", "over"}]
    BY <1>1, PieceTypes DEF DeliverCancel, SweepCancel, CancelRequest, RestTypeOK
  <2> QED BY <1>1, <2>1 DEF DeliverCancel, SweepCancel, TurnTypeOK, RestTypeOK,
             turnVars, mainVars
<1>2. ASSUME NEW r \in RequestIds, NEW kind \in {"turn", "idle"}, DeadlinePasses(r, kind)
      PROVE  TurnTypeOK' /\ RestTypeOK'
  BY <1>2 DEF DeadlinePasses, TurnTypeOK, RestTypeOK, cancelVars, mainVars
<1>3. CASE WriteLine
  BY <1>3, HeadLine DEF WriteLine, TurnTypeOK, RestTypeOK, turnVars, cancelVars, mainVars
<1>4. CASE HostDisconnects \/ ConnectionFails \/ Exit
  BY <1>4 DEF HostDisconnects, ConnectionFails, Exit, TurnTypeOK, RestTypeOK,
     turnVars, cancelVars
<1>5. CASE RunReturns \/ RunErrs \/ Signal
  <2>1. LeaveServing
    BY <1>5 DEF RunReturns, RunErrs, Signal
  <2>2. task' \in [RequestIds -> TaskStates]
    BY <2>1 DEF LeaveServing, TurnTypeOK, TaskStates
  <2>3. /\ due' \in [RequestIds -> SUBSET {"turn", "idle"}]
        /\ sawTerminal' \subseteq RequestIds
    BY <2>1 DEF LeaveServing, DropLocals, TurnTypeOK
  <2>4. <<>> \in Seq(Lines)
    BY SeqShapes
  <2> QED BY <2>1, <2>2, <2>3, <2>4 DEF LeaveServing, TurnTypeOK, RestTypeOK
<1>6. CASE Drain
  <2>1. sweep' \subseteq RequestIds
    BY <1>6 DEF Drain, InFlight, RegTypeOK
  <2> QED BY <1>6, <2>1 DEF Drain, TurnTypeOK, RestTypeOK, turnVars, cancelVars
<1>7. CASE Exited \/ UNCHANGED vars
  BY <1>7 DEF Exited, vars, bridgeVars, TurnTypeOK, RestTypeOK, turnVars, cancelVars,
     mainVars
<1> QED BY <1>1, <1>2, <1>3, <1>4, <1>5, <1>6, <1>7

(* Every step of the bridge keeps every variable of its type: the handlers,*)
(* the turns, and the rest.                                                *)
LEMMA BridgeTypeStep ==
  ASSUME BridgeTypeOK, ActiveTurnReal, Captured, [Next]_vars
  PROVE  BridgeTypeOK'
<1>1. RegTypeOK'
  <2>1. [RegNext]_regVars
    BY RegistryStep
  <2>2. CASE RegNext
    BY <2>2, RegTypeStep, BridgeTypeSplit
  <2>3. CASE UNCHANGED regVars
    BY <2>3 DEF regVars, BridgeTypeOK, RegTypeOK
  <2> QED BY <2>1, <2>2, <2>3
<1>2. TurnTypeOK' /\ RestTypeOK'
  BY BridgeTypeSplit, HandlersType, TurnsType, OthersType DEF Next
<1> QED BY <1>1, <1>2 DEF BridgeTypeOK, TurnTypeOK, RestTypeOK

-----------------------------------------------------------------------------
(* Stage two: the shapes of the steps, in the state that decides who holds *)
(* a slot and what a turn is answered.                                     *)

(* Sessions may appear, a future opens its stream, stdin or the connection *)
(* goes; nothing else moves.                                               *)
Quiet ==
  /\ UNCHANGED <<active, cancelled, begun, owner, answer>>
  /\ registered \subseteq registered'
  /\ task' \in [RequestIds -> TaskStates]
  /\ \A r \in RequestIds :
       task'[r] = task[r] \/ (task[r] = "spawned" /\ task'[r] = "streaming")
  /\ stdin' \in {stdin, "eof"} /\ conn' \in {conn, "closing"}
  /\ proc' = "serving" <=> proc = "serving"

Prompts(s, r) ==
  /\ Serving /\ BeginTurn(s, r)
  /\ owner' = [owner EXCEPT ![r] = s]
  /\ task' = [task EXCEPT ![r] = IF conn = "open" THEN "spawned" ELSE "dropped"]
  /\ UNCHANGED <<answer, stdin, conn, proc>>

Cancels(s) ==
  /\ CancelActiveTurn(s)
  /\ UNCHANGED <<task, owner, answer, stdin, conn, proc>>

Closes(s) ==
  /\ RemoveSession(s)
  /\ UNCHANGED <<task, owner, answer, stdin, conn, proc>>

(* The answer of a turn that breaks is cancelled exactly if its token had  *)
(* fired; a turn that breaks with no answer was not cancelled.             *)
Breaks(r) ==
  /\ Serving /\ Live(r)
  /\ task' = [task EXCEPT ![r] = "ended"]
  /\ EndTurn(owner[r], r)
  /\ \/ UNCHANGED answer
     \/ \E outcome \in Failures \union {"end_turn", "cancelled"} :
          /\ outcome = "cancelled" <=> r \in cancelled
          /\ Respond(r, outcome)
  /\ UNCHANGED <<owner, stdin, conn, proc>>

LosesHost(r) ==
  /\ Live(r) /\ stdin = "eof"
  /\ task' = [task EXCEPT ![r] = "abandoned"]
  /\ UNCHANGED <<registered, active, cancelled, begun, owner, answer, stdin, conn, proc>>

Leaves ==
  /\ proc' # "serving"
  /\ task' = [r \in RequestIds |-> IF Live(r) THEN "dropped" ELSE task[r]]
  /\ stdin' = "eof"
  /\ UNCHANGED <<registered, active, cancelled, begun, owner, answer, conn>>

Drains ==
  /\ ~Serving /\ proc' # "serving" /\ DrainActiveTurns
  /\ UNCHANGED <<task, owner, answer, stdin, conn>>

Shaped ==
  \/ Quiet \/ Leaves \/ Drains
  \/ \E s \in SessionIds :
       \/ Cancels(s) \/ Closes(s)
       \/ \E r \in RequestIds : Prompts(s, r)
  \/ \E r \in RequestIds : Breaks(r) \/ LosesHost(r)

(* Every step of the bridge has a shape.                                   *)
LEMMA HandlersShaped ==
  ASSUME BridgeTypeOK, Handlers
  PROVE  Shaped
<1> USE DEF Shaped
<1>1. ASSUME UNCHANGED <<active, cancelled, begun, turnVars, mainVars>>,
             registered \subseteq registered'
      PROVE  Quiet
  BY <1>1 DEF Quiet, BridgeTypeOK, turnVars, mainVars
<1>2. ASSUME NEW s \in SessionIds, HandleNewSession(s) PROVE Shaped
  BY <1>1, <1>2 DEF HandleNewSession, Create, Register, regVars, bridgeVars
<1>3. ASSUME NEW s \in SessionIds, HandleResume(s) PROVE Shaped
  BY <1>1, <1>3 DEF HandleResume, Resume, Register, regVars, bridgeVars
<1>4. ASSUME NEW s \in SessionIds, HandleCancel(s) PROVE Shaped
  <2>1. Cancels(s)
    BY <1>4 DEF HandleCancel, Cancels, turnVars, mainVars
  <2> QED BY <2>1
<1>5. ASSUME NEW s \in SessionIds, HandleClose(s) PROVE Shaped
  <2>1. Closes(s)
    BY <1>5 DEF HandleClose, Closes, turnVars, mainVars
  <2> QED BY <2>1
<1>6. ASSUME NEW s \in SessionIds, NEW r \in RequestIds, NEW textOnly \in BOOLEAN,
             HandlePrompt(s, r, textOnly)
      PROVE  Shaped
  <2>1. CASE PromptVerdict(s, textOnly) = "ok"
    <3>1. Prompts(s, r)
      BY <1>6, <2>1 DEF HandlePrompt, HostCalls, Prompts, mainVars
    <3> QED BY <3>1
  <2>2. CASE PromptVerdict(s, textOnly) # "ok"
    <3>1. UNCHANGED <<regVars, turnVars, mainVars>>
      BY <1>6, <2>2 DEF HandlePrompt, turnVars
    <3> QED BY <1>1, <3>1 DEF regVars
  <2> QED BY <2>1, <2>2
<1> QED BY <1>2, <1>3, <1>4, <1>5, <1>6 DEF Handlers

(* Every step of a turn has one of the shapes.                             *)
LEMMA TurnsShaped ==
  ASSUME BridgeTypeOK, NEW r \in RequestIds, TurnStep(r)
  PROVE  Shaped
<1> USE DEF Shaped
<1>1. ASSUME Serving, Live(r), BreakTurn(r),
             \/ UNCHANGED answer
             \/ \E outcome \in Failures \union {"end_turn", "cancelled"} :
                  /\ outcome = "cancelled" <=> r \in cancelled
                  /\ Respond(r, outcome)
      PROVE  Breaks(r)
  BY <1>1 DEF BreakTurn, Breaks, mainVars
<1>2. CASE TurnCancelled(r)
  BY <1>1, <1>2 DEF TurnCancelled
<1>3. CASE TurnTimeout(r) \/ IdleTimeout(r)
  BY <1>1, <1>3 DEF TurnTimeout, IdleTimeout, Undisturbed, Failures
<1>4. CASE StreamDone(r) \/ UpstreamError(r) \/ TransportFails(r)
  BY <1>1, <1>4 DEF StreamDone, UpstreamError, TransportFails, Reading, Undisturbed,
     Failures
<1>5. CASE StreamEnds(r)
  BY <1>1, <1>5 DEF StreamEnds, Reading, Undisturbed, Failures
<1>6. ASSUME NEW bytes \in Sizes, Overflow(r, bytes) \/ SendFails(r, bytes)
      PROVE  Shaped
  BY <1>1, <1>6 DEF Overflow, SendFails, Reading, Undisturbed, Failures
<1>7. CASE HostGone(r)
  <2>1. LosesHost(r)
    BY <1>7 DEF HostGone, LosesHost, regVars, mainVars
  <2> QED BY <2>1
<1>8. CASE OpenStream(r)
  <2>1. Quiet
    BY <1>8 DEF OpenStream, Quiet, BridgeTypeOK, regVars, mainVars, TaskStates
  <2> QED BY <2>1
<1>9. ASSUME NEW completed \in BOOLEAN, QuietFrame(r, completed) PROVE Shaped
  <2>1. Quiet
    BY <1>9 DEF QuietFrame, Quiet, BridgeTypeOK, regVars, mainVars
  <2> QED BY <2>1
<1>10. ASSUME NEW bytes \in Sizes, NEW completed \in BOOLEAN, Forward(r, bytes, completed)
       PROVE  Shaped
  <2>1. Quiet
    BY <1>10 DEF Forward, BufferReserve, Quiet, BridgeTypeOK, mainVars
  <2> QED BY <2>1
<1> QED BY <1>2, <1>3, <1>4, <1>5, <1>6, <1>7, <1>8, <1>9, <1>10 DEF TurnStep

(* So has every step of the bridge; stage three only looks at the shapes.  *)
LEMMA StepShaped ==
  ASSUME BridgeTypeOK, [Next]_vars
  PROVE  Shaped
<1> USE DEF Shaped
<1>1. ASSUME NEW r \in RequestIds,
             \/ DeliverCancel(r) \/ SweepCancel(r)
             \/ \E kind \in {"turn", "idle"} : DeadlinePasses(r, kind)
      PROVE  Quiet
  BY <1>1 DEF DeliverCancel, SweepCancel, DeadlinePasses, Quiet, BridgeTypeOK,
     regVars, turnVars, mainVars
<1>2. CASE WriteLine
  <2>1. Quiet
    BY <1>2 DEF WriteLine, BufferWritten, Quiet, BridgeTypeOK, turnVars, mainVars
  <2> QED BY <2>1
<1>3. CASE HostDisconnects \/ ConnectionFails \/ Exit
  <2>1. Quiet
    BY <1>3 DEF HostDisconnects, ConnectionFails, Exit, Quiet, BridgeTypeOK, regVars,
       turnVars
  <2> QED BY <2>1
<1>4. CASE RunReturns \/ RunErrs \/ Signal
  <2>1. Leaves
    BY <1>4 DEF RunReturns, RunErrs, Signal, LeaveServing, Leaves, regVars
  <2> QED BY <2>1
<1>5. CASE Drain
  <2>1. Drains
    BY <1>5 DEF Drain, Drains, Serving, turnVars
  <2> QED BY <2>1
<1>6. CASE Exited \/ UNCHANGED vars
  <2>1. Quiet
    BY <1>6 DEF Exited, vars, bridgeVars, regVars, turnVars, mainVars, Quiet, BridgeTypeOK
  <2> QED BY <2>1
<1> QED BY <1>1, <1>2, <1>3, <1>4, <1>5, <1>6, HandlersShaped, TurnsShaped DEF Next

-----------------------------------------------------------------------------
(* Stage three: the inductive invariant.                                   *)

(* A slot is backed by the future that captured its session, which has not *)
(* broken: whoever holds the slot of a session is the turn to cancel.      *)
SlotBacked ==
  \A s \in SessionIds :
    active[s] # NoTurn => owner[active[s]] = s /\ task[active[s]] # "ended"

(* Only a turn that broke its loop may have answered.                      *)
Unanswered == \A r \in RequestIds : task[r] # "ended" => answer[r] = "none"

(* Why a future that did not break is gone.                                *)
GoneForAReason ==
  \A r \in RequestIds :
    /\ task[r] = "dropped" => ~Serving \/ conn = "closing"
    /\ task[r] = "abandoned" => stdin = "eof"
    /\ Live(r) => Serving

Inv ==
  /\ BridgeTypeOK /\ ActiveTurnReal /\ CapsRespected /\ SlotHeld /\ BufferCapRespected
  /\ Captured /\ SlotOwned /\ SlotBacked
  /\ Unanswered /\ GoneForAReason /\ CancelWins

(* The state run_turn and the registry start from satisfies Inv.           *)
LEMMA InitInv == Init => Inv
<1> SUFFICES ASSUME Init PROVE Inv
  OBVIOUS
<1> USE NoTurnAssumption DEF Init
<1>1. RegCore /\ CapsRespected
  BY RegInitCore
<1>2. RegTypeOK /\ ActiveTurnReal /\ SlotHeld /\ BufferCapRespected
  BY <1>1 DEF RegCore
<1>3. TurnTypeOK /\ RestTypeOK
  BY SeqShapes DEF TurnTypeOK, RestTypeOK, TaskStates, Answers
<1>4. Captured /\ SlotOwned /\ SlotBacked /\ Unanswered /\ GoneForAReason /\ CancelWins
  BY DEF RegInit, Captured, SlotOwned, SlotBacked, Unanswered, GoneForAReason,
     CancelWins, Live
<1> QED BY <1>1, <1>2, <1>3, <1>4, BridgeTypeSplit DEF Inv

(* What an operation does to the slots, extracted once.                    *)
LEMMA BeginTurnEffect ==
  ASSUME RegTypeOK, NEW s \in SessionIds, NEW r \in RequestIds, BeginTurn(s, r)
  PROVE  /\ s \in registered /\ active[s] = NoTurn /\ r \notin begun
         /\ ~(Cardinality(InFlight) >= MaxConcurrentTurns)
         /\ \A t \in SessionIds : active'[t] = IF t = s THEN r ELSE active[t]
         /\ begun' = begun \union {r}
         /\ UNCHANGED <<registered, cancelled>>
BY DEF BeginTurn, BeginTurnVerdict, RegTypeOK

(* end_turn of a turn that holds its slot empties that slot only.          *)
LEMMA EndTurnEffect ==
  ASSUME RegTypeOK, ActiveTurnReal, NEW s \in SessionIds, NEW r \in RequestIds,
         EndTurn(s, r)
  PROVE  /\ \A t \in SessionIds :
              active'[t] = IF t = s /\ active[s] = r THEN NoTurn ELSE active[t]
         /\ UNCHANGED <<registered, cancelled, begun>>
BY NoTurnAssumption DEF EndTurn, ClearSlots, ActiveTurnReal

(* Captured is kept: only a prompt spawns a future, with its session, and  *)
(* only for a request that claimed a slot.                                 *)
LEMMA CapturedStep ==
  ASSUME BridgeTypeOK, Captured, Shaped
  PROVE  Captured'
<1> USE DEF BridgeTypeOK, Captured
<1>1. CASE Quiet
  BY <1>1 DEF Quiet
<1>2. CASE Leaves
  BY <1>2 DEF Leaves, Live
<1>3. CASE Drains
  BY <1>3 DEF Drains, DrainActiveTurns
<1>4. ASSUME NEW s \in SessionIds, Cancels(s) \/ Closes(s) PROVE Captured'
  BY <1>4 DEF Cancels, Closes, CancelActiveTurn, RemoveSession
<1>5. ASSUME NEW s \in SessionIds, NEW r \in RequestIds, Prompts(s, r)
      PROVE  Captured'
  BY <1>5 DEF Prompts, BeginTurn
<1>6. ASSUME NEW r \in RequestIds, Breaks(r) PROVE Captured'
  BY <1>6 DEF Breaks, EndTurn, Live
<1>7. ASSUME NEW r \in RequestIds, LosesHost(r) PROVE Captured'
  BY <1>7 DEF LosesHost, Live
<1> QED BY <1>1, <1>2, <1>3, <1>4, <1>5, <1>6, <1>7 DEF Shaped

(* SlotOwned is kept: whatever happens to another turn, a live turn that   *)
(* nobody cancelled still holds the slot of the session it captured.       *)
LEMMA SlotOwnedStep ==
  ASSUME BridgeTypeOK, ActiveTurnReal, Captured, GoneForAReason, SlotOwned, Shaped
  PROVE  SlotOwned'
<1> USE NoTurnAssumption DEF SlotOwned, Live, Serving
<1>0. RegTypeOK /\ task \in [RequestIds -> TaskStates]
      /\ owner \in [RequestIds -> SessionIds \union {NoSession}]
  BY DEF BridgeTypeOK
<1>1. CASE Quiet
  BY <1>1 DEF Quiet
<1>2. CASE Leaves
  BY <1>2 DEF Leaves
<1>3. CASE Drains
  BY <1>3 DEF Drains
<1>4. ASSUME NEW s \in SessionIds, Cancels(s) PROVE SlotOwned'
  BY <1>4 DEF Cancels, CancelActiveTurn
<1>5. ASSUME NEW s \in SessionIds, Closes(s) PROVE SlotOwned'
  <2>1. /\ registered' = registered \ {s}
        /\ \A t \in SessionIds : t # s => active'[t] = active[t]
        /\ cancelled \subseteq cancelled'
        /\ \A q \in RequestIds : active[s] = q => q \in cancelled'
    BY <1>5 DEF Closes, RemoveSession, ClearSlots
  <2>2. registered \subseteq SessionIds
    BY <1>0 DEF RegTypeOK
  <2> QED BY <1>5, <2>1, <2>2 DEF Closes
<1>6. ASSUME NEW s \in SessionIds, NEW r \in RequestIds, Prompts(s, r)
      PROVE  SlotOwned'
  <2>1. /\ s \in registered /\ active[s] = NoTurn /\ r \notin begun
        /\ \A t \in SessionIds : active'[t] = IF t = s THEN r ELSE active[t]
        /\ UNCHANGED <<registered, cancelled>>
    BY <1>0, <1>6, BeginTurnEffect DEF Prompts
  <2>2. \A q \in RequestIds :
          /\ owner'[q] = IF q = r THEN s ELSE owner[q]
          /\ q # r => task'[q] = task[q]
    BY <1>0, <1>6 DEF Prompts
  <2>3. \A q \in RequestIds : Live(q) => owner[q] \in SessionIds
    BY DEF Captured
  <2> QED BY <1>6, <2>1, <2>2, <2>3 DEF Prompts, RegTypeOK
<1>7. ASSUME NEW r \in RequestIds, Breaks(r) PROVE SlotOwned'
  <2>1. owner[r] \in SessionIds
    BY <1>7 DEF Breaks, Captured
  <2>2. /\ \A t \in SessionIds :
             active'[t] = IF t = owner[r] /\ active[owner[r]] = r THEN NoTurn ELSE active[t]
        /\ UNCHANGED <<registered, cancelled, begun>>
    BY <1>0, <1>7, <2>1, EndTurnEffect DEF Breaks
  <2>3. \A q \in RequestIds : Live(q) => owner[q] \in SessionIds
    BY DEF Captured
  <2> QED BY <1>0, <1>7, <2>2, <2>3 DEF Breaks
<1>8. ASSUME NEW r \in RequestIds, LosesHost(r) PROVE SlotOwned'
  BY <1>0, <1>8 DEF LosesHost
<1> QED BY <1>1, <1>2, <1>3, <1>4, <1>5, <1>6, <1>7, <1>8 DEF Shaped

(* SlotBacked is kept: a slot taken is backed by a future that took it.    *)
LEMMA SlotBackedStep ==
  ASSUME BridgeTypeOK, ActiveTurnReal, Captured, SlotBacked, Shaped
  PROVE  SlotBacked'
<1> USE NoTurnAssumption DEF SlotBacked
<1>0. RegTypeOK /\ task \in [RequestIds -> TaskStates]
      /\ owner \in [RequestIds -> SessionIds \union {NoSession}]
      /\ \A s \in SessionIds : active[s] # NoTurn => active[s] \in RequestIds
  BY DEF BridgeTypeOK, RegTypeOK
<1>1. CASE Quiet
  BY <1>0, <1>1 DEF Quiet
<1>2. CASE Leaves
  BY <1>0, <1>2 DEF Leaves
<1>3. CASE Drains
  BY <1>0, <1>3 DEF Drains, DrainActiveTurns, ClearSlots
<1>4. ASSUME NEW s \in SessionIds, Cancels(s) PROVE SlotBacked'
  BY <1>4 DEF Cancels, CancelActiveTurn
<1>5. ASSUME NEW s \in SessionIds, Closes(s) PROVE SlotBacked'
  BY <1>5 DEF Closes, RemoveSession, ClearSlots
<1>6. ASSUME NEW s \in SessionIds, NEW r \in RequestIds, Prompts(s, r)
      PROVE  SlotBacked'
  <2>1. /\ r \notin begun
        /\ \A t \in SessionIds : active'[t] = IF t = s THEN r ELSE active[t]
    BY <1>0, <1>6, BeginTurnEffect DEF Prompts
  <2>2. \A q \in RequestIds :
          /\ owner'[q] = IF q = r THEN s ELSE owner[q]
          /\ q # r => task'[q] = task[q]
    BY <1>0, <1>6 DEF Prompts
  <2>3. task'[r] # "ended"
    BY <1>0, <1>6 DEF Prompts
  <2>4. \A t \in SessionIds : active[t] # r
    BY <2>1 DEF ActiveTurnReal
  <2> QED BY <1>0, <2>1, <2>2, <2>3, <2>4
<1>7. ASSUME NEW r \in RequestIds, Breaks(r) PROVE SlotBacked'
  <2>1. owner[r] \in SessionIds
    BY <1>7 DEF Breaks, Captured, Live
  <2>2. \A t \in SessionIds :
          active'[t] = IF t = owner[r] /\ active[owner[r]] = r THEN NoTurn ELSE active[t]
    BY <1>0, <1>7, <2>1, EndTurnEffect DEF Breaks
  <2>3. \A t \in SessionIds : active'[t] # NoTurn => active'[t] = active[t] /\ active[t] # r
    BY <1>0, <2>1, <2>2
  <2> QED BY <1>0, <1>7, <2>3 DEF Breaks
<1>8. ASSUME NEW r \in RequestIds, LosesHost(r) PROVE SlotBacked'
  BY <1>0, <1>8 DEF LosesHost
<1> QED BY <1>1, <1>2, <1>3, <1>4, <1>5, <1>6, <1>7, <1>8 DEF Shaped

(* Unanswered is kept: only the end of a future answers a prompt.          *)
LEMMA UnansweredStep ==
  ASSUME BridgeTypeOK, Captured, Unanswered, Shaped
  PROVE  Unanswered'
<1> USE DEF Unanswered
<1>0. /\ task \in [RequestIds -> TaskStates]
      /\ answer \in [RequestIds -> Answers]
  BY DEF BridgeTypeOK
<1>1. CASE Quiet
  BY <1>0, <1>1 DEF Quiet
<1>2. CASE Leaves
  BY <1>0, <1>2 DEF Leaves, Live
<1>3. CASE Drains
  BY <1>3 DEF Drains
<1>4. ASSUME NEW s \in SessionIds, Cancels(s) \/ Closes(s) PROVE Unanswered'
  BY <1>4 DEF Cancels, Closes
<1>5. ASSUME NEW s \in SessionIds, NEW r \in RequestIds, Prompts(s, r)
      PROVE  Unanswered'
  <2>1. task[r] = "unborn"
    BY <1>5 DEF Prompts, BeginTurn, Captured
  <2> QED BY <1>0, <1>5, <2>1 DEF Prompts
<1>6. ASSUME NEW r \in RequestIds, Breaks(r) PROVE Unanswered'
  BY <1>0, <1>6 DEF Breaks, Respond
<1>7. ASSUME NEW r \in RequestIds, LosesHost(r) PROVE Unanswered'
  BY <1>0, <1>7 DEF LosesHost, Live
<1> QED BY <1>1, <1>2, <1>3, <1>4, <1>5, <1>6, <1>7 DEF Shaped

(* GoneForAReason is kept: a future leaves without ending its turn only    *)
(* when the host, the connection or the process is going.                  *)
LEMMA GoneForAReasonStep ==
  ASSUME BridgeTypeOK, GoneForAReason, Shaped
  PROVE  GoneForAReason'
<1> USE DEF GoneForAReason, Live, Serving
<1>0. /\ task \in [RequestIds -> TaskStates] /\ conn \in {"open", "closing"}
  BY DEF BridgeTypeOK
<1>1. CASE Quiet
  BY <1>0, <1>1 DEF Quiet
<1>2. CASE Leaves
  BY <1>0, <1>2 DEF Leaves
<1>3. CASE Drains
  BY <1>3 DEF Drains
<1>4. ASSUME NEW s \in SessionIds, Cancels(s) \/ Closes(s) PROVE GoneForAReason'
  BY <1>4 DEF Cancels, Closes
<1>5. ASSUME NEW s \in SessionIds, NEW r \in RequestIds, Prompts(s, r)
      PROVE  GoneForAReason'
  BY <1>0, <1>5 DEF Prompts
<1>6. ASSUME NEW r \in RequestIds, Breaks(r) \/ LosesHost(r) PROVE GoneForAReason'
  BY <1>0, <1>6 DEF Breaks, LosesHost
<1> QED BY <1>1, <1>2, <1>3, <1>4, <1>5, <1>6 DEF Shaped

(* A token fires only for a turn that has not answered, and the turn that  *)
(* answers cancelled is one whose token had fired.                         *)
LEMMA CancelWinsStep ==
  ASSUME BridgeTypeOK, SlotBacked, Unanswered, CancelWins, Shaped
  PROVE  CancelWins'
<1> USE NoTurnAssumption DEF CancelWins
<1>0. /\ answer \in [RequestIds -> Answers] /\ RegTypeOK
      /\ \A s \in SessionIds :
           active[s] # NoTurn => active[s] \in RequestIds /\ answer[active[s]] = "none"
  BY DEF BridgeTypeOK, RegTypeOK, SlotBacked, Unanswered
<1>1. CASE Quiet \/ Leaves
  BY <1>1 DEF Quiet, Leaves
<1>2. CASE Drains
  BY <1>0, <1>2 DEF Drains, DrainActiveTurns, InFlight, RegTypeOK
<1>3. ASSUME NEW s \in SessionIds, Cancels(s) \/ Closes(s) PROVE CancelWins'
  BY <1>0, <1>3 DEF Cancels, Closes, CancelActiveTurn, RemoveSession
<1>4. ASSUME NEW s \in SessionIds, NEW r \in RequestIds, Prompts(s, r)
      PROVE  CancelWins'
  BY <1>4 DEF Prompts, BeginTurn
<1>5. ASSUME NEW r \in RequestIds, Breaks(r) PROVE CancelWins'
  <2>1. UNCHANGED cancelled
    BY <1>5 DEF Breaks, EndTurn
  <2>2. ASSUME NEW outcome \in Failures \union {"end_turn", "cancelled"},
               outcome = "cancelled" <=> r \in cancelled, Respond(r, outcome)
        PROVE  CancelWins'
    BY <1>0, <2>1, <2>2 DEF Respond
  <2> QED BY <1>5, <2>1, <2>2 DEF Breaks
<1>6. ASSUME NEW r \in RequestIds, LosesHost(r) PROVE CancelWins'
  BY <1>6 DEF LosesHost
<1> QED BY <1>1, <1>2, <1>3, <1>4, <1>5, <1>6 DEF Shaped

(* The invariant is inductive.                                             *)
LEMMA InvStep ==
  ASSUME Inv, [Next]_vars
  PROVE  Inv'
<1> USE DEF Inv
<1>1. Shaped
  BY StepShaped
<1>2. BridgeTypeOK'
  BY BridgeTypeStep
<1>3. (ActiveTurnReal /\ CapsRespected /\ SlotHeld /\ BufferCapRespected)'
  <2>1. RegCore /\ CapsRespected
    BY DEF RegCore, BridgeTypeOK
  <2>2. RegCore' /\ CapsRespected'
    BY <2>1, RegistryStep, RegStep
  <2> QED BY <2>2 DEF RegCore
<1>4. (Captured /\ SlotOwned /\ SlotBacked)'
  BY <1>1, CapturedStep, SlotOwnedStep, SlotBackedStep
<1>5. (Unanswered /\ GoneForAReason /\ CancelWins)'
  BY <1>1, UnansweredStep, GoneForAReasonStep, CancelWinsStep
<1> QED BY <1>2, <1>3, <1>4, <1>5

-----------------------------------------------------------------------------
(* What follows from the invariant.                                        *)

(* The turns that stream uncancelled hold distinct slots, so there are no  *)
(* more of them than turns in flight.                                      *)
LEMMA InvStreams ==
  ASSUME Inv
  PROVE  StreamsWithinCap
<1> DEFINE R == {r \in RequestIds : Serving /\ Live(r) /\ r \notin cancelled}
           f == [r \in R |-> owner[r]]
<1> USE NoTurnAssumption, FiniteAssumption, LimitsAssumption
<1>1. IsFiniteSet(InFlight) /\ IsFiniteSet(R)
  <2>1. InFlight \subseteq SessionIds
    BY DEF Inv, BridgeTypeOK, RegTypeOK, InFlight
  <2> QED BY <2>1, FS_Subset
<1>2. \A r \in R : owner[r] \in InFlight /\ active[owner[r]] = r
  BY DEF Inv, SlotOwned, InFlight
<1>3. f \in Injection(R, InFlight)
  <2>1. f \in [R -> InFlight]
    BY <1>2
  <2>2. \A q, r \in R : f[q] = f[r] => q = r
    BY <1>2
  <2> QED BY <2>1, <2>2 DEF Injection, IsInjective
<1>4. Cardinality(R) <= Cardinality(InFlight)
  BY <1>1, <1>3, FS_Injection
<1>5. Cardinality(R) \in Nat /\ Cardinality(InFlight) \in Nat
  BY <1>1, FS_CardinalityType
<1>6. Cardinality(InFlight) <= MaxConcurrentTurns
  BY DEF Inv, CapsRespected
<1>7. Cardinality(R) <= MaxConcurrentTurns
  BY <1>4, <1>5, <1>6
<1> QED BY <1>7 DEF StreamsWithinCap

(* A slot is held by a live future, or the host or the connection is gone. *)
LEMMA InvNoZombie ==
  ASSUME Inv
  PROVE  NoZombieSlot
<1> SUFFICES ASSUME NEW s \in SessionIds, Serving, active[s] # NoTurn
             PROVE  /\ owner[active[s]] = s
                    /\ \/ Live(active[s])
                       \/ task[active[s]] = "abandoned" /\ stdin = "eof"
                       \/ task[active[s]] = "dropped" /\ conn = "closing"
  BY DEF NoZombieSlot
<1>1. active[s] \in begun /\ active[s] \in RequestIds
  BY DEF Inv, ActiveTurnReal, BridgeTypeOK, RegTypeOK
<1>2. task[active[s]] \in TaskStates \ {"unborn", "ended"} /\ owner[active[s]] = s
  BY <1>1 DEF Inv, Captured, SlotBacked, BridgeTypeOK
<1>3. task[active[s]] = "dropped" => conn = "closing"
  BY <1>1 DEF Inv, GoneForAReason
<1>4. task[active[s]] = "abandoned" => stdin = "eof"
  BY <1>1 DEF Inv, GoneForAReason
<1> QED BY <1>2, <1>3, <1>4 DEF TaskStates, Live

(* The invariant holds throughout.                                         *)
THEOREM BridgeInvariant == Spec => []Inv
BY InitInv, InvStep, PTL DEF Spec

(* The bridge's state stays well formed, its registry included.            *)
THEOREM BridgeTypeCorrect == Spec => []BridgeTypeOK
<1>1. Inv => BridgeTypeOK
  BY DEF Inv
<1> QED BY <1>1, BridgeInvariant, PTL

(* agent.rs uses the registry only through its operations, on sessions it  *)
(* knows: everything proved of the registry holds in the bridge.           *)
THEOREM BridgeUsesRegistry == Spec => RegSpec
<1>1. Init => RegInit
  BY DEF Init
<1>2. Inv /\ [Next]_vars => [RegNext]_regVars
  BY RegistryStep DEF Inv
<1> QED BY <1>1, <1>2, BridgeInvariant, PTL DEF Spec, RegSpec

(* No turn of the bridge loses its slot but by its own end_turn or by its  *)
(* token.                                                                  *)
THEOREM BridgeReleases == Spec => SlotReleaseAccounted
BY BridgeUsesRegistry, RegistryReleases, PTL

(* Whatever the interleaving of handlers, turns and shutdown, a live turn  *)
(* that was not cancelled owns the slot of the session it captured.        *)
THEOREM BridgeOwnsSlots == Spec => []SlotOwned
<1>1. Inv => SlotOwned
  BY DEF Inv
<1> QED BY <1>1, BridgeInvariant, PTL

(* No session is stuck with a turn nobody runs.                            *)
THEOREM BridgeNoZombies == Spec => []NoZombieSlot
BY InvNoZombie, BridgeInvariant, PTL

(* A cancelled turn is answered cancelled or not at all, and no other is.  *)
THEOREM BridgeCancelWins == Spec => []CancelWins
<1>1. Inv => CancelWins
  BY DEF Inv
<1> QED BY <1>1, BridgeInvariant, PTL

(* No more turns stream than max_concurrent_turns.                         *)
THEOREM BridgeStreamsWithinCap == Spec => []StreamsWithinCap
BY InvStreams, BridgeInvariant, PTL

-----------------------------------------------------------------------------
(* The contract.  Each shape maps to a step of TurnContract or a stutter.  *)

(* The host's view moves with the future and the token of a turn.          *)
LEMMA ViewUnmoved ==
  ASSUME UNCHANGED <<owner, answer>>,
         \A r \in RequestIds : Phase(r)' = Phase(r)
  PROVE  UNCHANGED Contract!cvars
BY DEF Contract!cvars, Result

(* A step that touches no future, answer or new token is a stutter.        *)
LEMMA QuietStutters ==
  ASSUME BridgeTypeOK, Quiet
  PROVE  UNCHANGED Contract!cvars
<1>1. \A r \in RequestIds : Phase(r)' = Phase(r)
  BY DEF Quiet, Phase, Live
<1> QED BY <1>1, ViewUnmoved DEF Quiet

(* The contract counts as the bridge does.                                 *)
LEMMA SameCardinality == \A S : Contract!Cardinality(S) = Cardinality(S)
BY DEF Contract!Cardinality, Cardinality

(* A prompt that claims a slot is an Accept of the contract, or a          *)
(* Stillborn when its future could not be spawned.                         *)
LEMMA PromptAccepted ==
  ASSUME Inv, NEW s \in SessionIds, NEW r \in RequestIds, Prompts(s, r)
  PROVE  Contract!Accept(r, s) \/ Contract!Stillborn(r, s)
<1> USE NoTurnAssumption
<1>0. /\ RegTypeOK /\ task \in [RequestIds -> TaskStates]
      /\ owner \in [RequestIds -> SessionIds \union {NoSession}]
  BY DEF Inv, BridgeTypeOK
<1>1. /\ s \in registered /\ active[s] = NoTurn /\ r \notin begun
      /\ ~(Cardinality(InFlight) >= MaxConcurrentTurns)
      /\ UNCHANGED cancelled
  BY <1>0, BeginTurnEffect DEF Prompts
<1>2. task[r] = "unborn" /\ r \notin cancelled
  BY <1>0, <1>1 DEF Inv, Captured, RegTypeOK
<1>3. /\ task' = [task EXCEPT ![r] = IF conn = "open" THEN "spawned" ELSE "dropped"]
      /\ owner' = [owner EXCEPT ![r] = s] /\ UNCHANGED <<answer, cancelled>>
  BY <1>1 DEF Prompts
<1>4. Phase(r) = "unborn" /\ Phase(r)' = IF conn = "open" THEN "running" ELSE "over"
  BY <1>0, <1>2, <1>3 DEF Phase, Live
<1>5. \A q \in RequestIds : q # r => Phase(q)' = Phase(q)
  BY <1>0, <1>3 DEF Phase, Live
<1>6. \A q \in RequestIds : Phase(q) = "running" => Serving /\ Live(q) /\ q \notin cancelled
  BY DEF Phase, Prompts
<1>7. \A q \in RequestIds : Phase(q) = "running" => owner[q] # s
  BY <1>1, <1>6 DEF Inv, SlotOwned
<1>8. Cardinality({q \in RequestIds : Phase(q) = "running"}) < MaxConcurrentTurns
  <2> DEFINE R == {q \in RequestIds : Phase(q) = "running"}
             f == [q \in R |-> owner[q]]
  <2>1. IsFiniteSet(InFlight) /\ IsFiniteSet(R)
    BY <1>0, FiniteAssumption, FS_Subset DEF InFlight, RegTypeOK
  <2>2. \A q \in R : owner[q] \in InFlight /\ active[owner[q]] = q
    BY <1>6 DEF Inv, SlotOwned, InFlight
  <2>3. f \in [R -> InFlight] /\ \A p, q \in R : f[p] = f[q] => p = q
    BY <2>2
  <2>4. f \in Injection(R, InFlight)
    BY <2>3 DEF Injection, IsInjective
  <2>5. Cardinality(R) <= Cardinality(InFlight)
    BY <2>1, <2>4, FS_Injection
  <2>6. Cardinality(R) \in Nat /\ Cardinality(InFlight) \in Nat
    BY <2>1, FS_CardinalityType
  <2> HIDE DEF R
  <2>7. Cardinality(R) < MaxConcurrentTurns
    BY <1>1, <2>5, <2>6, LimitsAssumption
  <2> QED BY <2>7 DEF R
<1>9. CASE conn = "open"
  <2>1. Contract!Running = {q \in RequestIds : Phase(q) = "running"}
    BY DEF Contract!Running
  <2>2. Contract!Cardinality(Contract!Running) < MaxConcurrentTurns
    BY <1>8, <2>1, SameCardinality
  <2>3. \A q \in Contract!Running : owner[q] # s
    BY <1>7, <2>1
  <2> QED BY <1>0, <1>3, <1>4, <1>5, <1>9, <2>2, <2>3 DEF Contract!Accept, Result
<1>10. CASE conn # "open"
  BY <1>0, <1>3, <1>4, <1>5, <1>10 DEF Contract!Stillborn, Result
<1> QED BY <1>9, <1>10

(* A token that fires stops the turn in the slot, if it still runs.        *)
LEMMA TokenStops ==
  ASSUME Inv, NEW q \in RequestIds, cancelled' = cancelled \union {q},
         UNCHANGED <<task, owner, answer>>
  PROVE  Contract!Stop(q) \/ UNCHANGED Contract!cvars
<1>1. \A r \in RequestIds : r # q => Phase(r)' = Phase(r)
  BY DEF Phase, Live
<1>2. CASE Phase(q) = "running"
  <2>1. Phase(q)' = "stopping"
    BY <1>2 DEF Phase, Live
  <2> QED BY <1>1, <1>2, <2>1 DEF Contract!Stop, Result
<1>3. CASE Phase(q) # "running"
  <2>1. Phase(q)' = Phase(q)
    BY <1>3 DEF Phase, Live
  <2> QED BY <1>1, <2>1, ViewUnmoved
<1> QED BY <1>2, <1>3

(* A turn that breaks its loop is a Finish, or an Abandon when its answer  *)
(* could not be delivered.                                                 *)
LEMMA BreakFinishes ==
  ASSUME Inv, NEW r \in RequestIds, Breaks(r)
  PROVE  Contract!Finish(r) \/ Contract!Abandon(r)
<1>0. /\ task \in [RequestIds -> TaskStates] /\ answer \in [RequestIds -> Answers]
      /\ answer[r] = "none" /\ UNCHANGED <<owner, cancelled>>
  BY DEF Inv, BridgeTypeOK, Unanswered, Breaks, Live, EndTurn
<1>1. /\ Phase(r) = IF r \in cancelled THEN "stopping" ELSE "running"
      /\ Phase(r)' = "over"
      /\ \A q \in RequestIds : q # r => Phase(q)' = Phase(q)
  BY <1>0 DEF Breaks, Phase, Live
<1>2. ASSUME \A q \in RequestIds : Result(q)' = Result(q)
      PROVE  Contract!Abandon(r)
  BY <1>0, <1>1, <1>2 DEF Contract!Abandon
<1>3. CASE UNCHANGED answer
  BY <1>2, <1>3 DEF Result
<1>4. ASSUME NEW outcome \in Failures \union {"end_turn", "cancelled"},
             outcome = "cancelled" <=> r \in cancelled, Respond(r, outcome)
      PROVE  Contract!Finish(r) \/ Contract!Abandon(r)
  <2>1. CASE conn = "open"
    <3>1. Result(r)' = outcome /\ \A q \in RequestIds : q # r => Result(q)' = Result(q)
      BY <1>0, <1>4, <2>1 DEF Respond, Result, Failures
    <3>2. outcome \in Contract!Outcomes(r)
      BY <1>1, <1>4 DEF Contract!Outcomes
    <3> QED BY <1>0, <1>1, <3>1, <3>2 DEF Contract!Finish
  <2>2. CASE conn # "open"
    <3>1. \A q \in RequestIds : Result(q)' = Result(q)
      BY <1>0, <1>4, <2>2 DEF Respond, Result
    <3> QED BY <1>2, <3>1
  <2> QED BY <2>1, <2>2
<1> QED BY <1>3, <1>4 DEF Breaks

(* A turn that sees the host gone is an Abandon.                           *)
LEMMA HostGoneAbandons ==
  ASSUME Inv, NEW r \in RequestIds, LosesHost(r)
  PROVE  Contract!Abandon(r)
<1>0. task \in [RequestIds -> TaskStates] /\ UNCHANGED <<owner, answer, cancelled>>
  BY DEF Inv, BridgeTypeOK, LosesHost
<1>1. /\ Phase(r) \in {"running", "stopping"} /\ Phase(r)' = "over"
      /\ \A q \in RequestIds : q # r => Phase(q)' = Phase(q)
  BY <1>0 DEF LosesHost, Phase, Live
<1> QED BY <1>0, <1>1 DEF Contract!Abandon, Result

(* Leaving the select of main drops the futures: an AbandonAll.            *)
LEMMA LeavingAbandons ==
  ASSUME Inv, Leaves
  PROVE  Contract!AbandonAll
<1>1. \A r \in RequestIds :
        Phase(r)' = IF Phase(r) \in {"running", "stopping"} THEN "over" ELSE Phase(r)
  BY DEF Leaves, Phase, Live, Inv, BridgeTypeOK
<1> QED BY <1>1 DEF Contract!AbandonAll, Leaves, Result

(* The drain finds no live future, so it is a stutter.                     *)
LEMMA DrainStutters ==
  ASSUME Inv, Drains
  PROVE  UNCHANGED Contract!cvars
<1>1. \A r \in RequestIds : ~Live(r) /\ task'[r] = task[r]
  BY DEF Drains, Inv, GoneForAReason
<1>2. \A r \in RequestIds : Phase(r)' = Phase(r)
  BY <1>1 DEF Phase, Live
<1> QED BY <1>2, ViewUnmoved DEF Drains

(* Every step of the bridge is a step of the contract or a stutter.        *)
LEMMA ContractStep ==
  ASSUME Inv, Shaped
  PROVE  [Contract!ContractNext]_(Contract!cvars)
<1> USE NoTurnAssumption
<1>1. CASE Quiet \/ Drains
  BY <1>1, QuietStutters, DrainStutters DEF Inv
<1>2. CASE Leaves
  BY <1>2, LeavingAbandons DEF Contract!ContractNext
<1>3. ASSUME NEW s \in SessionIds, Cancels(s) \/ Closes(s)
      PROVE  [Contract!ContractNext]_(Contract!cvars)
  <2>1. CASE active[s] = NoTurn
    <3>1. UNCHANGED <<cancelled, task, owner, answer>>
      BY <1>3, <2>1 DEF Cancels, Closes, CancelActiveTurn, RemoveSession
    <3>2. \A r \in RequestIds : Phase(r)' = Phase(r)
      BY <3>1 DEF Phase, Live
    <3> QED BY <3>1, <3>2, ViewUnmoved
  <2>2. CASE active[s] # NoTurn
    <3>1. active[s] \in RequestIds
      BY <2>2 DEF Inv, BridgeTypeOK, RegTypeOK
    <3>2. cancelled' = cancelled \union {active[s]} /\ UNCHANGED <<task, owner, answer>>
      BY <1>3, <2>2 DEF Cancels, Closes, CancelActiveTurn, RemoveSession
    <3> QED BY <3>1, <3>2, TokenStops DEF Contract!ContractNext
  <2> QED BY <2>1, <2>2
<1>4. ASSUME NEW s \in SessionIds, NEW r \in RequestIds, Prompts(s, r)
      PROVE  Contract!ContractNext
  BY <1>4, PromptAccepted DEF Contract!ContractNext
<1>5. ASSUME NEW r \in RequestIds, Breaks(r) \/ LosesHost(r)
      PROVE  Contract!ContractNext
  BY <1>5, BreakFinishes, HostGoneAbandons DEF Contract!ContractNext
<1> QED BY <1>1, <1>2, <1>3, <1>4, <1>5 DEF Shaped

(* The bridge keeps the promise of TurnContract to its host: one turn per  *)
(* session, at most max_concurrent_turns, one result for each, and         *)
(* cancelled for those and only those asked to stop.                       *)
THEOREM BridgeImplementsContract == Spec => ImplementsContract
<1>1. Init => Contract!ContractInit
  <2>1. ASSUME Init PROVE \A r \in RequestIds : Phase(r) = "unborn" /\ Result(r) = "none"
    BY <2>1 DEF Init, Phase, Live, Result
  <2> QED BY <2>1 DEF Init, Contract!ContractInit
<1>2. Inv /\ [Next]_vars => [Contract!ContractNext]_(Contract!cvars)
  BY ContractStep, StepShaped DEF Inv
<1> QED BY <1>1, <1>2, BridgeInvariant, PTL
        DEF Spec, ImplementsContract, Contract!ContractSpec

-----------------------------------------------------------------------------
(* Who tells the formation: a turn the bridge ends early is cancelled      *)
(* upstream, and a process that exits with its cancel window unspent       *)
(* leaves no turn running but those whose cancel task it dropped.  As      *)
(* before every step has one of a few shapes, now as far as the upstream   *)
(* side goes, and each shape preserves the invariant Custody: a turn that  *)
(* runs upstream is held by a slot, a cancel task or the sweep.            *)

Gone(r) == task[r] \in {"ended", "abandoned", "dropped"}
Running(r) == upstream[r] = "running"

(* The slot of some session is r's.                                        *)
Holds(r) == \E s \in registered : active[s] = r

StoppedHere == {"turn_timeout", "idle_timeout", "overflow"}

(* A cancel_request is spawned only for a turn that is over, or stopping.  *)
CancelsMeant ==
  Serving => \A r \in deletes \union deleted : r \in cancelled \/ Gone(r)

(* A turn whose cancel was made runs no longer, or was missed.             *)
DeletedStopped == Serving => \A r \in deleted : ~Running(r)

(* Who answers for a turn that runs upstream.                              *)
InCustody ==
  conn = "open" =>
    \A r \in RequestIds : Running(r) =>
      /\ proc = "serving" => r \in deletes \/ Holds(r)
      /\ proc = "stopping" => r \in lostDeletes \/ Holds(r)
      /\ proc \in {"sweeping", "exited", "expired"} => r \in lostDeletes \/ r \in sweep

SweepSpent == proc = "exited" => sweep = {}

(* A turn that lost an update is over, and not with success.               *)
LossReported == \A r \in lossy : task[r] = "ended" /\ answer[r] # "end_turn"

Custody ==
  /\ CancelPropagated /\ CancelsMeant /\ DeletedStopped /\ InCustody /\ SweepSpent
  /\ LossReported

-----------------------------------------------------------------------------
(* The shapes.                                                             *)

(* No step reopens the connection or serves again.                         *)
OneWay == /\ conn' = "open" => conn = "open"
          /\ proc' = "serving" => proc = "serving"

KeepsSlot(r) == Holds(r) => Holds(r)'

Rests ==
  /\ UNCHANGED <<cancelled, deletes, deleted, lostDeletes, proc, sweep, answer, lossy>>
  /\ \A r \in RequestIds :
       /\ KeepsSlot(r)
       /\ Gone(r) => task'[r] = task[r]
       /\ Running(r)' => Running(r)

Opens(r) ==
  /\ r \notin cancelled /\ Live(r) /\ task'[r] = "streaming" /\ Serving
  /\ \A q \in RequestIds : q # r => task'[q] = task[q]
  /\ \A q \in RequestIds : q # r => upstream'[q] = upstream[q]
  /\ UNCHANGED <<regVars, deletes, deleted, lostDeletes, proc, sweep, answer, lossy>>

Fires(r) ==
  /\ Serving
  /\ cancelled' = cancelled \union {r}
  /\ deletes' = IF conn = "open" THEN deletes \union {r} ELSE deletes
  /\ \A q \in RequestIds : q # r => KeepsSlot(q)
  /\ UNCHANGED <<task, answer, deleted, lostDeletes, proc, conn, sweep, upstream, lossy>>

(* The four ways a turn may break, as the formation is concerned.          *)
Ends(r) ==
  /\ Serving /\ Live(r) /\ task' = [task EXCEPT ![r] = "ended"]
  /\ \A q \in RequestIds : q # r => KeepsSlot(q) /\ answer'[q] = answer[q]
  /\ UNCHANGED <<cancelled, deleted, lostDeletes, proc, conn, sweep>>
  /\ lossy' \subseteq lossy \union {r}
  /\ r \in lossy' => r \in lossy \/ answer'[r] # "end_turn"
  /\ \/ r \in cancelled /\ UNCHANGED <<deletes, upstream>>
     \/ r \notin cancelled /\ UNCHANGED upstream
        /\ deletes' = (IF conn = "open" THEN deletes \union {r} ELSE deletes)
     \/ r \notin cancelled /\ UNCHANGED deletes /\ FormationStops(r)
        /\ answer'[r] \notin StoppedHere
     \/ conn # "open" /\ UNCHANGED <<deletes, upstream>>

Delivers(r) ==
  /\ Serving /\ r \in deletes
  /\ deletes' = deletes \ {r} /\ deleted' = deleted \union {r}
  /\ CancelRequest(r)
  /\ UNCHANGED <<regVars, turnVars, lostDeletes, proc, conn, sweep>>

Stops ==
  \/ proc = "serving" /\ proc' = "stopping" /\ lostDeletes' = deletes
     /\ UNCHANGED <<regVars, answer, lossy, upstream, sweep>>
     /\ \A r \in RequestIds : task[r] = "ended" => task'[r] = "ended"
  \/ Drain
  \/ \E r \in RequestIds : SweepCancel(r)
  \/ Exit

CustodyShaped ==
  /\ OneWay
  /\ \/ Rests \/ Stops
     \/ \E r \in RequestIds : Opens(r) \/ Fires(r) \/ Ends(r) \/ Delivers(r)
(* A handler rests, or fires the token of the turn it stops.               *)
LEMMA HandlersCustody ==
  ASSUME BridgeTypeOK, Captured, Handlers
  PROVE  CustodyShaped
<1> USE NoTurnAssumption DEF CustodyShaped, OneWay
<1>0. \A r \in RequestIds : r # NoTurn
  OBVIOUS
<1>1. ASSUME UNCHANGED <<active, cancelled, turnVars, cancelVars, mainVars>>,
             registered \subseteq registered'
      PROVE  Rests
  BY <1>1 DEF Rests, KeepsSlot, Holds, Running, turnVars, cancelVars, mainVars
<1>2. ASSUME NEW s \in SessionIds, HandleNewSession(s) \/ HandleResume(s)
      PROVE  CustodyShaped
  <2>1. UNCHANGED <<active, cancelled, turnVars, cancelVars, mainVars>>
        /\ registered \subseteq registered'
    BY <1>2 DEF HandleNewSession, HandleResume, Create, Resume, Register, regVars, bridgeVars
  <2> QED BY <1>1, <2>1 DEF mainVars
<1>3. ASSUME NEW s \in SessionIds, HandleCancel(s) PROVE CustodyShaped
  <2>1. active[s] \in RequestIds
    BY <1>3 DEF HandleCancel, BridgeTypeOK, RegTypeOK
  <2>2. Fires(active[s])
    BY <1>3 DEF HandleCancel, HostCalls, CancelActiveTurn, SpawnMuxCancel, Fires, KeepsSlot,
       Holds, turnVars, mainVars
  <2>3. UNCHANGED <<conn, proc>>
    BY <1>3 DEF HandleCancel, mainVars
  <2> QED BY <2>1, <2>2, <2>3
<1>4. ASSUME NEW s \in SessionIds, HandleClose(s) PROVE CustodyShaped
  <2>1. /\ UNCHANGED <<turnVars, mainVars, begun>> /\ Serving
        /\ cancelled' = cancelled \union ({active[s]} \ {NoTurn})
    BY <1>4 DEF HandleClose, HostCalls, RemoveSession
  <2>2. \A r \in RequestIds : r # active[s] => KeepsSlot(r)
    <3>1. registered' = registered \ {s} /\ ClearSlots({s})
      BY <1>4 DEF HandleClose, RemoveSession
    <3>2. \A t \in registered : t # s => t \in registered' /\ active'[t] = active[t]
      BY <3>1 DEF ClearSlots, BridgeTypeOK, RegTypeOK
    <3> QED BY <3>2 DEF KeepsSlot, Holds
  <2>3. CASE active[s] = NoTurn
    <3>1. UNCHANGED cancelVars
      BY <1>4, <2>3 DEF HandleClose
    <3>2. cancelled' = cancelled
      BY <2>1, <2>3
    <3>3. Rests
      BY <1>0, <2>1, <2>2, <2>3, <3>1, <3>2 DEF Rests, Running, turnVars, cancelVars, mainVars
    <3> QED BY <2>1, <3>3 DEF mainVars
  <2>4. CASE active[s] # NoTurn
    <3>1. active[s] \in RequestIds
      BY <2>4 DEF BridgeTypeOK, RegTypeOK
    <3>2. SpawnMuxCancel(active[s])
      BY <1>4, <2>4 DEF HandleClose
    <3>3. cancelled' = cancelled \union {active[s]}
      BY <2>1, <2>4
    <3>4. Fires(active[s])
      BY <2>1, <2>2, <3>2, <3>3 DEF Fires, SpawnMuxCancel, turnVars, mainVars
    <3> QED BY <2>1, <3>1, <3>4 DEF mainVars
  <2> QED BY <2>3, <2>4
<1>5. ASSUME NEW s \in SessionIds, NEW r \in RequestIds, NEW textOnly \in BOOLEAN,
             HandlePrompt(s, r, textOnly)
      PROVE  CustodyShaped
  <2>1. UNCHANGED <<answer, sawTerminal, due, lossy, outgoing, cancelVars, mainVars>>
    BY <1>5 DEF HandlePrompt
  <2>2. CASE PromptVerdict(s, textOnly) = "ok"
    <3>1. /\ BeginTurn(s, r)
          /\ task' = [task EXCEPT ![r] = IF conn = "open" THEN "spawned" ELSE "dropped"]
      BY <1>5, <2>2 DEF HandlePrompt
    <3>2. /\ active[s] = NoTurn
          /\ \A t \in SessionIds : active'[t] = IF t = s THEN r ELSE active[t]
          /\ UNCHANGED <<registered, cancelled>>
      BY <3>1, BeginTurnEffect DEF BridgeTypeOK
    <3>3. \A q \in RequestIds : KeepsSlot(q)
      <4>1. registered \subseteq SessionIds
        BY DEF BridgeTypeOK, RegTypeOK
      <4> QED BY <1>0, <3>2, <4>1 DEF KeepsSlot, Holds
    <3>4. task[r] = "unborn" /\ task \in [RequestIds -> TaskStates]
      BY <3>1 DEF Captured, BeginTurn, BridgeTypeOK
    <3>5. \A q \in RequestIds : Gone(q) => task'[q] = task[q]
      BY <3>1, <3>4 DEF Gone
    <3>6. Rests
      BY <2>1, <3>2, <3>3, <3>5 DEF Rests, Running, cancelVars, mainVars
    <3> QED BY <2>1, <3>6 DEF mainVars
  <2>3. CASE PromptVerdict(s, textOnly) # "ok"
    <3>1. UNCHANGED <<regVars, owner, task>>
      BY <1>5, <2>3 DEF HandlePrompt
    <3> QED BY <1>1, <2>1, <3>1 DEF regVars, turnVars, mainVars
  <2> QED BY <2>2, <2>3
<1> QED BY <1>2, <1>3, <1>4, <1>5 DEF Handlers

(* A turn that breaks leaves the slots of the others alone.                *)
LEMMA BreakKeepsSlots ==
  ASSUME Inv, NEW r \in RequestIds, Live(r), BreakTurn(r)
  PROVE  \A q \in RequestIds : q # r => KeepsSlot(q)
<1>1. owner[r] \in SessionIds /\ EndTurn(owner[r], r)
  BY BreakEndsTurn DEF Inv
<1>2. /\ \A t \in SessionIds :
           active'[t] = IF t = owner[r] /\ active[owner[r]] = r THEN NoTurn ELSE active[t]
      /\ UNCHANGED registered
  BY <1>1, EndTurnEffect DEF Inv, BridgeTypeOK
<1>3. registered \subseteq SessionIds
  BY DEF Inv, BridgeTypeOK, RegTypeOK
<1> QED BY <1>2, <1>3 DEF KeepsSlot, Holds

(* So does every step of a turn: it rests, opens its stream, or ends.      *)
LEMMA TurnsCustody ==
  ASSUME Inv, NEW r \in RequestIds, TurnStep(r)
  PROVE  CustodyShaped
<1> USE DEF CustodyShaped, OneWay
<1>0. /\ task \in [RequestIds -> TaskStates] /\ answer \in [RequestIds -> Answers]
      /\ ~(Live(r) /\ Gone(r))
  BY DEF Inv, BridgeTypeOK, Live, Gone
<1>1. ASSUME Serving, Live(r), BreakTurn(r),
             UNCHANGED answer \/ (\E outcome \in Answers : Respond(r, outcome)),
             UNCHANGED <<deleted, lostDeletes>>
      PROVE  /\ task' = [task EXCEPT ![r] = "ended"]
             /\ \A q \in RequestIds : q # r => KeepsSlot(q) /\ answer'[q] = answer[q]
             /\ UNCHANGED <<cancelled, deleted, lostDeletes, proc, conn, sweep>>
  <2>1. UNCHANGED <<cancelled, mainVars>> /\ task' = [task EXCEPT ![r] = "ended"]
    BY <1>1 DEF BreakTurn, EndTurn
  <2>2. \A q \in RequestIds : q # r => answer'[q] = answer[q]
    BY <1>0, <1>1 DEF Respond
  <2> QED BY <1>1, <2>1, <2>2, BreakKeepsSlots DEF mainVars
<1>2. CASE TurnCancelled(r)
  <2>1. /\ Serving /\ Live(r) /\ BreakTurn(r) /\ r \in cancelled
        /\ \E outcome \in Answers : Respond(r, outcome)
        /\ UNCHANGED <<lossy, cancelVars>>
    BY <1>2 DEF TurnCancelled, Answers
  <2>2. Ends(r)
    BY <1>1, <2>1 DEF Ends, cancelVars
  <2> QED BY <2>2 DEF Ends
<1>3. CASE TurnTimeout(r) \/ IdleTimeout(r) \/ \E bytes \in Sizes : Overflow(r, bytes)
  <2>1. PICK outcome \in StoppedHere : Respond(r, outcome)
    BY <1>3 DEF TurnTimeout, IdleTimeout, Overflow, StoppedHere
  <2>2. /\ Serving /\ Live(r) /\ BreakTurn(r) /\ r \notin cancelled /\ SpawnMuxCancel(r)
        /\ lossy' \subseteq lossy \union {r}
    BY <1>3 DEF TurnTimeout, IdleTimeout, Overflow, Undisturbed, Reading
  <2>3. outcome \in Answers /\ outcome # "end_turn"
    BY DEF Answers, Failures, StoppedHere
  <2>4. answer'[r] # "end_turn"
    BY <1>0, <2>1, <2>3 DEF Respond
  <2>5. Ends(r)
    BY <1>1, <2>1, <2>2, <2>3, <2>4 DEF Ends, SpawnMuxCancel
  <2> QED BY <2>5 DEF Ends
<1>4. CASE StreamDone(r) \/ UpstreamError(r) \/ StreamEnds(r) \/ TransportFails(r)
  <2>1. PICK outcome \in {"end_turn", "upstream_error", "truncated", "transport"} :
          Respond(r, outcome)
    BY <1>4 DEF StreamDone, UpstreamError, StreamEnds, TransportFails
  <2>2. /\ Serving /\ Live(r) /\ BreakTurn(r) /\ r \notin cancelled /\ FormationStops(r)
        /\ UNCHANGED <<lossy, deletes, deleted, lostDeletes>>
    BY <1>4 DEF StreamDone, UpstreamError, StreamEnds, TransportFails, Undisturbed, Reading
  <2>3. outcome \in Answers /\ outcome \notin StoppedHere
    BY DEF Answers, Failures, StoppedHere
  <2>4. answer'[r] \notin StoppedHere
    BY <1>0, <2>1, <2>3 DEF Respond, StoppedHere
  <2>5. Ends(r)
    BY <1>1, <2>1, <2>2, <2>3, <2>4 DEF Ends
  <2> QED BY <2>5 DEF Ends
<1>5. ASSUME NEW bytes \in Sizes, SendFails(r, bytes) PROVE CustodyShaped
  <2>1. /\ Serving /\ Live(r) /\ BreakTurn(r) /\ conn # "open"
        /\ UNCHANGED <<answer, cancelVars>> /\ lossy' = lossy \union {r}
    BY <1>5 DEF SendFails, Undisturbed, Reading
  <2>2. answer'[r] # "end_turn"
    <3>1. task[r] # "ended"
      BY <2>1 DEF Live
    <3> QED BY <2>1, <3>1 DEF Inv, Unanswered
  <2>3. Ends(r)
    BY <1>1, <2>1, <2>2 DEF Ends, cancelVars
  <2> QED BY <2>3 DEF Ends
<1>6. CASE HostGone(r)
  <2>1. Rests
    BY <1>0, <1>6 DEF HostGone, Rests, KeepsSlot, Holds, Gone, Running, regVars, cancelVars,
       mainVars
  <2> QED BY <1>6, <2>1 DEF HostGone, mainVars
<1>7. CASE OpenStream(r)
  <2>1. Opens(r)
    BY <1>0, <1>7 DEF OpenStream, Opens, Undisturbed, mainVars, Inv, BridgeTypeOK
  <2> QED BY <1>7, <2>1 DEF OpenStream, mainVars
<1>8. ASSUME UNCHANGED <<registered, active, cancelled, task, answer, lossy, deletes,
                         deleted, lostDeletes, mainVars>>,
             FormationStops(r) \/ UNCHANGED upstream
      PROVE  CustodyShaped
  <2>1. \A q \in RequestIds : Running(q)' => Running(q)
    BY <1>8 DEF FormationStops, Running, Inv, BridgeTypeOK
  <2>2. Rests
    BY <1>8, <2>1 DEF Rests, KeepsSlot, Holds, mainVars
  <2> QED BY <1>8, <2>2 DEF mainVars
<1>9. ASSUME NEW completed \in BOOLEAN, QuietFrame(r, completed) PROVE CustodyShaped
  BY <1>8, <1>9 DEF QuietFrame, regVars
<1>10. ASSUME NEW completed \in BOOLEAN, NEW bytes \in Sizes, Forward(r, bytes, completed)
       PROVE  CustodyShaped
  BY <1>8, <1>10 DEF Forward, BufferReserve
<1> QED BY <1>2, <1>3, <1>4, <1>5, <1>6, <1>7, <1>9, <1>10 DEF TurnStep

(* And every step of the bridge.                                           *)
LEMMA StepCustody ==
  ASSUME Inv, [Next]_vars
  PROVE  CustodyShaped
<1> USE DEF CustodyShaped, OneWay
<1>1. CASE Handlers
  BY <1>1, HandlersCustody DEF Inv
<1>2. ASSUME NEW r \in RequestIds, DeliverCancel(r) PROVE CustodyShaped
  <2>1. Delivers(r)
    BY <1>2 DEF DeliverCancel, Delivers, mainVars
  <2> QED BY <2>1 DEF Delivers
<1>3. ASSUME NEW r \in RequestIds, SweepCancel(r) PROVE CustodyShaped
  <2>1. UNCHANGED <<conn, proc>>
    BY <1>3 DEF SweepCancel
  <2> QED BY <1>3, <2>1 DEF Stops
<1>4. ASSUME UNCHANGED <<registered, active, cancelled, task, answer, lossy, cancelVars,
                         proc, sweep>>,
             conn' = "open" => conn = "open"
      PROVE  CustodyShaped
  <2>1. Rests
    BY <1>4 DEF Rests, KeepsSlot, Holds, Running, cancelVars
  <2> QED BY <1>4, <2>1
<1>5. ASSUME NEW r \in RequestIds, NEW kind \in {"turn", "idle"}, DeadlinePasses(r, kind)
      PROVE  CustodyShaped
  BY <1>4, <1>5 DEF DeadlinePasses, regVars, mainVars
<1>6. CASE WriteLine \/ HostDisconnects \/ ConnectionFails
  BY <1>4, <1>6 DEF WriteLine, BufferWritten, HostDisconnects, ConnectionFails, regVars,
     turnVars, mainVars
<1>7. CASE Exited \/ UNCHANGED vars
  BY <1>4, <1>7 DEF Exited, vars, bridgeVars, regVars, turnVars, mainVars
<1>8. CASE RunReturns \/ RunErrs \/ Signal
  <2>1. Serving /\ LeaveServing
    BY <1>8 DEF RunReturns, RunErrs, Signal
  <2>2. \A r \in RequestIds : task[r] = "ended" => task'[r] = "ended"
    BY <2>1 DEF LeaveServing, Live
  <2>3. Stops
    BY <2>1, <2>2 DEF LeaveServing, Stops, Serving
  <2> QED BY <2>1, <2>3 DEF LeaveServing
<1>9. CASE Drain \/ Exit
  <2>1. UNCHANGED conn /\ proc' # "serving"
    BY <1>9 DEF Drain, Exit
  <2> QED BY <1>9, <2>1 DEF Stops
<1> QED BY <1>1, <1>2, <1>3, <1>5, <1>6, <1>7, <1>8, <1>9, TurnsCustody DEF Next

-----------------------------------------------------------------------------
(* Custody is inductive.                                                   *)

(* Nothing runs and nothing is owed at the start.                          *)
LEMMA InitCustody == Init => Custody
BY DEF Init, RegInit, Custody, CancelPropagated, CancelsMeant, DeletedStopped, InCustody,
   SweepSpent, LossReported, Running, Serving

(* A step that rests leaves every duty where it was.                       *)
LEMMA RestsStep ==
  ASSUME Custody, OneWay, Rests, lossy \subseteq RequestIds,
         deletes \union deleted \subseteq RequestIds
  PROVE  Custody'
<1> USE DEF Rests, OneWay
<1>1. CancelPropagated'
  BY DEF Custody, CancelPropagated, Serving
<1>2. CancelsMeant'
  BY DEF Custody, CancelsMeant, Gone, Serving
<1>3. DeletedStopped'
  BY DEF Custody, DeletedStopped, Serving
<1>4. InCustody'
  BY DEF Custody, InCustody, KeepsSlot
<1>5. SweepSpent'
  BY DEF Custody, SweepSpent
<1>6. LossReported'
  BY DEF Custody, LossReported, Gone
<1> QED BY <1>1, <1>2, <1>3, <1>4, <1>5, <1>6 DEF Custody

(* A stream is opened for a turn that holds its slot and that nobody asked *)
(* to cancel.                                                              *)
LEMMA OpensStep ==
  ASSUME Inv, Custody, OneWay, NEW r \in RequestIds, Opens(r)
  PROVE  Custody'
<1>0. /\ lossy \subseteq RequestIds /\ deletes \union deleted \subseteq RequestIds
      /\ task[r] # "ended" /\ ~Gone(r) /\ proc = "serving"
      /\ cancelled' = cancelled /\ registered' = registered /\ active' = active
  BY DEF Inv, BridgeTypeOK, Opens, Live, Gone, Serving, regVars
<1>1. CancelPropagated'
  BY <1>0 DEF Opens, OneWay, Custody, CancelPropagated, Serving
<1>2. r \notin deletes \union deleted
  BY <1>0 DEF Opens, Custody, CancelsMeant
<1>3. CancelsMeant'
  BY <1>0, <1>2 DEF Opens, OneWay, Custody, CancelsMeant, Gone, Serving
<1>4. DeletedStopped'
  BY <1>0, <1>2 DEF Opens, OneWay, Custody, DeletedStopped, Running, Serving
<1>5. Holds(r)
  BY DEF Opens, Inv, SlotOwned, Holds
<1>6. InCustody'
  BY <1>0, <1>5 DEF Opens, OneWay, Custody, InCustody, Running, Holds
<1>7. SweepSpent' /\ LossReported'
  BY <1>0 DEF Opens, Custody, SweepSpent, LossReported
<1> QED BY <1>1, <1>3, <1>4, <1>6, <1>7 DEF Custody

(* A token that fires comes with a cancel task.                            *)
LEMMA FiresStep ==
  ASSUME Custody, OneWay, NEW r \in RequestIds, Fires(r)
  PROVE  Custody'
<1> USE DEF Fires, OneWay
<1>1. CancelPropagated'
  BY DEF Custody, CancelPropagated, Serving
<1>2. CancelsMeant'
  BY DEF Custody, CancelsMeant, Gone, Serving
<1>3. DeletedStopped'
  BY DEF Custody, DeletedStopped, Running, Serving
<1>4. InCustody'
  BY DEF Custody, InCustody, KeepsSlot, Running, Serving
<1>5. SweepSpent' /\ LossReported'
  BY DEF Custody, SweepSpent, LossReported
<1> QED BY <1>1, <1>2, <1>3, <1>4, <1>5 DEF Custody

(* However a turn ends, the formation is done with it or is told.          *)
LEMMA EndsStep ==
  ASSUME Inv, Custody, OneWay, NEW r \in RequestIds, Ends(r)
  PROVE  Custody'
<1>0. /\ lossy \subseteq RequestIds /\ deletes \union deleted \subseteq RequestIds
      /\ task \in [RequestIds -> TaskStates] /\ task[r] # "ended"
      /\ upstream \in [RequestIds -> {"idle", "running", "missed", "over"}]
      /\ answer[r] = "none" /\ proc = "serving" /\ proc' = "serving"
  BY DEF Inv, BridgeTypeOK, Ends, Live, Serving, Unanswered
<1>1. /\ \A q \in RequestIds : q # r => task'[q] = task[q]
      /\ task'[r] = "ended" /\ Gone(r)'
      /\ \A q \in RequestIds : Gone(q) => Gone(q)'
  BY <1>0 DEF Ends, Gone
<1>2. /\ \A q \in RequestIds : Running(q)' => Running(q)
      /\ conn = "open" => \/ r \in cancelled /\ deletes' = deletes
                          \/ r \in deletes'
                          \/ ~Running(r)' /\ answer'[r] \notin StoppedHere
  BY <1>0 DEF Ends, Running, FormationStops
<1>3. deletes \subseteq deletes' /\ deletes' \subseteq deletes \union {r}
  BY DEF Ends
<1>4. CancelPropagated'
  <2> SUFFICES ASSUME NEW q \in RequestIds, conn = "open",
                      q \in cancelled \/ answer'[q] \in StoppedHere
               PROVE  q \in deletes' \union deleted
    BY DEF CancelPropagated, Ends, OneWay, StoppedHere
  <2>1. q \in cancelled => q \in deletes \union deleted
    BY <1>0 DEF Custody, CancelPropagated, Serving
  <2>2. CASE q # r
    <3>1. answer'[q] = answer[q]
      BY <2>2 DEF Ends
    <3>2. q \in deletes \union deleted
      BY <1>0, <3>1 DEF Custody, CancelPropagated, Serving, StoppedHere
    <3> QED BY <1>3, <3>2
  <2>3. CASE q = r
    BY <1>2, <1>3, <2>1, <2>3
  <2> QED BY <2>2, <2>3
<1>5. CancelsMeant'
  BY <1>0, <1>1, <1>3 DEF Ends, Custody, CancelsMeant, Serving
<1>6. DeletedStopped'
  BY <1>0, <1>2 DEF Ends, Custody, DeletedStopped, Serving
<1>7. InCustody'
  <2> SUFFICES ASSUME NEW q \in RequestIds, conn = "open", Running(q)'
               PROVE  q \in deletes' \/ Holds(q)'
    BY <1>0 DEF InCustody, Ends
  <2>1. Running(q)
    BY <1>2
  <2>2. CASE q # r
    BY <1>0, <1>3, <2>1, <2>2 DEF Ends, KeepsSlot, Custody, InCustody
  <2>3. CASE q = r
    <3>1. r \in cancelled => r \in deletes \union deleted
      BY <1>0 DEF Custody, CancelPropagated, Serving
    <3>2. r \notin deleted
      BY <1>0, <2>1, <2>3 DEF Custody, DeletedStopped, Serving
    <3> QED BY <1>2, <1>3, <2>3, <3>1, <3>2
  <2> QED BY <2>2, <2>3
<1>8. SweepSpent'
  BY <1>0 DEF SweepSpent
<1>9. LossReported'
  BY <1>0, <1>1 DEF Ends, Custody, LossReported
<1> QED BY <1>4, <1>5, <1>6, <1>7, <1>8, <1>9 DEF Custody

(* A cancel that is made has its turn over, or missed.                     *)
LEMMA DeliversStep ==
  ASSUME Inv, Custody, OneWay, NEW r \in RequestIds, Delivers(r)
  PROVE  Custody'
<1>0. /\ upstream \in [RequestIds -> {"idle", "running", "missed", "over"}]
      /\ deletes \union deleted \subseteq RequestIds
      /\ UNCHANGED <<registered, active, cancelled, task, answer, lossy>>
      /\ proc = "serving"
  BY DEF Inv, BridgeTypeOK, Delivers, regVars, turnVars, Serving
<1>1. \A q \in RequestIds : Running(q)' <=> Running(q) /\ q # r
  BY <1>0 DEF Delivers, CancelRequest, FormationStops, Running
<1>2. deletes' \union deleted' = deletes \union deleted
  BY DEF Delivers
<1>3. CancelPropagated' /\ CancelsMeant'
  BY <1>0, <1>2 DEF Delivers, Custody, CancelPropagated, CancelsMeant, Gone, Serving
<1>4. DeletedStopped'
  BY <1>0, <1>1 DEF Delivers, Custody, DeletedStopped, Serving
<1>5. InCustody'
  BY <1>0, <1>1 DEF Delivers, Custody, InCustody, Holds
<1>6. SweepSpent' /\ LossReported'
  BY <1>0 DEF Delivers, Custody, SweepSpent, LossReported
<1> QED BY <1>3, <1>4, <1>5, <1>6 DEF Custody

(* The shutdown path hands over from the slots to the sweep.               *)
LEMMA StopsStep ==
  ASSUME Inv, Custody, OneWay, Stops
  PROVE  Custody'
<1>0. /\ upstream \in [RequestIds -> {"idle", "running", "missed", "over"}]
      /\ lossy \subseteq RequestIds
      /\ proc \in {"serving", "stopping", "sweeping", "exited", "expired"}
  BY DEF Inv, BridgeTypeOK
<1>1. ASSUME proc' # "serving"
      PROVE  CancelPropagated' /\ CancelsMeant' /\ DeletedStopped'
  BY <1>1 DEF CancelPropagated, CancelsMeant, DeletedStopped, Serving
<1>2. CASE proc = "serving" /\ proc' = "stopping" /\ lostDeletes' = deletes
           /\ UNCHANGED <<regVars, answer, lossy, upstream, sweep>>
           /\ \A r \in RequestIds : task[r] = "ended" => task'[r] = "ended"
  <2>1. InCustody'
    BY <1>2 DEF OneWay, Custody, InCustody, Running, Holds, regVars
  <2>2. SweepSpent' /\ LossReported'
    BY <1>0, <1>2 DEF Custody, SweepSpent, LossReported
  <2> QED BY <1>1, <1>2, <2>1, <2>2 DEF Custody
<1>3. CASE Drain
  <2>1. /\ proc = "stopping" /\ proc' = "sweeping" /\ conn' = conn
        /\ sweep' = {active[s] : s \in InFlight}
        /\ UNCHANGED <<lostDeletes, upstream, task, answer, lossy>>
    BY <1>3 DEF Drain, turnVars, cancelVars
  <2>2. \A r \in RequestIds : Holds(r) => r \in sweep'
    BY <2>1, NoTurnAssumption DEF Holds, InFlight
  <2>3. InCustody'
    BY <2>1, <2>2 DEF Custody, InCustody, Running
  <2>4. SweepSpent' /\ LossReported'
    BY <2>1 DEF Custody, SweepSpent, LossReported
  <2> QED BY <1>1, <2>1, <2>3, <2>4 DEF Custody
<1>4. ASSUME NEW r \in RequestIds, SweepCancel(r) PROVE Custody'
  <2>1. /\ proc = "sweeping" /\ proc' = proc /\ conn' = conn
        /\ sweep' = sweep \ {r} /\ CancelRequest(r)
        /\ UNCHANGED <<lostDeletes, task, answer, lossy>>
    BY <1>4 DEF SweepCancel, turnVars
  <2>2. \A q \in RequestIds : Running(q)' => Running(q) /\ q # r
    BY <1>0, <2>1 DEF CancelRequest, FormationStops, Running
  <2>3. InCustody'
    BY <2>1, <2>2 DEF Custody, InCustody
  <2>4. SweepSpent' /\ LossReported'
    BY <2>1 DEF Custody, SweepSpent, LossReported
  <2> QED BY <1>1, <2>1, <2>3, <2>4 DEF Custody
<1>5. CASE Exit
  <2>1. /\ proc = "sweeping" /\ proc' = (IF sweep = {} THEN "exited" ELSE "expired")
        /\ UNCHANGED <<conn, sweep, lostDeletes, upstream, task, answer, lossy>>
    BY <1>5 DEF Exit, turnVars, cancelVars
  <2>2. InCustody'
    BY <2>1 DEF Custody, InCustody, Running
  <2>3. SweepSpent' /\ LossReported'
    BY <2>1 DEF Custody, SweepSpent, LossReported
  <2> QED BY <1>1, <2>1, <2>2, <2>3 DEF Custody
<1> QED BY <1>2, <1>3, <1>4, <1>5 DEF Stops

(* Whoever runs upstream is in custody, throughout.                        *)
THEOREM BridgeCustody == Spec => []Custody
<1>1. Inv /\ Custody /\ [Next]_vars => Custody'
  <2> SUFFICES ASSUME Inv, Custody, [Next]_vars PROVE Custody'
    OBVIOUS
  <2>1. CustodyShaped
    BY StepCustody
  <2>2. lossy \subseteq RequestIds /\ deletes \union deleted \subseteq RequestIds
    BY DEF Inv, BridgeTypeOK
  <2> QED BY <2>1, <2>2, RestsStep, OpensStep, FiresStep, EndsStep, DeliversStep, StopsStep
          DEF CustodyShaped
<1> QED BY <1>1, InitCustody, BridgeInvariant, PTL DEF Spec

(* Whatever ends a turn early on the bridge's side, a cancel_request for   *)
(* it is spawned, whichever of the handlers, the deadlines and the full    *)
(* buffer got there first.                                                 *)
THEOREM BridgePropagatesCancel == Spec => []CancelPropagated
<1>1. Custody => CancelPropagated
  BY DEF Custody
<1> QED BY <1>1, BridgeCustody, PTL

(* An update is never dropped while the turn reports success.              *)
THEOREM BridgeReportsLoss == Spec => []NoSilentLoss
<1>1. Custody => NoSilentLoss
  BY DEF Custody, LossReported, NoSilentLoss
<1> QED BY <1>1, BridgeCustody, PTL

(* A process that exits with its cancel window unspent has made a cancel   *)
(* for every turn still running upstream, but for those whose cancel task  *)
(* it dropped with the connection.                                         *)
THEOREM BridgeSweepComplete == Spec => []SweepComplete
<1>1. Custody => SweepComplete
  BY DEF Custody, InCustody, SweepSpent, SweepComplete, Running
<1> QED BY <1>1, BridgeCustody, PTL

-----------------------------------------------------------------------------
(* The queue of a host that reads before it prompts again.  Once more the  *)
(* steps have a few shapes, now as far as the queue of lines goes, and     *)
(* each keeps Queue: the lines queued for a session with a turn are that   *)
(* turn's, and their sizes are what is reserved.                           *)

(* The step of SizesOf, as a function.                                     *)
TakesSize(r) ==
  [v \in Seq(Sizes) \X Lines |->
     IF v[2].request = r THEN Append(v[1], v[2].bytes) ELSE v[1]]

(* It starts from any sizes and keeps to sequences of sizes.               *)
LEMMA TakesSizeFolds ==
  ASSUME NEW r
  PROVE  /\ \A first \in Seq(Sizes) : Folding(Seq(Sizes), Lines, TakesSize(r), first)
         /\ \A sizes \in Seq(Sizes), line \in Lines :
              TakesSize(r)[<<sizes, line>>] =
                IF line.request = r THEN Append(sizes, line.bytes) ELSE sizes
<1>1. \A sizes \in Seq(Sizes), line \in Lines :
        TakesSize(r)[<<sizes, line>>] =
          IF line.request = r THEN Append(sizes, line.bytes) ELSE sizes
  BY DEF TakesSize
<1>2. ASSUME NEW v \in Seq(Sizes) \X Lines
      PROVE  (IF v[2].request = r THEN Append(v[1], v[2].bytes) ELSE v[1]) \in Seq(Sizes)
  <2>1. v[1] \in Seq(Sizes) /\ v[2].bytes \in Sizes
    BY DEF Lines
  <2> QED BY <2>1, SeqShapes
<1>3. TakesSize(r) \in [Seq(Sizes) \X Lines -> Seq(Sizes)]
  BY <1>2 DEF TakesSize
<1> QED BY <1>1, <1>3 DEF Folding

(* SizesOf is the fold of that step.                                       *)
LEMMA SizesIsFold ==
  ASSUME NEW r, NEW s \in Seq(Lines)
  PROVE  SizesOf(s, r) = Fold(TakesSize(r), <<>>, s)
<1> DEFINE n == Len(s)
           step == TakesSize(r)
           V == Seq(Sizes)
           Is(f) == f = [S \in SUBSET (1 .. n) |->
                           IF S = {} THEN <<>>
                           ELSE IF s[Max(S)].request = r
                                THEN Append(f[S \ {Max(S)}], s[Max(S)].bytes)
                                ELSE f[S \ {Max(S)}]]
           iter == CHOOSE f : Is(f)
<1>1. SizesOf(s, r) = iter[1 .. n]
  <2>1. DOMAIN s = 1 .. n
    OBVIOUS
  <2> QED BY <2>1 DEF SizesOf, FoldLeft, MapThenFoldSet
<1> HIDE DEF step, V
<1>2. /\ Folding(V, Lines, step, <<>>)
      /\ \A sizes \in V, line \in Lines :
           step[<<sizes, line>>] =
             IF line.request = r THEN Append(sizes, line.bytes) ELSE sizes
  BY TakesSizeFolds, SeqShapes DEF step, V
<1>3. PICK f : Unfolds(V, step, <<>>, s, n, f)
  BY <1>2, UnfoldsExists
<1> HIDE DEF n
<1>4. \A S \in SUBSET (1 .. n) : S # {} =>
        s[Max(S)] \in Lines /\ S \ {Max(S)} \in SUBSET (1 .. n)
  BY LastPosition DEF n
<1>5. Is(f)
  <2>1. ASSUME NEW S \in SUBSET (1 .. n), S # {}
        PROVE  f[S] = IF s[Max(S)].request = r
                      THEN Append(f[S \ {Max(S)}], s[Max(S)].bytes)
                      ELSE f[S \ {Max(S)}]
    <3>1. f[S \ {Max(S)}] \in V /\ s[Max(S)] \in Lines
      BY <1>3, <1>4, <2>1 DEF Unfolds
    <3>2. f[S] = step[<<f[S \ {Max(S)}], s[Max(S)]>>]
      BY <1>3, <2>1 DEF Unfolds
    <3> QED BY <1>2, <3>1, <3>2
  <2>2. f = [S \in SUBSET (1 .. n) |-> f[S]] /\ f[{}] = <<>>
    BY <1>3 DEF Unfolds
  <2> QED BY <2>1, <2>2
<1>6. Is(iter)
  <2> HIDE DEF Is
  <2> QED BY <1>5
<1> HIDE DEF iter
<1>7. \A S \in SUBSET (1 .. n) :
        iter[S] = IF S = {} THEN <<>>
                  ELSE IF s[Max(S)].request = r
                       THEN Append(iter[S \ {Max(S)}], s[Max(S)].bytes)
                       ELSE iter[S \ {Max(S)}]
  BY <1>6
<1>8. Reaches(V, step, <<>>, s, iter)
  BY <1>2, <1>4, <1>7 DEF Reaches, n
<1>9. iter[1 .. n] = Fold(step, <<>>, s)
  BY <1>2, <1>8, UnfoldsFold DEF n
<1> QED BY <1>1, <1>9 DEF step

(* What the sizes of a request's lines become when a line is queued, and   *)
(* when one is written.                                                    *)
LEMMA SizesSteps ==
  ASSUME NEW r, NEW s \in Seq(Lines)
  PROVE  /\ SizesOf(<<>>, r) = <<>> /\ SizesOf(s, r) \in Seq(Sizes)
         /\ \A line \in Lines :
              SizesOf(Append(s, line), r) =
                IF line.request = r THEN Append(SizesOf(s, r), line.bytes)
                                    ELSE SizesOf(s, r)
         /\ s # <<>> =>
              IF Head(s).request = r
              THEN /\ SizesOf(s, r) # <<>>
                   /\ Head(SizesOf(s, r)) = Head(s).bytes
                   /\ Tail(SizesOf(s, r)) = SizesOf(Tail(s), r)
              ELSE SizesOf(s, r) = SizesOf(Tail(s), r)
<1> DEFINE step == TakesSize(r)
           V == Seq(Sizes)
<1> HIDE DEF step, V
<1>1. /\ \A first \in V : Folding(V, Lines, step, first)
      /\ \A sizes \in V, line \in Lines :
           step[<<sizes, line>>] =
             IF line.request = r THEN Append(sizes, line.bytes) ELSE sizes
  BY TakesSizeFolds DEF step, V
<1>2. <<>> \in V
  BY SeqShapes DEF V
<1>3. \A t \in Seq(Lines) : SizesOf(t, r) = Fold(step, <<>>, t)
  BY SizesIsFold DEF step
<1>4. SizesOf(<<>>, r) = <<>> /\ SizesOf(s, r) \in Seq(Sizes)
  <2>1. <<>> \in Seq(Lines)
    BY SeqShapes
  <2>2. Folding(V, Lines, step, <<>>)
    BY <1>1, <1>2
  <2>3. Fold(step, <<>>, <<>>) = <<>> /\ Fold(step, <<>>, s) \in V
    BY <2>2, FoldEmpty, FoldType
  <2> QED BY <1>3, <2>1, <2>3 DEF V
<1>5. ASSUME NEW line \in Lines
      PROVE  SizesOf(Append(s, line), r) =
               IF line.request = r THEN Append(SizesOf(s, r), line.bytes)
                                   ELSE SizesOf(s, r)
  <2>1. Append(s, line) \in Seq(Lines)
    BY SeqShapes
  <2>2. Folding(V, Lines, step, <<>>)
    BY <1>1, <1>2
  <2>3. /\ Fold(step, <<>>, Append(s, line)) = step[<<Fold(step, <<>>, s), line>>]
        /\ Fold(step, <<>>, s) \in V
    BY <2>2, FoldAppend, FoldType
  <2> QED BY <1>1, <1>3, <2>1, <2>3
<1>6. ASSUME s # <<>>
      PROVE  IF Head(s).request = r
             THEN /\ SizesOf(s, r) # <<>>
                  /\ Head(SizesOf(s, r)) = Head(s).bytes
                  /\ Tail(SizesOf(s, r)) = SizesOf(Tail(s), r)
             ELSE SizesOf(s, r) = SizesOf(Tail(s), r)
  <2>1. Head(s) \in Lines /\ Tail(s) \in Seq(Lines)
    BY <1>6, SeqShapes
  <2>2. Folding(V, Lines, step, <<>>)
    BY <1>1, <1>2
  <2>3. Fold(step, <<>>, s) = Fold(step, step[<< <<>>, Head(s)>>], Tail(s))
    BY <1>6, <2>2, FoldFirst
  <2>4. CASE Head(s).request # r
    <3>1. step[<< <<>>, Head(s)>>] = <<>>
      BY <1>1, <1>2, <2>1, <2>4
    <3> QED BY <1>3, <2>1, <2>3, <2>4, <3>1
  <2>5. CASE Head(s).request = r
    <3> DEFINE a == Head(s).bytes
               R == {v \in V \X V : v[2] # <<>> /\ Head(v[2]) = a /\ Tail(v[2]) = v[1]}
               one == Append(<<>>, a)
    <3>1. a \in Sizes
      BY <2>1 DEF Lines
    <3> HIDE DEF a
    <3>2. step[<< <<>>, Head(s)>>] = one
      BY <1>1, <1>2, <2>1, <2>5 DEF a
    <3>3. one \in V /\ one # <<>> /\ Head(one) = a /\ Tail(one) = <<>>
      BY <3>1 DEF V
    <3> HIDE DEF one
    <3>4. <<<<>>, one>> \in R
      BY <1>2, <3>3
    <3>5. Related(V, V, Lines, step, step, R)
      <4> SUFFICES ASSUME NEW v \in V, NEW w \in V, NEW line \in Lines,
                          w # <<>>, Head(w) = a, Tail(w) = v
                   PROVE  <<step[<<v, line>>], step[<<w, line>>]>> \in R
        BY DEF Related
      <4>1. CASE line.request = r
        <5> DEFINE x == line.bytes
        <5>0. x \in Sizes
          BY DEF Lines
        <5> HIDE DEF x
        <5>1. /\ Append(v, x) \in V /\ Append(w, x) \in V
              /\ Append(w, x) # <<>> /\ Head(Append(w, x)) = a
              /\ Tail(Append(w, x)) = Append(v, x)
          <6>1. w \in Seq(Sizes) /\ v \in Seq(Sizes)
            BY DEF V
          <6>2. Append(v, x) \in Seq(Sizes) /\ Append(w, x) \in Seq(Sizes)
            BY <5>0, <6>1
          <6>3. Append(w, x) # <<>> /\ Head(Append(w, x)) = Head(w)
            BY <5>0, <6>1
          <6>4. Tail(Append(w, x)) = Append(Tail(w), x)
            BY <5>0, <6>1
          <6> QED BY <6>2, <6>3, <6>4 DEF V
        <5>2. step[<<v, line>>] = Append(v, x) /\ step[<<w, line>>] = Append(w, x)
          BY <1>1, <4>1 DEF x
        <5> QED BY <5>1, <5>2
      <4>2. CASE line.request # r
        BY <1>1, <4>2
      <4> QED BY <4>1, <4>2
    <3> HIDE DEF R
    <3>6. <<Fold(step, <<>>, Tail(s)), Fold(step, one, Tail(s))>> \in R
      <4>1. Folding(V, Lines, step, one)
        BY <1>1, <3>3
      <4> QED BY <2>1, <2>2, <3>4, <3>5, <4>1, FoldRelated
    <3>7. /\ Fold(step, one, Tail(s)) # <<>>
          /\ Head(Fold(step, one, Tail(s))) = a
          /\ Tail(Fold(step, one, Tail(s))) = Fold(step, <<>>, Tail(s))
      BY <3>6 DEF R
    <3>8. SizesOf(s, r) = Fold(step, one, Tail(s))
      BY <1>3, <2>3, <3>2
    <3>9. SizesOf(Tail(s), r) = Fold(step, <<>>, Tail(s))
      BY <1>3, <2>1
    <3> QED BY <2>5, <3>7, <3>8, <3>9 DEF a
  <2> QED BY <2>4, <2>5
<1> QED BY <1>4, <1>5, <1>6

(* What is queued for a session with a turn is that turn's, and what is    *)
(* reserved is what is queued.                                             *)
QueueOwned ==
  \A s \in SessionIds : active[s] # NoTurn =>
    \A i \in DOMAIN outgoing :
      outgoing[i].session = s <=> outgoing[i].request = active[s]

Queue ==
  /\ ~Serving => outgoing = <<>>
  /\ \A i \in DOMAIN outgoing : outgoing[i].request \in begun
  /\ \A r \in RequestIds \ begun : SizesOf(outgoing, r) = <<>>
  /\ QueueOwned /\ ReservationsExact /\ QueueWithinCap

(* The queue stays, and slots are at most emptied.                         *)
QueueRests ==
  /\ UNCHANGED outgoing /\ begun \subseteq begun' /\ (Serving' => Serving)
  /\ (Serving => Serving' \/ outgoing = <<>>)
  /\ \A s \in SessionIds :
       active'[s] # NoTurn => active'[s] = active[s] /\ pending'[s] = pending[s]

(* A prompt finds nothing queued for its session.                          *)
QueueClaimed(s, r) ==
  /\ UNCHANGED <<outgoing, proc>> /\ BeginTurn(s, r) /\ HostPrompts(s)

QueueGrows(r, bytes) ==
  /\ Serving /\ Live(r) /\ r \notin cancelled /\ UNCHANGED <<proc, owner>>
  /\ BufferReserve(owner[r], bytes)
  /\ outgoing' = Append(outgoing, [session |-> owner[r], request |-> r, bytes |-> bytes])

QueueDropped ==
  /\ outgoing' = <<>> /\ ~Serving' /\ UNCHANGED regVars

QueueShaped ==
  \/ QueueRests \/ WriteLine \/ QueueDropped
  \/ \E s \in SessionIds, r \in RequestIds : QueueClaimed(s, r)
  \/ \E r \in RequestIds, bytes \in Sizes : QueueGrows(r, bytes)

(* Operations that empty slots leave the others' reservations alone.       *)
LEMMA ClearedRest ==
  ASSUME NEW S, ClearSlots(S)
  PROVE  \A s \in SessionIds :
           active'[s] # NoTurn => active'[s] = active[s] /\ pending'[s] = pending[s]
BY DEF ClearSlots

(* As far as the queue goes, every step has one of these shapes.           *)
LEMMA HandlersQueueShaped ==
  ASSUME BridgeTypeOK, Handlers
  PROVE  QueueShaped
<1> USE DEF QueueShaped
<1>1. ASSUME NEW s \in SessionIds,
             HandleNewSession(s) \/ HandleResume(s) \/ HandleCancel(s)
      PROVE  QueueRests
  BY <1>1 DEF HandleNewSession, HandleResume, HandleCancel, Create, Resume, Register,
     CancelActiveTurn, regVars, bridgeVars, mainVars, QueueRests, Serving
<1>2. ASSUME NEW s \in SessionIds, HandleClose(s) PROVE QueueRests
  <2>1. ClearSlots({s}) /\ UNCHANGED <<outgoing, begun, proc>>
    BY <1>2 DEF HandleClose, RemoveSession, mainVars
  <2> QED BY <2>1, ClearedRest DEF QueueRests, Serving
<1>3. ASSUME NEW s \in SessionIds, NEW r \in RequestIds, NEW textOnly \in BOOLEAN,
             HandlePrompt(s, r, textOnly)
      PROVE  QueueShaped
  <2>1. CASE PromptVerdict(s, textOnly) = "ok"
    <3>1. QueueClaimed(s, r)
      BY <1>3, <2>1 DEF HandlePrompt, QueueClaimed, mainVars
    <3> QED BY <3>1
  <2>2. CASE PromptVerdict(s, textOnly) # "ok"
    <3>1. QueueRests
      BY <1>3, <2>2 DEF HandlePrompt, QueueRests, regVars, mainVars, Serving
    <3> QED BY <3>1
  <2> QED BY <2>1, <2>2
<1> QED BY <1>1, <1>2, <1>3 DEF Handlers

(* ... those of a turn,                                                    *)
LEMMA TurnsQueueShaped ==
  ASSUME BridgeTypeOK, NEW r \in RequestIds, TurnStep(r)
  PROVE  QueueShaped
<1> USE DEF QueueShaped
<1>1. ASSUME BreakTurn(r) PROVE QueueRests
  <2>1. /\ ClearSlots(IF owner[r] \in registered /\ active[owner[r]] = r
                      THEN {owner[r]} ELSE {})
        /\ UNCHANGED <<outgoing, begun, proc>>
    BY <1>1 DEF BreakTurn, EndTurn, mainVars
  <2> QED BY <2>1, ClearedRest DEF QueueRests, Serving
<1>2. CASE TurnCancelled(r) \/ TurnTimeout(r) \/ IdleTimeout(r) \/ StreamDone(r)
           \/ UpstreamError(r) \/ StreamEnds(r) \/ TransportFails(r)
  BY <1>1, <1>2 DEF TurnCancelled, TurnTimeout, IdleTimeout, StreamDone, UpstreamError,
     StreamEnds, TransportFails
<1>3. ASSUME NEW bytes \in Sizes, Overflow(r, bytes) \/ SendFails(r, bytes)
      PROVE  QueueRests
  BY <1>1, <1>3 DEF Overflow, SendFails
<1>4. CASE HostGone(r) \/ OpenStream(r)
  <2>1. QueueRests
    BY <1>4 DEF HostGone, OpenStream, QueueRests, regVars, mainVars, Serving
  <2> QED BY <2>1
<1>5. ASSUME NEW completed \in BOOLEAN, QuietFrame(r, completed) PROVE QueueRests
  BY <1>5 DEF QuietFrame, QueueRests, regVars, mainVars, Serving
<1>6. ASSUME NEW bytes \in Sizes, NEW completed \in BOOLEAN, Forward(r, bytes, completed)
      PROVE  QueueGrows(r, bytes)
  BY <1>6 DEF Forward, Reading, Undisturbed, QueueGrows, mainVars
<1> QED BY <1>2, <1>3, <1>4, <1>5, <1>6 DEF TurnStep

(* ... and all.                                                            *)
LEMMA StepQueueShaped ==
  ASSUME BridgeTypeOK, [Next]_vars
  PROVE  QueueShaped \/ Drain
<1> USE DEF QueueShaped
<1>1. ASSUME NEW r \in RequestIds,
             \/ DeliverCancel(r) \/ SweepCancel(r)
             \/ \E kind \in {"turn", "idle"} : DeadlinePasses(r, kind)
      PROVE  QueueRests
  BY <1>1 DEF DeliverCancel, SweepCancel, DeadlinePasses, QueueRests, regVars, mainVars,
     Serving
<1>2. CASE HostDisconnects \/ ConnectionFails \/ Exit
  <2>1. QueueRests
    BY <1>2 DEF HostDisconnects, ConnectionFails, Exit, QueueRests, regVars, Serving
  <2> QED BY <2>1
<1>3. CASE RunReturns \/ RunErrs \/ Signal
  <2>1. QueueDropped
    BY <1>3 DEF RunReturns, RunErrs, Signal, LeaveServing, QueueDropped, Serving
  <2> QED BY <2>1
<1>4. CASE Exited \/ UNCHANGED vars
  <2>1. QueueRests
    BY <1>4 DEF Exited, vars, bridgeVars, regVars, mainVars, QueueRests, Serving
  <2> QED BY <2>1
<1> QED BY <1>1, <1>2, <1>3, <1>4, HandlersQueueShaped, TurnsQueueShaped DEF Next

-----------------------------------------------------------------------------
(* Each shape keeps the queue in order.                                    *)
LEMMA RestsQueue ==
  ASSUME Queue, QueueRests \/ Drain
  PROVE  Queue'
<1>1. /\ UNCHANGED outgoing /\ begun \subseteq begun' /\ (Serving' => Serving)
      /\ (~Serving' => ~Serving \/ outgoing = <<>>)
      /\ \A s \in SessionIds :
           active'[s] # NoTurn => active'[s] = active[s] /\ pending'[s] = pending[s]
  <2>1. CASE QueueRests
    BY <2>1 DEF QueueRests
  <2>2. CASE Drain
    <3>1. ClearSlots(InFlight) /\ UNCHANGED <<outgoing, begun>>
      BY <2>2 DEF Drain, DrainActiveTurns
    <3> QED BY <2>2, <3>1, ClearedRest DEF Drain, Serving
  <2> QED BY <2>1, <2>2
<1>2. QueueOwned'
  BY <1>1 DEF Queue, QueueOwned
<1>3. ReservationsExact'
  BY <1>1 DEF Queue, ReservationsExact
<1>4. QueueWithinCap'
  BY <1>1 DEF Queue, QueueWithinCap, QueuedBytes
<1> QED BY <1>1, <1>2, <1>3, <1>4 DEF Queue

(* A new turn of a patient host starts with an empty queue.                *)
LEMMA ClaimedQueue ==
  ASSUME Queue, BridgeTypeOK, PatientHost,
         NEW s \in SessionIds, NEW r \in RequestIds, QueueClaimed(s, r)
  PROVE  Queue'
<1> USE NoTurnAssumption
<1>0. RegTypeOK /\ outgoing \in Seq(Lines)
  BY DEF BridgeTypeOK
<1>1. /\ r \notin begun /\ begun' = begun \union {r}
      /\ \A t \in SessionIds : active'[t] = IF t = s THEN r ELSE active[t]
      /\ \A t \in SessionIds : pending'[t] = IF t = s THEN <<>> ELSE pending[t]
      /\ UNCHANGED <<outgoing, proc>>
      /\ \A i \in DOMAIN outgoing : outgoing[i].session # s
  BY <1>0 DEF QueueClaimed, BeginTurn, HostPrompts, RegTypeOK
<1>2. \A i \in DOMAIN outgoing : outgoing[i].request # r
  BY <1>1 DEF Queue
<1>3. QueueOwned'
  BY <1>1, <1>2 DEF Queue, QueueOwned
<1>4. SizesOf(outgoing, r) = <<>>
  BY <1>1 DEF Queue
<1>5. ReservationsExact'
  BY <1>1, <1>4 DEF Queue, ReservationsExact, Serving
<1>6. QueueWithinCap'
  BY <1>1 DEF Queue, QueueWithinCap, QueuedBytes
<1> QED BY <1>1, <1>3, <1>5, <1>6 DEF Queue, Serving

(* A forwarded update is reserved by the turn that queues it, in its own   *)
(* slot, where it fits.                                                    *)
LEMMA GrowsQueue ==
  ASSUME Queue, Inv, BufferAccounting, NEW r \in RequestIds, NEW bytes \in Sizes, QueueGrows(r, bytes)
  PROVE  Queue'
<1> USE NoTurnAssumption, SizesAssumption
<1> DEFINE s == owner[r]
           line == [session |-> s, request |-> r, bytes |-> bytes]
<1>0. /\ RegTypeOK /\ outgoing \in Seq(Lines) /\ r \in begun
      /\ s \in SessionIds /\ s \in registered /\ active[s] = r
      /\ \A t \in SessionIds : active[t] = r => t = s
  <2>1. r \in begun
    BY DEF Inv, Captured, QueueGrows, Live
  <2>2. s \in SessionIds /\ s \in registered /\ active[s] = r
    BY <2>1 DEF Inv, Captured, SlotOwned, QueueGrows
  <2>3. \A t \in SessionIds : active[t] = r => t = s
    BY DEF Inv, SlotBacked
  <2> QED BY <2>1, <2>2, <2>3 DEF Inv, BridgeTypeOK
<1>1. /\ buffered[s] + bytes <= MaxBufferedBytes
      /\ pending' = [pending EXCEPT ![s] = Append(pending[s], bytes)]
      /\ UNCHANGED <<active, begun, proc>>
  <2>1. BufferReserve(s, bytes) /\ UNCHANGED proc /\ active[s] # NoTurn
    BY <1>0 DEF QueueGrows
  <2>2. ~(buffered[s] + bytes > MaxBufferedBytes)
    BY <2>1 DEF BufferReserve, WouldOverflow
  <2>3. buffered[s] + bytes \in Nat
    BY <1>0 DEF RegTypeOK
  <2>4. buffered[s] + bytes <= MaxBufferedBytes
    BY <2>2, <2>3, LimitsAssumption
  <2> HIDE DEF s
  <2>5. /\ pending' = [pending EXCEPT ![s] = Append(pending[s], bytes)]
        /\ UNCHANGED <<active, begun>>
    BY <1>0, <2>1 DEF BufferReserve
  <2> QED BY <2>1, <2>4, <2>5
<1>2. line \in Lines /\ outgoing' = Append(outgoing, line)
  BY <1>0 DEF Lines, QueueGrows
<1>3. \A q : SizesOf(outgoing', q) =
               IF q = r THEN Append(SizesOf(outgoing, r), bytes) ELSE SizesOf(outgoing, q)
  BY <1>0, <1>2, SizesSteps
<1>4. /\ DOMAIN outgoing' = DOMAIN outgoing \union {Len(outgoing) + 1}
      /\ \A i \in DOMAIN outgoing : outgoing'[i] = outgoing[i]
      /\ outgoing'[Len(outgoing) + 1] = line
  <2> HIDE DEF line
  <2> QED BY <1>0, <1>2
<1>5. QueueOwned'
  <2> SUFFICES ASSUME NEW t \in SessionIds, active[t] # NoTurn, NEW i \in DOMAIN outgoing'
               PROVE  outgoing'[i].session = t <=> outgoing'[i].request = active[t]
    BY <1>1 DEF QueueOwned
  <2>1. CASE i \in DOMAIN outgoing
    BY <1>4, <2>1 DEF Queue, QueueOwned
  <2>2. CASE i = Len(outgoing) + 1
    BY <1>0, <1>4, <2>2
  <2> QED BY <1>4, <2>1, <2>2
<1>6. ReservationsExact'
  <2> SUFFICES ASSUME NEW t \in SessionIds, Serving, active[t] # NoTurn
               PROVE  pending'[t] = SizesOf(outgoing', active[t])
    BY <1>1 DEF ReservationsExact, Serving
  <2>1. pending[t] = SizesOf(outgoing, active[t])
    BY DEF Queue, ReservationsExact
  <2>2. CASE t = s
    BY <1>0, <1>1, <1>3, <2>1, <2>2 DEF RegTypeOK
  <2>3. CASE t # s
    BY <1>0, <1>1, <1>3, <2>1, <2>3 DEF RegTypeOK
  <2> QED BY <2>2, <2>3
<1>7. QueueWithinCap'
  <2> SUFFICES ASSUME NEW q \in RequestIds
               PROVE  Total(SizesOf(outgoing', q)) <= MaxBufferedBytes
    BY DEF QueueWithinCap, QueuedBytes
  <2>1. CASE q = r
    <3>1. pending[s] = SizesOf(outgoing, r) /\ buffered[s] = Total(pending[s])
      BY <1>0 DEF Queue, ReservationsExact, BufferAccounting, QueueGrows
    <3>2. Total(Append(pending[s], bytes)) = Total(pending[s]) + bytes
      <4>1. pending[s] \in Seq(Sizes)
        BY <1>0 DEF RegTypeOK
      <4> QED BY <4>1, TotalOfSizes
    <3> QED BY <1>1, <1>3, <2>1, <3>1, <3>2
  <2>2. CASE q # r
    BY <1>3, <2>2 DEF Queue, QueueWithinCap, QueuedBytes
  <2> QED BY <2>1, <2>2
<1>8. \A i \in DOMAIN outgoing' : outgoing'[i].request \in begun
  BY <1>0, <1>4 DEF Queue
<1>9. \A q \in RequestIds \ begun : SizesOf(outgoing', q) = <<>>
  BY <1>0, <1>3 DEF Queue
<1> QED BY <1>1, <1>5, <1>6, <1>7, <1>8, <1>9 DEF Queue, QueueGrows, Serving

(* What the stdout hook releases is what was reserved for the line that    *)
(* was written.                                                            *)
LEMMA WritesQueue ==
  ASSUME Queue, Inv, WriteLine
  PROVE  Queue'
<1> USE NoTurnAssumption, SizesAssumption
<1> DEFINE line == Head(outgoing)
           s == line.session
<1>0. /\ RegTypeOK /\ outgoing \in Seq(Lines) /\ outgoing # <<>>
      /\ line \in Lines /\ s \in SessionIds /\ line.request \in RequestIds
      /\ outgoing' = Tail(outgoing) /\ Tail(outgoing) \in Seq(Lines)
      /\ BufferWritten(s) /\ UNCHANGED <<active, begun, registered, proc>>
  <2>1. outgoing \in Seq(Lines) /\ outgoing # <<>>
    BY DEF Inv, BridgeTypeOK, WriteLine
  <2>2. line \in Lines /\ Tail(outgoing) \in Seq(Lines)
    BY <2>1, SeqShapes
  <2> QED BY <2>1, <2>2 DEF Lines, Inv, BridgeTypeOK, WriteLine, BufferWritten, mainVars
<1>1. /\ 1 \in DOMAIN outgoing /\ line = outgoing[1]
      /\ \A i \in DOMAIN outgoing' : i + 1 \in DOMAIN outgoing /\ outgoing'[i] = outgoing[i + 1]
  BY <1>0
<1>2. \A q : IF line.request = q
             THEN /\ SizesOf(outgoing, q) # <<>>
                  /\ Head(SizesOf(outgoing, q)) = line.bytes
                  /\ SizesOf(outgoing', q) = Tail(SizesOf(outgoing, q))
             ELSE SizesOf(outgoing', q) = SizesOf(outgoing, q)
  BY <1>0, SizesSteps
<1>3. \A q : SizesOf(outgoing, q) \in Seq(Sizes)
  BY <1>0, SizesSteps
<1> HIDE DEF line
<1>4. QueueOwned'
  BY <1>0, <1>1 DEF Queue, QueueOwned
<1>5. ReservationsExact'
  <2> SUFFICES ASSUME NEW t \in SessionIds, Serving, active[t] # NoTurn
               PROVE  pending'[t] = SizesOf(outgoing', active[t])
    BY <1>0 DEF ReservationsExact, Serving
  <2>1. pending[t] = SizesOf(outgoing, active[t])
    BY DEF Queue, ReservationsExact
  <2>2. line.session = t <=> line.request = active[t]
    BY <1>1 DEF Queue, QueueOwned
  <2>3. CASE t = s
    <3>1. /\ t \in registered /\ pending[t] # <<>>
          /\ SizesOf(outgoing', active[t]) = Tail(pending[t])
      BY <1>2, <2>1, <2>2, <2>3 DEF Inv, ActiveTurnReal
    <3>2. pending' = [pending EXCEPT ![t] = Tail(pending[t])]
      BY <1>0, <2>3, <3>1 DEF BufferWritten
    <3> QED BY <1>0, <3>1, <3>2 DEF RegTypeOK
  <2>4. CASE t # s
    <3>1. pending'[t] = pending[t]
      BY <1>0, <2>4 DEF BufferWritten, RegTypeOK
    <3> QED BY <1>2, <2>1, <2>2, <2>4, <3>1
  <2> QED BY <2>3, <2>4
<1>6. QueueWithinCap'
  <2> SUFFICES ASSUME NEW q \in RequestIds
               PROVE  Total(SizesOf(outgoing', q)) <= MaxBufferedBytes
    BY DEF QueueWithinCap, QueuedBytes
  <2>0. Total(SizesOf(outgoing, q)) <= MaxBufferedBytes
    BY DEF Queue, QueueWithinCap, QueuedBytes
  <2>1. CASE q = line.request
    <3> DEFINE sizes == SizesOf(outgoing, q)
    <3>1. sizes \in Seq(Sizes) /\ sizes # <<>> /\ SizesOf(outgoing', q) = Tail(sizes)
      BY <1>2, <1>3, <2>1
    <3> HIDE DEF sizes
    <3>2. /\ Head(sizes) \in Nat /\ Tail(sizes) \in Seq(Sizes)
          /\ Total(sizes) = Head(sizes) + Total(Tail(sizes))
      BY <3>1, TotalOfSizes
    <3>3. Total(Tail(sizes)) \in Nat
      BY <3>2, TotalOfSizes
    <3> QED BY <2>0, <3>1, <3>2, <3>3, LimitsAssumption DEF sizes
  <2>2. CASE q # line.request
    BY <1>2, <2>0, <2>2
  <2> QED BY <2>1, <2>2
<1>7. \A i \in DOMAIN outgoing' : outgoing'[i].request \in begun
  BY <1>1 DEF Queue
<1>8. \A q \in RequestIds \ begun : SizesOf(outgoing', q) = <<>>
  <2> SUFFICES ASSUME NEW q \in RequestIds \ begun PROVE SizesOf(outgoing', q) = <<>>
    OBVIOUS
  <2>1. SizesOf(outgoing, q) = <<>>
    BY DEF Queue
  <2> QED BY <1>2, <2>1
<1> QED BY <1>0, <1>4, <1>5, <1>6, <1>7, <1>8 DEF Queue, WriteLine, Serving

(* With the connection future goes the queue.                              *)
LEMMA DroppedQueue ==
  ASSUME Queue, QueueDropped
  PROVE  Queue'
<1> USE LimitsAssumption
<1>1. <<>> \in Seq(Lines) /\ <<>> \in Seq(Sizes)
  BY SeqShapes
<1>2. \A q : SizesOf(<<>>, q) = <<>>
  BY <1>1, SizesSteps
<1>3. Total(<<>>) = 0
  BY <1>1, TotalOfSizes
<1> QED BY <1>2, <1>3 DEF QueueDropped, Queue, QueueOwned, ReservationsExact,
        QueueWithinCap, QueuedBytes, regVars

(* What is queued for a turn is what is reserved for it, throughout.       *)
LEMMA QueueInvariant ==
  ASSUME PatientHost
  PROVE  Spec => []Queue
<1>1. Init => Queue
  <2>1. <<>> \in Seq(Lines) /\ <<>> \in Seq(Sizes)
    BY SeqShapes
  <2>2. \A q : SizesOf(<<>>, q) = <<>>
    BY <2>1, SizesSteps
  <2>3. Total(<<>>) = 0
    BY <2>1, TotalOfSizes
  <2> QED BY <2>2, <2>3, LimitsAssumption DEF Init, RegInit, Queue, QueueOwned,
          ReservationsExact, QueueWithinCap, QueuedBytes
<1>2. Queue /\ Inv /\ BufferAccounting /\ [Next]_vars => Queue'
  <2> SUFFICES ASSUME Queue, Inv, BufferAccounting, [Next]_vars PROVE Queue'
    OBVIOUS
  <2>1. QueueShaped \/ Drain
    BY StepQueueShaped DEF Inv
  <2> QED BY <2>1, RestsQueue, ClaimedQueue, GrowsQueue, WritesQueue, DroppedQueue
          DEF QueueShaped, Inv
<1>3. Spec => []BufferAccounting
  BY BridgeUsesRegistry, RegistryAccounting, PTL
<1> QED BY <1>1, <1>2, <1>3, BridgeInvariant, PTL DEF Spec

(* While a patient host reads, the reservations of a turn are the lines of *)
(* that turn, one by one and in order: no write releases what another turn *)
(* of the session reserved.                                                *)
THEOREM BridgeReservations ==
  ASSUME PatientHost
  PROVE  Spec => []ReservationsExact
<1>1. Queue => ReservationsExact
  BY DEF Queue
<1> QED BY <1>1, QueueInvariant, PTL

(* So the cap on reserved bytes caps what is queued for the host, for      *)
(* every turn, the ones that are over included.                            *)
THEOREM BridgeQueueWithinCap ==
  ASSUME PatientHost
  PROVE  Spec => []QueueWithinCap
<1>1. Queue => QueueWithinCap
  BY DEF Queue
<1> QED BY <1>1, QueueInvariant, PTL
=============================================================================
