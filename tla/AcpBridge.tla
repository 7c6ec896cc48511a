------------------------------ MODULE AcpBridge ------------------------------
(***************************************************************************)
(* The bridge process while it speaks ACP: the handlers and the prompt     *)
(* turns of src/agent.rs, the shutdown path of src/main.rs, and the        *)
(* registry they share (SessionRegistry, which this module extends).       *)
(*                                                                         *)
(* The ACP SDK runs the handlers, the spawned turns and the spawned MUXI   *)
(* cancels as futures of the one connection future that agent::run awaits. *)
(* So a handler, which never awaits, is one action, and so is one pass of  *)
(* a turn's select loop: the arm that fires, its calls, and end_turn when  *)
(* the arm breaks.  Everything else interleaves.                           *)
(*                                                                         *)
(* Replies that no later behaviour depends on (session/new, list, the      *)
(* rejections of a prompt) are left out; a rejected call changes nothing.  *)
(***************************************************************************)
EXTENDS SessionRegistry

CONSTANTS
  NoSession,     (* session of a request that has not begun                   *)
  PatientHost    (* TRUE: a host that prompts a session again only once it    *)
                 (* has read every line queued for it.  The ACP host decides. *)

ASSUME NoSessionAssumption == NoSession \notin SessionIds
ASSUME HostAssumption == PatientHost \in BOOLEAN

VARIABLES
  task,         (* the spawned future of each prompt turn                     *)
  owner,        (* the session_id that future captured                        *)
  answer,       (* the one terminal result of the prompt                      *)
  sawTerminal,  (* turns whose saw_terminal is set                            *)
  due,          (* deadlines of each turn that have passed                    *)
  lossy,        (* history: turns that had an update they could not queue     *)
  outgoing,     (* session/update lines queued for the stdout writer          *)
  deletes,      (* spawned MUXI cancel_request tasks not yet done             *)
  deleted,      (* requests whose cancel_request has been made                *)
  lostDeletes,  (* history: cancel tasks dropped with the connection          *)
  upstream,     (* external: the formation's side of each turn                *)
  stdin,        (* eof once the host hung up or nothing reads stdin any more  *)
  conn,         (* external: whether the SDK still takes sends and spawns     *)
  proc,         (* where main is                                              *)
  sweep         (* turns drained by shutdown whose cancel is outstanding      *)

turnVars == <<task, owner, answer, sawTerminal, due, lossy>>
cancelVars == <<deletes, deleted, lostDeletes, upstream>>
mainVars == <<stdin, conn, proc, sweep>>
bridgeVars == <<turnVars, outgoing, cancelVars, mainVars>>
vars == <<regVars, bridgeVars>>

TaskStates == {"unborn", "spawned", "streaming", "ended", "abandoned", "dropped"}
Failures   == {"turn_timeout", "idle_timeout", "overflow", "truncated",
               "transport", "upstream_error"}
Answers    == {"none", "undelivered", "end_turn", "cancelled"} \union Failures
Lines      == [session : SessionIds, request : RequestIds, bytes : Sizes]

Init ==
  /\ RegInit
  /\ task = [r \in RequestIds |-> "unborn"]
  /\ owner = [r \in RequestIds |-> NoSession]
  /\ answer = [r \in RequestIds |-> "none"]
  /\ sawTerminal = {} /\ lossy = {}
  /\ due = [r \in RequestIds |-> {}]
  /\ outgoing = <<>>
  /\ deletes = {} /\ deleted = {} /\ lostDeletes = {}
  /\ upstream = [r \in RequestIds |-> "idle"]
  /\ stdin = "open" /\ conn = "open" /\ proc = "serving" /\ sweep = {}

-----------------------------------------------------------------------------
(* Pieces of the handlers and of the select loop.                          *)

Serving == proc = "serving"
HostCalls == Serving /\ stdin = "open"
Live(r) == task[r] \in {"spawned", "streaming"}

(* responder.respond: consumed either way, delivered while the SDK sends.  *)
Respond(r, outcome) ==
  answer' = [answer EXCEPT ![r] = IF conn = "open" THEN outcome ELSE "undelivered"]

(* spawn_mux_cancel; a failure to spawn is logged and forgotten.           *)
SpawnMuxCancel(r) ==
  /\ deletes' = IF conn = "open" THEN deletes \union {r} ELSE deletes
  /\ UNCHANGED <<deleted, lostDeletes, upstream>>

(* The locals of run_turn go with its future.                              *)
DropLocals(R) ==
  /\ due' = [r \in RequestIds |-> IF r \in R THEN {} ELSE due[r]]
  /\ sawTerminal' = sawTerminal \ R

(* The break of the loop: the future ends and calls end_turn.              *)
BreakTurn(r) ==
  /\ task' = [task EXCEPT ![r] = "ended"]
  /\ EndTurn(owner[r], r)
  /\ DropLocals({r})
  /\ UNCHANGED <<owner, outgoing, mainVars>>

(* The formation is done with r, or out of the bridge's reach.             *)
FormationStops(r) ==
  upstream' = [upstream EXCEPT ![r] = IF @ \in {"running", "missed"} THEN "over" ELSE @]

(* cancel_request: one attempt.  Its Err is logged, and nothing tells the  *)
(* bridge whether the formation went on with the turn ("missed").          *)
CancelRequest(r) ==
  \/ FormationStops(r)
  \/ upstream' = [upstream EXCEPT ![r] = IF @ = "running" THEN "missed" ELSE @]

-----------------------------------------------------------------------------
(* Handlers: one action per ACP method that touches state.                 *)

HandleNewSession(s) ==
  /\ HostCalls
  /\ IF SessionLimitExceeded THEN UNCHANGED regVars ELSE Create(s)
  /\ UNCHANGED bridgeVars

HandleResume(s) ==
  /\ HostCalls
  /\ IF s \notin registered /\ SessionLimitExceeded
     THEN UNCHANGED regVars ELSE Resume(s)
  /\ UNCHANGED bridgeVars

(* The order of handle_prompt's early returns.                             *)
PromptVerdict(s, textOnly) ==
  CASE s \notin registered -> "unknown_session"
    [] s \in registered /\ ~textOnly -> "unsupported_content"
    [] OTHER -> BeginTurnVerdict(s)

HostPrompts(s) ==
  PatientHost => \A i \in DOMAIN outgoing : outgoing[i].session # s

(* A turn that cannot be spawned has claimed its slot all the same.        *)
HandlePrompt(s, r, textOnly) ==
  /\ HostCalls /\ HostPrompts(s) /\ r \notin begun
  /\ IF PromptVerdict(s, textOnly) = "ok"
     THEN /\ BeginTurn(s, r)
          /\ owner' = [owner EXCEPT ![r] = s]
          /\ task' = [task EXCEPT ![r] = IF conn = "open" THEN "spawned" ELSE "dropped"]
     ELSE UNCHANGED <<regVars, owner, task>>
  /\ UNCHANGED <<answer, sawTerminal, due, lossy, outgoing, cancelVars, mainVars>>

(* mutant: session/cancel stops the turn here and nowhere else.            *)
CancelsLocally(s) ==
  /\ HostCalls
  /\ s \in registered /\ active[s] # NoTurn
  /\ CancelActiveTurn(s)
  /\ UNCHANGED bridgeVars

HandleCancel(s) ==
  /\ HostCalls
  /\ s \in registered /\ active[s] # NoTurn
  /\ CancelActiveTurn(s)
  /\ SpawnMuxCancel(active[s])
  /\ UNCHANGED <<turnVars, outgoing, mainVars>>

(* mutant: close cancels upstream whether or not a turn was active.        *)
CloseCancelsBlindly(s) ==
  /\ HostCalls
  /\ RemoveSession(s)
  /\ SpawnMuxCancel(active[s])
  /\ UNCHANGED <<turnVars, outgoing, mainVars>>

(* mutant: close leaves the upstream cancel to nobody.                     *)
CloseForgetsUpstream(s) ==
  /\ HostCalls
  /\ RemoveSession(s)
  /\ UNCHANGED bridgeVars

(* session/close and session/delete: the same body.                        *)
HandleClose(s) ==
  /\ HostCalls
  /\ RemoveSession(s)
  /\ IF active[s] # NoTurn THEN SpawnMuxCancel(active[s]) ELSE UNCHANGED cancelVars
  /\ UNCHANGED <<turnVars, outgoing, mainVars>>

-----------------------------------------------------------------------------
(* One pass of run_turn's biased select.  An arm fires only if no arm      *)
(* above it is ready: the token, then stdin EOF, then the two deadlines,   *)
(* then the stream.                                                        *)

(* mutant: a turn whose completed frame was seen answers end_turn.         *)
CancelYieldsToTerminal(r) ==
  /\ Serving /\ Live(r) /\ r \in cancelled
  /\ Respond(r, IF r \in sawTerminal THEN "end_turn" ELSE "cancelled")
  /\ BreakTurn(r)
  /\ UNCHANGED <<lossy, cancelVars>>

TurnCancelled(r) ==
  /\ Serving /\ Live(r) /\ r \in cancelled
  /\ Respond(r, "cancelled")
  /\ BreakTurn(r)
  /\ UNCHANGED <<lossy, cancelVars>>

(* mutant: the host-gone arm calls end_turn like the others.               *)
HostGoneEndsTurn(r) ==
  /\ Serving /\ Live(r) /\ r \notin cancelled /\ stdin = "eof"
  /\ BreakTurn(r)
  /\ UNCHANGED <<answer, lossy, cancelVars>>

HostGone(r) ==
  /\ Serving /\ Live(r) /\ r \notin cancelled /\ stdin = "eof"
  /\ task' = [task EXCEPT ![r] = "abandoned"]
  /\ DropLocals({r})
  /\ UNCHANGED <<regVars, owner, answer, lossy, outgoing, cancelVars, mainVars>>

(* mutant: the token is not polled before the other arms.                  *)
TokenNotFirst(r) == Serving /\ Live(r) /\ stdin = "open"

Undisturbed(r) == Serving /\ Live(r) /\ r \notin cancelled /\ stdin = "open"

(* mutant: the expired turn breaks before end_turn.                        *)
TimeoutKeepsSlot(r) ==
  /\ Undisturbed(r) /\ "turn" \in due[r]
  /\ SpawnMuxCancel(r)
  /\ Respond(r, "turn_timeout")
  /\ task' = [task EXCEPT ![r] = "ended"]
  /\ DropLocals({r})
  /\ UNCHANGED <<regVars, owner, lossy, outgoing, mainVars>>

(* mutant: the expired turn cancels upstream and answers nobody.           *)
TimeoutSilent(r) ==
  /\ Undisturbed(r) /\ "turn" \in due[r]
  /\ SpawnMuxCancel(r)
  /\ BreakTurn(r)
  /\ UNCHANGED <<answer, lossy>>

TurnTimeout(r) ==
  /\ Undisturbed(r) /\ "turn" \in due[r]
  /\ SpawnMuxCancel(r)
  /\ Respond(r, "turn_timeout")
  /\ BreakTurn(r)
  /\ UNCHANGED lossy

IdleTimeout(r) ==
  /\ Undisturbed(r) /\ due[r] = {"idle"}
  /\ SpawnMuxCancel(r)
  /\ Respond(r, "idle_timeout")
  /\ BreakTurn(r)
  /\ UNCHANGED lossy

(* The first poll computes the deadlines and, with nothing above it ready, *)
(* polls the stream, which sends the POST.                                 *)
OpenStream(r) ==
  /\ Undisturbed(r) /\ task[r] = "spawned"
  /\ task' = [task EXCEPT ![r] = "streaming"]
  /\ upstream' = [upstream EXCEPT ![r] = "running"]
  /\ UNCHANGED <<regVars, owner, answer, sawTerminal, due, lossy, outgoing,
                 deletes, deleted, lostDeletes, mainVars>>

Reading(r) == Undisturbed(r) /\ task[r] = "streaming" /\ due[r] = {}

(* A frame that translates to nothing, or only to Completed.               *)
QuietFrame(r, completed) ==
  /\ Reading(r)
  /\ IF completed
     THEN sawTerminal' = sawTerminal \union {r} /\ FormationStops(r)
     ELSE UNCHANGED <<sawTerminal, upstream>>
  /\ UNCHANGED <<regVars, task, owner, answer, due, lossy, outgoing, deletes,
                 deleted, lostDeletes, mainVars>>

(* A frame with an update, and Completed after it for a `completed` frame  *)
(* whose text had not been streamed.                                       *)
Forward(r, bytes, completed) ==
  /\ Reading(r) /\ conn = "open"
  /\ BufferReserve(owner[r], bytes)
  /\ outgoing' = Append(outgoing, [session |-> owner[r], request |-> r, bytes |-> bytes])
  /\ IF completed
     THEN sawTerminal' = sawTerminal \union {r} /\ FormationStops(r)
     ELSE UNCHANGED <<sawTerminal, upstream>>
  /\ UNCHANGED <<task, owner, answer, due, lossy, deletes, deleted, lostDeletes,
                 mainVars>>

(* mutant: an update that does not fit is skipped.                         *)
OverflowSkips(r, bytes) ==
  /\ Reading(r)
  /\ WouldOverflow(owner[r], bytes)
  /\ lossy' = lossy \union {r}
  /\ UNCHANGED <<regVars, task, owner, answer, sawTerminal, due, outgoing,
                 cancelVars, mainVars>>

Overflow(r, bytes) ==
  /\ Reading(r)
  /\ WouldOverflow(owner[r], bytes)
  /\ SpawnMuxCancel(r)
  /\ Respond(r, "overflow")
  /\ lossy' = lossy \union {r}
  /\ BreakTurn(r)

(* send_notification fails after a successful reservation: the loop breaks *)
(* with neither an answer nor an upstream cancel.                          *)
SendFails(r, bytes) ==
  /\ Reading(r) /\ conn = "closing"
  /\ ~WouldOverflow(owner[r], bytes)
  /\ lossy' = lossy \union {r}
  /\ BreakTurn(r)
  /\ UNCHANGED <<answer, cancelVars>>

StreamDone(r) ==
  /\ Reading(r)
  /\ Respond(r, "end_turn")
  /\ FormationStops(r)
  /\ BreakTurn(r)
  /\ UNCHANGED <<lossy, deletes, deleted, lostDeletes>>

UpstreamError(r) ==
  /\ Reading(r)
  /\ Respond(r, "upstream_error")
  /\ FormationStops(r)
  /\ BreakTurn(r)
  /\ UNCHANGED <<lossy, deletes, deleted, lostDeletes>>

(* What the formation does with a turn whose stream broke is not known;    *)
(* the bridge takes it for over.                                           *)
StreamEnds(r) ==
  /\ Reading(r)
  /\ Respond(r, IF r \in sawTerminal THEN "end_turn" ELSE "truncated")
  /\ FormationStops(r)
  /\ BreakTurn(r)
  /\ UNCHANGED <<lossy, deletes, deleted, lostDeletes>>

TransportFails(r) ==
  /\ Reading(r)
  /\ Respond(r, "transport")
  /\ FormationStops(r)
  /\ BreakTurn(r)
  /\ UNCHANGED <<lossy, deletes, deleted, lostDeletes>>

-----------------------------------------------------------------------------
(* The rest of the connection: the stdout writer with the hook that        *)
(* releases reservations by session, and the spawned cancels.              *)

(* mutant: the writer hook releases nothing.                               *)
WriteWithoutHook ==
  /\ Serving /\ conn = "open" /\ outgoing # <<>>
  /\ outgoing' = Tail(outgoing)
  /\ UNCHANGED <<regVars, turnVars, cancelVars, mainVars>>

WriteLine ==
  /\ Serving /\ conn = "open" /\ outgoing # <<>>
  /\ BufferWritten(Head(outgoing).session)
  /\ outgoing' = Tail(outgoing)
  /\ UNCHANGED <<turnVars, cancelVars, mainVars>>

DeliverCancel(r) ==
  /\ Serving /\ r \in deletes
  /\ deletes' = deletes \ {r}
  /\ deleted' = deleted \union {r}
  /\ CancelRequest(r)
  /\ UNCHANGED <<regVars, turnVars, outgoing, lostDeletes, mainVars>>

(* Time, the host and the SDK.                                             *)
DeadlinePasses(r, kind) ==
  /\ Serving /\ task[r] = "streaming" /\ kind \notin due[r]
  /\ due' = [due EXCEPT ![r] = @ \union {kind}]
  /\ UNCHANGED <<regVars, task, owner, answer, sawTerminal, lossy, outgoing,
                 cancelVars, mainVars>>

HostDisconnects ==
  /\ HostCalls
  /\ stdin' = "eof"
  /\ UNCHANGED <<regVars, turnVars, outgoing, cancelVars, conn, proc, sweep>>

ConnectionFails ==
  /\ Serving /\ conn = "open"
  /\ conn' = "closing"
  /\ UNCHANGED <<regVars, turnVars, outgoing, cancelVars, stdin, proc, sweep>>

-----------------------------------------------------------------------------
(* main: the select between agent::run and the signal, then shutdown.      *)

(* Leaving the select drops agent::run, and every future in it.            *)
LeaveServing ==
  /\ proc' = "stopping"
  /\ task' = [r \in RequestIds |-> IF Live(r) THEN "dropped" ELSE task[r]]
  /\ lostDeletes' = deletes /\ deletes' = {}
  /\ outgoing' = <<>>
  /\ DropLocals(RequestIds)
  /\ stdin' = "eof"
  /\ UNCHANGED <<regVars, owner, answer, lossy, deleted, upstream, conn, sweep>>

(* mutant: the connection waits for the registry to be idle.               *)
ReturnsWhenIdle ==
  /\ Serving /\ stdin = "eof" /\ conn = "open"
  /\ deletes = {} /\ InFlight = {} /\ \A r \in RequestIds : ~Live(r)
  /\ LeaveServing

RunReturns ==
  /\ Serving /\ stdin = "eof" /\ conn = "open"
  /\ deletes = {} /\ \A r \in RequestIds : ~Live(r)
  /\ LeaveServing

RunErrs == Serving /\ conn = "closing" /\ LeaveServing

Signal == Serving /\ LeaveServing

Drain ==
  /\ proc = "stopping"
  /\ sweep' = {active[s] : s \in InFlight}
  /\ DrainActiveTurns
  /\ proc' = "sweeping"
  /\ UNCHANGED <<turnVars, outgoing, cancelVars, stdin, conn>>

SweepCancel(r) ==
  /\ proc = "sweeping" /\ r \in sweep
  /\ sweep' = sweep \ {r}
  /\ deleted' = deleted \union {r}
  /\ CancelRequest(r)
  /\ UNCHANGED <<regVars, turnVars, outgoing, deletes, lostDeletes, stdin, conn, proc>>

(* All cancels done, or SHUTDOWN_CANCEL_WINDOW over: the process exits.    *)
Exit ==
  /\ proc = "sweeping"
  /\ proc' = IF sweep = {} THEN "exited" ELSE "expired"
  /\ UNCHANGED <<regVars, turnVars, outgoing, cancelVars, stdin, conn, sweep>>

Exited == proc \in {"exited", "expired"} /\ UNCHANGED vars

-----------------------------------------------------------------------------
Handlers ==
  \E s \in SessionIds :
    \/ HandleNewSession(s) \/ HandleResume(s)
    \/ HandleCancel(s) \/ HandleClose(s)
    \/ \E r \in RequestIds, textOnly \in BOOLEAN : HandlePrompt(s, r, textOnly)

TurnStep(r) ==
  \/ TurnCancelled(r) \/ HostGone(r) \/ TurnTimeout(r) \/ IdleTimeout(r)
  \/ OpenStream(r) \/ StreamDone(r) \/ UpstreamError(r) \/ StreamEnds(r)
  \/ TransportFails(r)
  \/ \E completed \in BOOLEAN : QuietFrame(r, completed)
  \/ \E bytes \in Sizes :
       \/ \E completed \in BOOLEAN : Forward(r, bytes, completed)
       \/ Overflow(r, bytes) \/ SendFails(r, bytes)

Next ==
  \/ Handlers
  \/ \E r \in RequestIds :
       \/ TurnStep(r) \/ DeliverCancel(r) \/ SweepCancel(r)
       \/ \E kind \in {"turn", "idle"} : DeadlinePasses(r, kind)
  \/ WriteLine \/ HostDisconnects \/ ConnectionFails
  \/ RunReturns \/ RunErrs \/ Signal \/ Drain \/ Exit \/ Exited

Spec == Init /\ [][Next]_vars

(* The runtime polls a ready future, timers fire, an HTTP cancel returns   *)
(* (an answer or an error: CancelRequest), and main goes on.  Nothing is   *)
(* assumed of the host, of the formation's frames, of the outcome of a     *)
(* cancel, or of the cancels of the sweep, which may hang.                 *)
Fairness ==
  /\ \A r \in RequestIds :
       /\ WF_vars(TurnCancelled(r)) /\ WF_vars(HostGone(r))
       /\ WF_vars(OpenStream(r))
       /\ WF_vars(TurnTimeout(r)) /\ WF_vars(IdleTimeout(r))
       /\ WF_vars(DeadlinePasses(r, "turn"))
       /\ WF_vars(DeliverCancel(r))
  /\ WF_vars(RunReturns) /\ WF_vars(RunErrs) /\ WF_vars(Drain) /\ WF_vars(Exit)

FairSpec == Spec /\ Fairness

-----------------------------------------------------------------------------
BridgeTypeOK ==
  /\ RegTypeOK
  /\ task \in [RequestIds -> TaskStates]
  /\ owner \in [RequestIds -> SessionIds \union {NoSession}]
  /\ answer \in [RequestIds -> Answers]
  /\ sawTerminal \subseteq RequestIds /\ lossy \subseteq RequestIds
  /\ due \in [RequestIds -> SUBSET {"turn", "idle"}]
  /\ outgoing \in Seq(Lines)
  /\ deletes \subseteq RequestIds /\ deleted \subseteq RequestIds
  /\ lostDeletes \subseteq RequestIds /\ sweep \subseteq RequestIds
  /\ upstream \in [RequestIds -> {"idle", "running", "missed", "over"}]
  /\ stdin \in {"open", "eof"} /\ conn \in {"open", "closing"}
  /\ proc \in {"serving", "stopping", "sweeping", "exited", "expired"}

(* A turn that runs and was not cancelled holds the slot of the session it *)
(* captured, so the session-keyed calls it makes (buffer_reserve, which    *)
(* ignores a missing turn, and end_turn) act on its own accounting, never  *)
(* on that of a later turn of a reopened session.                          *)
SlotOwned ==
  \A r \in RequestIds :
    Serving /\ Live(r) /\ r \notin cancelled =>
      /\ owner[r] \in registered
      /\ active[owner[r]] = r

(* No session stays "turn in progress" for a turn nobody runs, however the *)
(* turn ended, a failed send included: a slot is held by a live future, by *)
(* a turn left registered for the shutdown path because the host is gone,  *)
(* or, once the connection fails, by a turn that could not be spawned.     *)
NoZombieSlot ==
  \A s \in SessionIds :
    Serving /\ active[s] # NoTurn =>
      /\ owner[active[s]] = s
      /\ \/ Live(active[s])
         \/ task[active[s]] = "abandoned" /\ stdin = "eof"
         \/ task[active[s]] = "dropped" /\ conn = "closing"

(* session/cancel, close and delete win: a turn whose token fired is never *)
(* answered with anything but cancelled, whatever deadlines passed or      *)
(* frames arrived meanwhile, and no other turn is answered so.             *)
CancelWins ==
  \A r \in RequestIds :
    /\ r \in cancelled => answer[r] \in {"none", "undelivered", "cancelled"}
    /\ answer[r] = "cancelled" => r \in cancelled

(* Whatever ends a turn early on the bridge's side (token, timeout, full   *)
(* buffer), a cancel_request for it is spawned or made while the bridge    *)
(* serves.                                                                 *)
CancelPropagated ==
  \A r \in RequestIds :
    Serving /\ conn = "open"
    /\ (r \in cancelled \/ answer[r] \in {"turn_timeout", "idle_timeout", "overflow"})
      => r \in deletes \union deleted

(* max_concurrent_turns bounds the streams open against the formation that *)
(* nobody asked to stop, across closes and reopened sessions.              *)
StreamsWithinCap ==
  Cardinality({r \in RequestIds : Serving /\ Live(r) /\ r \notin cancelled})
    <= MaxConcurrentTurns

(* An update is never dropped while the turn reports success.              *)
NoSilentLoss == \A r \in lossy : answer[r] # "end_turn"

(* A process that exits with its cancel window unspent has made a cancel   *)
(* for every turn still running upstream, but for the cancel tasks that    *)
(* were dropped with the connection.                                       *)
SweepComplete ==
  proc = "exited" /\ conn = "open" =>
    \A r \in RequestIds : upstream[r] = "running" => r \in lostDeletes

(* The claim without the exception: never leave a formation running a turn *)
(* for a dead host.                                                        *)
NoFormationLeftRunning ==
  proc = "exited" /\ conn = "open" =>
    \A r \in RequestIds : upstream[r] # "running"

(* The sizes of the lines queued for one turn, in order, and their sum.    *)
SizesOf(lines, r) ==
  FoldLeft(LAMBDA sizes, line : IF line.request = r THEN Append(sizes, line.bytes)
                                                    ELSE sizes,
           <<>>, lines)

QueuedBytes(r) == Total(SizesOf(outgoing, r))

(* "Queued but unwritten is exactly reserved minus written": the queue of  *)
(* reservations of a turn is the queue of its lines.                       *)
ReservationsExact ==
  \A s \in SessionIds :
    Serving /\ active[s] # NoTurn => pending[s] = SizesOf(outgoing, active[s])

(* The per-turn cap on session/update bytes queued but not yet written.    *)
QueueWithinCap ==
  \A r \in RequestIds : QueuedBytes(r) <= MaxBufferedBytes

(* A prompt that was accepted is resolved, even if the formation never     *)
(* sends anything, unless the host or the connection is gone.              *)
PromptResolved ==
  \A r \in RequestIds :
    Live(r) ~> \/ answer[r] # "none"
               \/ stdin = "eof" \/ conn = "closing" \/ ~Serving

(* A host that hangs up, like a signal, makes the process exit.            *)
HangUpExits == (stdin = "eof") ~> (proc \in {"exited", "expired"})

(* A turn stopped by session/cancel, close, a deadline or a full buffer    *)
(* has its upstream cancel_request made in the end, not only spawned,      *)
(* unless the connection or the process goes first.  What comes of the one *)
(* attempt is not promised.                                                *)
CancelIsMade ==
  \A r \in RequestIds :
    (r \in cancelled \/ answer[r] \in {"turn_timeout", "idle_timeout", "overflow"}) ~>
      (r \in deleted \/ conn = "closing" \/ ~Serving)

-----------------------------------------------------------------------------
(* The host's view of the turns.                                           *)
Phase(r) ==
  CASE task[r] = "unborn" -> "unborn"
    [] Live(r) /\ r \notin cancelled -> "running"
    [] Live(r) /\ r \in cancelled -> "stopping"
    [] OTHER -> "over"

Result(r) == IF answer[r] = "undelivered" THEN "none" ELSE answer[r]

Contract == INSTANCE TurnContract
  WITH Sessions <- SessionIds, Requests <- RequestIds, Cap <- MaxConcurrentTurns,
       Nowhere <- NoSession, Results <- Failures \union {"end_turn"},
       phase <- [r \in RequestIds |-> Phase(r)], place <- owner,
       result <- [r \in RequestIds |-> Result(r)]

(* agent.rs implements the contract.                                       *)
ImplementsContract == Contract!ContractSpec
=============================================================================
