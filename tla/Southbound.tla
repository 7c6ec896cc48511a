----------------------------- MODULE Southbound -----------------------------
(***************************************************************************)
(* The two requests a turn makes of the formation and the network between: *)
(* the chat POST that the first poll of run_turn sends, and the DELETEs    *)
(* that session/cancel, close, timeouts and shutdown spawn.  They travel   *)
(* on connections of their own, so either may arrive first or be lost, and *)
(* no DELETE is ever repeated for being late: an error is logged.          *)
(*                                                                         *)
(* AcpBridge takes a request for delivered once it is made; this module    *)
(* asks what is left of its cancels when it is not.  Sessions, limits and  *)
(* the northbound side are AcpBridge's.                                    *)
(***************************************************************************)
EXTENDS Naturals

CONSTANTS
  Requests,    (* MUXI request ids                                            *)
  MaxDeletes   (* bound: DELETEs of one request on the wire at a time         *)

ASSUME MaxDeletesAssumption == MaxDeletes \in Nat \ {0}

VARIABLES
  turn,       (* the future of each prompt turn                               *)
  slots,      (* requests whose turn is in the registry                       *)
  token,      (* requests whose cancellation token has fired                  *)
  post,       (* the chat request of each turn                                *)
  dels,       (* how many DELETEs of each request are on the wire             *)
  formation,  (* external: the formation's side of each request               *)
  stdin,      (* eof once the host hung up                                    *)
  main,       (* serving until the connection is dropped and the sweep made   *)
  overtaken,  (* history: a DELETE arrived while the POST was on its way      *)
  lost,       (* history: a DELETE never arrived                              *)
  broken      (* history: the stream ended before its terminal frame          *)

vars == <<turn, slots, token, post, dels, formation, stdin, main, overtaken,
          lost, broken>>
network == <<formation, overtaken, lost>>
process == <<stdin, main>>

Init ==
  /\ turn = [r \in Requests |-> "unborn"]
  /\ post = [r \in Requests |-> "unsent"]
  /\ dels = [r \in Requests |-> 0]
  /\ formation = [r \in Requests |-> "unknown"]
  /\ slots = {} /\ token = {} /\ overtaken = {} /\ lost = {} /\ broken = {}
  /\ stdin = "open" /\ main = "serving"

-----------------------------------------------------------------------------
Live(r) == main = "serving" /\ turn[r] \in {"spawned", "streaming"}

SendDelete(r) == dels[r] < MaxDeletes /\ dels' = [dels EXCEPT ![r] = @ + 1]

TurnOver(r) == turn' = [turn EXCEPT ![r] = "over"] /\ slots' = slots \ {r}

(* handle_prompt claims the slot and spawns the turn.                      *)
Prompt(r) ==
  /\ main = "serving" /\ stdin = "open" /\ turn[r] = "unborn"
  /\ turn' = [turn EXCEPT ![r] = "spawned"]
  /\ slots' = slots \union {r}
  /\ UNCHANGED <<token, post, dels, broken, network, process>>

(* mutant: the stream is polled before the token.                          *)
PollsStreamFirst(r) ==
  /\ Live(r) /\ turn[r] = "spawned" /\ stdin = "open"
  /\ turn' = [turn EXCEPT ![r] = "streaming"]
  /\ post' = [post EXCEPT ![r] = "wire"]
  /\ UNCHANGED <<slots, token, dels, broken, network, process>>

(* The biased select reaches the stream, whose first poll sends the POST.  *)
SendPost(r) ==
  /\ Live(r) /\ turn[r] = "spawned" /\ r \notin token /\ stdin = "open"
  /\ turn' = [turn EXCEPT ![r] = "streaming"]
  /\ post' = [post EXCEPT ![r] = "wire"]
  /\ UNCHANGED <<slots, token, dels, broken, network, process>>

(* session/cancel: the turn stays in the registry until it sees its token, *)
(* so the host may cancel again and a further DELETE goes out.             *)
HostCancels(r) ==
  /\ main = "serving" /\ stdin = "open" /\ r \in slots
  /\ token' = token \union {r}
  /\ SendDelete(r)
  /\ UNCHANGED <<turn, slots, post, broken, network, process>>

(* mutant: close stops the turn here and nowhere else.                     *)
ClosesLocally(r) ==
  /\ main = "serving" /\ stdin = "open" /\ r \in slots
  /\ token' = token \union {r} /\ slots' = slots \ {r}
  /\ UNCHANGED <<turn, post, dels, broken, network, process>>

(* session/close and session/delete.                                       *)
HostCloses(r) ==
  /\ main = "serving" /\ stdin = "open" /\ r \in slots
  /\ token' = token \union {r} /\ slots' = slots \ {r}
  /\ SendDelete(r)
  /\ UNCHANGED <<turn, post, broken, network, process>>

(* The token's arm: the stream is dropped, no further DELETE is sent.      *)
SeesToken(r) ==
  /\ Live(r) /\ r \in token
  /\ TurnOver(r)
  /\ UNCHANGED <<token, post, dels, broken, network, process>>

Undisturbed(r) == Live(r) /\ turn[r] = "streaming" /\ r \notin token /\ stdin = "open"

(* mutant: a turn that gives up says nothing upstream.                     *)
GivesUpSilently(r) ==
  /\ Undisturbed(r)
  /\ TurnOver(r)
  /\ UNCHANGED <<token, post, dels, broken, network, process>>

(* turn_timeout, idle_timeout, or updates past the buffer cap.             *)
GivesUp(r) ==
  /\ Undisturbed(r)
  /\ SendDelete(r)
  /\ TurnOver(r)
  /\ UNCHANGED <<token, post, broken, network, process>>

(* The formation's terminal frame reached the turn.                        *)
StreamDone(r) ==
  /\ Undisturbed(r) /\ formation[r] \in {"stopped", "finished"}
  /\ TurnOver(r)
  /\ UNCHANGED <<token, post, dels, broken, network, process>>

(* Transport failure, truncated stream, or a turn whose send_notification  *)
(* fails: the loop breaks, no cancel_request is spawned.                   *)
StreamBreaks(r) ==
  /\ Undisturbed(r)
  /\ broken' = broken \union {r}
  /\ TurnOver(r)
  /\ UNCHANGED <<token, post, dels, network, process>>

HostHangsUp ==
  /\ main = "serving" /\ stdin = "open"
  /\ stdin' = "eof"
  /\ UNCHANGED <<turn, slots, token, post, dels, broken, network, main>>

(* mutant: the host-gone arm calls end_turn like the others.               *)
SeesEofAndEnds(r) ==
  /\ Live(r) /\ r \notin token /\ stdin = "eof"
  /\ TurnOver(r)
  /\ UNCHANGED <<token, post, dels, broken, network, process>>

(* The host is gone: the turn stays registered for the shutdown path.      *)
SeesEof(r) ==
  /\ Live(r) /\ r \notin token /\ stdin = "eof"
  /\ turn' = [turn EXCEPT ![r] = "left"]
  /\ UNCHANGED <<slots, token, post, dels, broken, network, process>>

(* agent::run is dropped with its futures, then the registry is drained    *)
(* and every turn in it cancelled upstream; a turn whose cancel is on the  *)
(* wire is cancelled again.                                                *)
Shutdown ==
  /\ main = "serving" /\ \A r \in slots : dels[r] < MaxDeletes
  /\ main' = "swept"
  /\ token' = token \union slots /\ slots' = {}
  /\ dels' = [r \in Requests |-> IF r \in slots THEN dels[r] + 1 ELSE dels[r]]
  /\ UNCHANGED <<turn, post, broken, stdin, network>>

-----------------------------------------------------------------------------
(* The network and the formation.                                          *)

PostArrives(r) ==
  /\ post[r] = "wire"
  /\ post' = [post EXCEPT ![r] = "arrived"]
  /\ formation' = [formation EXCEPT ![r] = "running"]
  /\ UNCHANGED <<turn, slots, token, dels, overtaken, lost, broken, process>>

(* A failed connection, or one torn down before the request was written.   *)
PostLost(r) ==
  /\ post[r] = "wire"
  /\ post' = [post EXCEPT ![r] = "lost"]
  /\ UNCHANGED <<turn, slots, token, dels, broken, network, process>>

(* A request the formation has not seen is a 404, and is not remembered.   *)
DeleteArrives(r) ==
  /\ dels[r] > 0
  /\ dels' = [dels EXCEPT ![r] = @ - 1]
  /\ formation' = [formation EXCEPT ![r] = IF @ = "running" THEN "stopped" ELSE @]
  /\ overtaken' = IF post[r] = "wire" THEN overtaken \union {r} ELSE overtaken
  /\ UNCHANGED <<turn, slots, token, post, lost, broken, process>>

(* A failed connection, a cancel task dropped with agent::run, or the      *)
(* shutdown window over before the request was out.                        *)
DeleteLost(r) ==
  /\ dels[r] > 0
  /\ dels' = [dels EXCEPT ![r] = @ - 1]
  /\ lost' = lost \union {r}
  /\ UNCHANGED <<turn, slots, token, post, formation, overtaken, broken, process>>

FormationFinishes(r) ==
  /\ formation[r] = "running"
  /\ formation' = [formation EXCEPT ![r] = "finished"]
  /\ UNCHANGED <<turn, slots, token, post, dels, overtaken, lost, broken, process>>

-----------------------------------------------------------------------------
Network(r) ==
  PostArrives(r) \/ PostLost(r) \/ DeleteArrives(r) \/ DeleteLost(r)

TurnStep(r) ==
  \/ SendPost(r) \/ SeesToken(r) \/ GivesUp(r) \/ StreamDone(r) \/ StreamBreaks(r)
  \/ SeesEof(r)

Next ==
  \/ \E r \in Requests :
       \/ Prompt(r) \/ HostCancels(r) \/ HostCloses(r)
       \/ TurnStep(r) \/ Network(r) \/ FormationFinishes(r)
  \/ HostHangsUp \/ Shutdown

Spec == Init /\ [][Next]_vars

(* What is on the wire arrives or is lost.  Nothing else is assumed: not   *)
(* that turns are polled, nor that the formation ever finishes.            *)
FairSpec == Spec /\ \A r \in Requests : WF_vars(Network(r))

-----------------------------------------------------------------------------
TypeOK ==
  /\ turn \in [Requests -> {"unborn", "spawned", "streaming", "over", "left"}]
  /\ slots \subseteq Requests /\ token \subseteq Requests
  /\ post \in [Requests -> {"unsent", "wire", "arrived", "lost"}]
  /\ dels \in [Requests -> 0 .. MaxDeletes]
  /\ formation \in [Requests -> {"unknown", "running", "stopped", "finished"}]
  /\ stdin \in {"open", "eof"} /\ main \in {"serving", "swept"}
  /\ overtaken \subseteq Requests /\ lost \subseteq Requests /\ broken \subseteq Requests

(* Nothing in the bridge waits for r any more.                             *)
Deserted(r) == turn[r] = "over" \/ (main = "swept" /\ turn[r] # "unborn")

Explained == overtaken \union lost \union broken

(* A formation is left running a turn nobody waits for, with no cancel on  *)
(* its way, in three ways only: the DELETE overtook the POST, the DELETE   *)
(* was lost, or the stream broke and the bridge took the turn for over.    *)
OrphansExplained ==
  \A r \in Requests :
    Deserted(r) /\ formation[r] = "running" /\ dels[r] = 0 => r \in Explained

(* A prompt cancelled before its turn was first polled never reaches the   *)
(* formation: its DELETE has nothing to overtake.                          *)
CancelledEarlyNeverStarts ==
  \A r \in Requests :
    [](r \in token /\ post[r] = "unsent" => [](formation[r] = "unknown"))

(* However the requests are ordered on the wire, a cancelled turn comes to *)
(* rest upstream for good, unless its DELETE was overtaken or lost.        *)
CancelSettles ==
  \A r \in Requests :
    r \in token ~> [](formation[r] = "running" => r \in overtaken \union lost)
=============================================================================
