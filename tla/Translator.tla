------------------------------ MODULE Translator ------------------------------
(***************************************************************************)
(* One prompt turn's stream: the stateful Translator of src/translate.rs   *)
(* and what run_turn does with the events it returns, from the first frame *)
(* to the result, with the formation sending any frames it likes.          *)
(*                                                                         *)
(* A frame is what the code distinguishes after JSON parsing and unwrapping*)
(* of {"token": ...}: its kind, the text event_text finds in it, the names *)
(* a tool frame carries, its status and the discontinuity flag.  A text is *)
(* a model value or NoText, the empty string.                              *)
(***************************************************************************)
EXTENDS Integers, Sequences, FiniteSets, SequencesExt

CONSTANTS
  Texts, NoText,     (* non-empty texts, and the empty one                    *)
  ToolNames,         (* values of a tool frame's name fields                  *)
  DefaultTool,       (* the literal "tool": a frame that names nothing        *)
  ForwardThoughts,   (* config forward_thoughts                               *)
  MaxUpdates         (* bound of the model: updates per turn                  *)

ASSUME TextAssumption == NoText \notin Texts
ASSUME ThoughtsAssumption == ForwardThoughts \in BOOLEAN
ASSUME BoundAssumption == MaxUpdates \in Nat

VARIABLES
  seenTools,        (* seen_tools                                             *)
  streamedContent,  (* streamed_content                                       *)
  sawTerminal,      (* saw_terminal of run_turn                               *)
  emitted,          (* session/update notifications, in the order queued      *)
  outcome,          (* the prompt's result: "open" while the stream runs      *)
  replied,          (* history: a completed frame with text was translated    *)
  closed            (* history: the kind of the last frame, or "eof"          *)

vars == <<seenTools, streamedContent, sawTerminal, emitted, outcome, replied, closed>>

-----------------------------------------------------------------------------
(* Frames.                                                                 *)

(* The fields a tool id may come from, in the order they are tried; the    *)
(* frames of the model carry the first and the last.                       *)
ToolKeys == <<"tool_call_id", "tool_id", "id", "tool", "name">>
FrameKeys == {"tool_call_id", "name"}
RawStatuses == {"running", "success", "strange", "absent"}

PlainKinds == {"done", "ui", "error_event", "malformed", "token_other",
               "progress", "error", "other"}
TextKinds  == {"token_text", "content", "thinking", "planning"}

Frames ==
  [kind : PlainKinds]
  \union [kind : TextKinds, text : Texts \union {NoText}]
  \union [kind : {"completed"}, text : Texts \union {NoText}, discontinuity : BOOLEAN]
  \union [kind : {"tool_call"}, status : RawStatuses,
          fields : UNION {[keys -> ToolNames] : keys \in SUBSET FrameKeys}]

-----------------------------------------------------------------------------
(* The events a frame translates to.                                       *)

Update(kind, of) == [event |-> "update", kind |-> kind, of |-> of]
Completed == [event |-> "completed"]
Done      == [event |-> "done"]
Error     == [event |-> "error"]

MessageChunk(kind, text) == IF text = NoText THEN <<>> ELSE <<Update(kind, text)>>

ToolId(fields) ==
  LET present == SelectSeq(ToolKeys, LAMBDA k : k \in DOMAIN fields)
  IN  IF present = <<>> THEN DefaultTool ELSE fields[Head(present)]

(* The statuses the code knows; any other leaves the status out.           *)
ToolStatus(raw) ==
  CASE raw = "running" -> "in_progress"
    [] raw = "success" -> "completed"
    [] OTHER -> "none"

TranslateToolCall(f) ==
  LET id == ToolId(f.fields)
      status == ToolStatus(f.status)
  IN  IF id \in seenTools
      THEN <<Update("tool_call_update", <<id, status>>)>>
      ELSE <<Update("tool_call",
                    <<id, IF status = "none" THEN "in_progress" ELSE status>>)>>

(* mutant: the turn is completed before its text is queued.                *)
CompletedBeforeText(f) ==
  IF ~streamedContent \/ f.discontinuity
  THEN <<Completed>> \o MessageChunk(IF f.discontinuity /\ streamedContent
                                     THEN "final_break" ELSE "final", f.text)
  ELSE <<Completed>>

(* The kind of chunk that carries the terminal text: final, or final_break *)
(* for one set off with a paragraph break from an abandoned generation.    *)
TranslateCompleted(f) ==
  IF ~streamedContent \/ f.discontinuity
  THEN Append(MessageChunk(IF f.discontinuity /\ streamedContent
                           THEN "final_break" ELSE "final", f.text),
              Completed)
  ELSE <<Completed>>

Translate(f) ==
  CASE f.kind = "done" -> <<Done>>
    [] f.kind \in {"error_event", "error"} -> <<Error>>
    [] f.kind \in {"token_text", "content"} -> MessageChunk("delta", f.text)
    [] f.kind = "thinking" ->
         IF ForwardThoughts THEN <<Update("thought", f.text)>> ELSE <<>>
    [] f.kind = "planning" -> <<Update("plan", f.text)>>
    [] f.kind = "tool_call" -> TranslateToolCall(f)
    [] f.kind = "completed" -> TranslateCompleted(f)
    [] OTHER -> <<>>

-----------------------------------------------------------------------------
(* run_turn on the stream: one action per kind of item.                    *)

Init ==
  /\ seenTools = {} /\ streamedContent = FALSE /\ sawTerminal = FALSE
  /\ emitted = <<>> /\ outcome = "open" /\ replied = FALSE /\ closed = "none"

(* The updates among the events, in the order the loop over them sends.    *)
Updates(events) ==
  FoldLeft(LAMBDA sent, e : IF e.event = "update" THEN Append(sent, e) ELSE sent,
           <<>>, events)

(* mutant: the early return for string tokens skips the flag.              *)
ForgetsTokens(f) ==
  /\ seenTools' = IF f.kind = "tool_call"
                  THEN seenTools \union {ToolId(f.fields)} ELSE seenTools
  /\ streamedContent' = (streamedContent \/ f.kind = "content")

(* mutant: a tool is remembered by the id field alone.                     *)
ForgetsUnnamedTools(f) ==
  /\ seenTools' = IF f.kind = "tool_call" /\ "tool_call_id" \in DOMAIN f.fields
                  THEN seenTools \union {ToolId(f.fields)} ELSE seenTools
  /\ streamedContent' = (streamedContent \/ f.kind \in {"token_text", "content"})

(* The translator's own state after a frame.                               *)
Remember(f) ==
  /\ seenTools' = IF f.kind = "tool_call"
                  THEN seenTools \union {ToolId(f.fields)} ELSE seenTools
  /\ streamedContent' = (streamedContent \/ f.kind \in {"token_text", "content"})

ReceiveFrame(f) ==
  LET events == Translate(f)
  IN  /\ outcome = "open" /\ Len(emitted) < MaxUpdates
      /\ Remember(f)
      /\ emitted' = emitted \o Updates(events)
      /\ sawTerminal' = (sawTerminal \/ Contains(events, Completed))
      /\ outcome' = CASE Contains(events, Done)  -> "end_turn"
                      [] Contains(events, Error) -> "upstream_error"
                      [] OTHER -> "open"
      /\ replied' = (replied \/ (f.kind = "completed" /\ f.text # NoText))
      /\ closed' = f.kind

(* mutant: the end of the stream is taken for the end of the turn.         *)
EndIsSuccess == "end_turn"

StreamEndOutcome == IF sawTerminal THEN "end_turn" ELSE "truncated"

StreamEnds ==
  /\ outcome = "open"
  /\ outcome' = StreamEndOutcome
  /\ closed' = "eof"
  /\ UNCHANGED <<seenTools, streamedContent, sawTerminal, emitted, replied>>

TransportFails ==
  /\ outcome = "open"
  /\ outcome' = "transport"
  /\ closed' = "broken"
  /\ UNCHANGED <<seenTools, streamedContent, sawTerminal, emitted, replied>>

Resolved == outcome # "open" /\ UNCHANGED vars

Next == (\E f \in Frames : ReceiveFrame(f)) \/ StreamEnds \/ TransportFails \/ Resolved

Spec == Init /\ [][Next]_vars

-----------------------------------------------------------------------------
(* What AcpBridge abstracts a frame to: at any point of a stream a frame   *)
(* yields nothing, one update, Completed after at most one update, or one  *)
(* terminal event.  So a frame makes at most one buffer reservation, and   *)
(* Completed is never seen for a reply that overflowed.                    *)
FrameShapes ==
  \A f \in Frames :
    LET events == Translate(f)
    IN  \/ events = Updates(events) /\ Len(events) <= 1
        \/ events = Updates(events) \o <<Completed>> /\ Len(events) <= 2
        \/ events \in {<<Done>>, <<Error>>}

IsKind(i, kinds) == emitted[i].kind \in kinds

(* First sighting: over a whole turn the host is told of each tool once,   *)
(* with tool_call, and only then of its updates.                           *)
ToolsAnnounced ==
  \A i \in DOMAIN emitted :
    /\ IsKind(i, {"tool_call_update"}) =>
         \E j \in 1..(i - 1) : IsKind(j, {"tool_call"})
                               /\ emitted[j].of[1] = emitted[i].of[1]
    /\ IsKind(i, {"tool_call"}) =>
         \A j \in 1..(i - 1) :
           IsKind(j, {"tool_call", "tool_call_update"}) =>
             emitted[j].of[1] # emitted[i].of[1]

(* The dedup rule: text of a completed frame never follows streamed deltas *)
(* as if it continued them.  After deltas it comes only with the paragraph *)
(* break of a discontinuity.                                               *)
NoDuplicatedReply ==
  \A i \in DOMAIN emitted :
    IsKind(i, {"final"}) => \A j \in 1..(i - 1) : ~IsKind(j, {"delta"})

(* Success is never guessed: a turn that resolves end_turn got a terminal  *)
(* frame from the formation, and a stream that just ended before one is a  *)
(* failure.                                                                *)
SuccessIsReported ==
  /\ outcome = "end_turn" => closed = "done" \/ (closed = "eof" /\ sawTerminal)
  /\ outcome = "truncated" => ~sawTerminal

(* Emit terminal text unless deltas already carried it: a turn whose       *)
(* completed frame had text showed the host some text.                     *)
ReplyShown ==
  replied => \E i \in DOMAIN emitted : IsKind(i, {"delta", "final", "final_break"})
=============================================================================
