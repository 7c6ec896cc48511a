--------------------------- MODULE TranslatorProofs ---------------------------
(***************************************************************************)
(* What the host is told in a turn, for all texts and tools and streams of *)
(* every length.  Every frame translates to one of a few shapes of events; *)
(* the translator's flags are a summary of what has been sent, and what    *)
(* the properties say of the whole history follows from that summary.      *)
(***************************************************************************)
EXTENDS Translator, FoldLemmas

-----------------------------------------------------------------------------
(* The events.                                                             *)
ToolFrames == {f \in Frames : f.kind = "tool_call"}
ToolIds == {ToolId(f.fields) : f \in ToolFrames}
ToolKinds == {"tool_call", "tool_call_update"}
TextUpdateKinds == {"delta", "thought", "plan", "final", "final_break"}

TextUpdates == [event : {"update"}, kind : TextUpdateKinds, of : Texts \union {NoText}]
ToolUpdates == [event : {"update"}, kind : ToolKinds,
                of : ToolIds \X {"in_progress", "completed", "none"}]
SomeUpdate == TextUpdates \union ToolUpdates
Event == SomeUpdate \union {Completed, Done, Error}

(* The step of Updates, as a function.                                     *)
Sends == [v \in Seq(Event) \X Event |->
            IF v[2].event = "update" THEN Append(v[1], v[2]) ELSE v[1]]

(* It starts from nothing and keeps to sequences of events.                *)
LEMMA SendsFolds ==
  /\ Folding(Seq(Event), Event, Sends, <<>>)
  /\ \A sent \in Seq(Event), e \in Event :
       Sends[<<sent, e>>] = IF e.event = "update" THEN Append(sent, e) ELSE sent
<1>1. \A sent \in Seq(Event), e \in Event :
        Sends[<<sent, e>>] = IF e.event = "update" THEN Append(sent, e) ELSE sent
  BY DEF Sends
<1>2. <<>> \in Seq(Event) /\ \A sent \in Seq(Event), e \in Event : Append(sent, e) \in Seq(Event)
  OBVIOUS
<1>3. Sends \in [Seq(Event) \X Event -> Seq(Event)]
  BY <1>2 DEF Sends
<1> QED BY <1>1, <1>2, <1>3 DEF Folding

(* Updates is the fold of that step.                                       *)
LEMMA UpdatesIsFold ==
  ASSUME NEW s \in Seq(Event)
  PROVE  Updates(s) = Fold(Sends, <<>>, s)
<1> DEFINE n == Len(s)
           V == Seq(Event)
           Is(f) == f = [S \in SUBSET (1 .. n) |->
                           IF S = {} THEN <<>>
                           ELSE IF s[Max(S)].event = "update"
                                THEN Append(f[S \ {Max(S)}], s[Max(S)])
                                ELSE f[S \ {Max(S)}]]
           iter == CHOOSE f : Is(f)
<1>1. Updates(s) = iter[1 .. n]
  <2>1. DOMAIN s = 1 .. n
    OBVIOUS
  <2> QED BY <2>1 DEF Updates, FoldLeft, MapThenFoldSet
<1> HIDE DEF V
<1>2. /\ Folding(V, Event, Sends, <<>>)
      /\ \A sent \in V, e \in Event :
           Sends[<<sent, e>>] = IF e.event = "update" THEN Append(sent, e) ELSE sent
  BY SendsFolds DEF V
<1>3. PICK f : Unfolds(V, Sends, <<>>, s, n, f)
  BY <1>2, UnfoldsExists
<1> HIDE DEF n
<1>4. \A S \in SUBSET (1 .. n) : S # {} =>
        s[Max(S)] \in Event /\ S \ {Max(S)} \in SUBSET (1 .. n)
  BY LastPosition DEF n
<1>5. Is(f)
  <2>1. ASSUME NEW S \in SUBSET (1 .. n), S # {}
        PROVE  f[S] = IF s[Max(S)].event = "update"
                      THEN Append(f[S \ {Max(S)}], s[Max(S)])
                      ELSE f[S \ {Max(S)}]
    <3>1. f[S \ {Max(S)}] \in V /\ s[Max(S)] \in Event
      BY <1>3, <1>4, <2>1 DEF Unfolds
    <3>2. f[S] = Sends[<<f[S \ {Max(S)}], s[Max(S)]>>]
      BY <1>3, <2>1 DEF Unfolds
    <3> QED BY <1>2, <3>1, <3>2
  <2>2. f = [S \in SUBSET (1 .. n) |-> f[S]] /\ f[{}] = <<>>
    BY <1>3 DEF Unfolds
  <2> QED BY <2>1, <2>2
<1>6. Is(iter)
  <2> HIDE DEF Is
  <2> QED BY <1>5
<1> HIDE DEF iter
<1>7. \A S \in SUBSET (1 .. n) :
        iter[S] = IF S = {} THEN <<>>
                  ELSE IF s[Max(S)].event = "update"
                       THEN Append(iter[S \ {Max(S)}], s[Max(S)])
                       ELSE iter[S \ {Max(S)}]
  BY <1>6
<1>8. Reaches(V, Sends, <<>>, s, iter)
  BY <1>2, <1>4, <1>7 DEF Reaches, n
<1>9. iter[1 .. n] = Fold(Sends, <<>>, s)
  BY <1>2, <1>8, UnfoldsFold DEF n
<1> QED BY <1>1, <1>9

(* The updates among at most one update and a terminal event behind it.    *)
LEMMA UpdatesOf ==
  ASSUME NEW u \in SomeUpdate, NEW e \in {Completed, Done, Error}
  PROVE  /\ Updates(<<>>) = <<>>
         /\ Updates(<<u>>) = <<u>>
         /\ Updates(<<e>>) = <<>>
         /\ Updates(<<u, e>>) = <<u>>
<1>1. u \in Event /\ e \in Event /\ u.event = "update" /\ e.event # "update"
  BY DEF Event, SomeUpdate, TextUpdates, ToolUpdates, Completed, Done, Error
<1> HIDE DEF Event
<1>2. <<>> \in Seq(Event) /\ <<u>> \in Seq(Event) /\ <<e>> \in Seq(Event)
      /\ <<u, e>> \in Seq(Event)
      /\ <<u>> = Append(<<>>, u) /\ <<e>> = Append(<<>>, e) /\ <<u, e>> = Append(<<u>>, e)
  BY <1>1
<1>3. Updates(<<>>) = <<>>
  BY <1>2, UpdatesIsFold, SendsFolds, FoldEmpty
<1>4. \A s \in Seq(Event), x \in Event :
        Append(s, x) \in Seq(Event) /\ Updates(s) \in Seq(Event) =>
          Updates(Append(s, x)) = IF x.event = "update" THEN Append(Updates(s), x)
                                                        ELSE Updates(s)
  <2> SUFFICES ASSUME NEW s \in Seq(Event), NEW x \in Event,
                      Append(s, x) \in Seq(Event), Updates(s) \in Seq(Event)
               PROVE  Updates(Append(s, x)) =
                        IF x.event = "update" THEN Append(Updates(s), x) ELSE Updates(s)
    OBVIOUS
  <2>1. Fold(Sends, <<>>, Append(s, x)) = Sends[<<Fold(Sends, <<>>, s), x>>]
    BY SendsFolds, FoldAppend
  <2> QED BY <2>1, UpdatesIsFold, SendsFolds
<1>5. Updates(<<u>>) = <<u>> /\ Updates(<<e>>) = <<>>
  BY <1>1, <1>2, <1>3, <1>4
<1>6. Updates(<<u, e>>) = <<u>>
  BY <1>1, <1>2, <1>4, <1>5
<1> QED BY <1>3, <1>5, <1>6

-----------------------------------------------------------------------------
(* What a frame translates to: nothing, one update, Completed after at     *)
(* most one update, or one terminal event, and which.                      *)
Yields(f, events, sent) ==
  \/ events = sent /\ (sent = <<>> \/ \E u \in SomeUpdate : sent = <<u>>)
     /\ f.kind \notin {"done", "error", "error_event", "completed"}
  \/ events = sent \o <<Completed>> /\ (sent = <<>> \/ \E u \in SomeUpdate : sent = <<u>>)
     /\ f.kind = "completed"
  \/ events = <<Done>> /\ sent = <<>> /\ f.kind = "done"
  \/ events = <<Error>> /\ sent = <<>> /\ f.kind \in {"error", "error_event"}

(* The update a frame makes the bridge send, if any.                       *)
Sent(f) ==
  CASE f.kind \in {"token_text", "content"} -> MessageChunk("delta", f.text)
    [] f.kind = "thinking" ->
         IF ForwardThoughts THEN <<Update("thought", f.text)>> ELSE <<>>
    [] f.kind = "planning" -> <<Update("plan", f.text)>>
    [] f.kind = "tool_call" -> TranslateToolCall(f)
    [] f.kind = "completed" ->
         IF streamedContent /\ ~f.discontinuity THEN <<>>
         ELSE MessageChunk(IF streamedContent THEN "final_break" ELSE "final", f.text)
    [] OTHER -> <<>>

(* The fields of a frame.                                                  *)
LEMMA FrameFields ==
  ASSUME NEW f \in Frames
  PROVE  /\ f.kind \in PlainKinds \union TextKinds \union {"completed", "tool_call"}
         /\ f.kind \in TextKinds => f.text \in Texts \union {NoText}
         /\ f.kind = "completed" => /\ f.text \in Texts \union {NoText}
                                    /\ f.discontinuity \in BOOLEAN
         /\ f.kind = "tool_call" => f \in ToolFrames
BY DEF Frames, PlainKinds, TextKinds, ToolFrames

(* A text makes at most one update.                                        *)
LEMMA ChunkUpdate ==
  ASSUME NEW kind \in TextUpdateKinds, NEW text \in Texts \union {NoText}
  PROVE  /\ Update(kind, text) \in SomeUpdate
         /\ \/ MessageChunk(kind, text) = <<>>
            \/ MessageChunk(kind, text) = <<Update(kind, text)>>
BY DEF SomeUpdate, TextUpdates, Update, MessageChunk

(* A tool frame makes one.                                                 *)
LEMMA ToolUpdate ==
  ASSUME NEW f \in ToolFrames
  PROVE  \E u \in ToolUpdates :
           /\ TranslateToolCall(f) = <<u>> /\ u.of[1] = ToolId(f.fields)
           /\ u.kind = IF ToolId(f.fields) \in seenTools THEN "tool_call_update"
                                                         ELSE "tool_call"
<1> DEFINE id == ToolId(f.fields)
           status == ToolStatus(f.status)
<1>1. id \in ToolIds
  BY DEF ToolIds
<1>2. status \in {"in_progress", "completed", "none"}
  BY DEF ToolStatus
<1>3. TranslateToolCall(f) =
        IF id \in seenTools
        THEN <<Update("tool_call_update", <<id, status>>)>>
        ELSE <<Update("tool_call", <<id, IF status = "none" THEN "in_progress" ELSE status>>)>>
  BY DEF TranslateToolCall
<1> HIDE DEF id, status
<1>4. CASE id \in seenTools
  <2> DEFINE u == Update("tool_call_update", <<id, status>>)
  <2>1. u \in ToolUpdates /\ u.of[1] = id /\ u.kind = "tool_call_update"
    BY <1>1, <1>2 DEF ToolUpdates, ToolKinds, Update
  <2> QED BY <1>3, <1>4, <2>1 DEF id
<1>5. CASE id \notin seenTools
  <2> DEFINE first == IF status = "none" THEN "in_progress" ELSE status
             u == Update("tool_call", <<id, first>>)
  <2>1. first \in {"in_progress", "completed", "none"}
    BY <1>2
  <2> HIDE DEF first
  <2>2. u \in ToolUpdates /\ u.of[1] = id /\ u.kind = "tool_call"
    BY <1>1, <2>1 DEF ToolUpdates, ToolKinds, Update
  <2> QED BY <1>3, <1>5, <2>2 DEF id, first
<1> QED BY <1>4, <1>5

(* Every frame yields what Sent says, whatever the translator remembers.   *)
LEMMA FrameYields ==
  ASSUME NEW f \in Frames
  PROVE  Yields(f, Translate(f), Sent(f))
<1>0. /\ f.kind \in PlainKinds \union TextKinds \union {"completed", "tool_call"}
      /\ f.kind \in TextKinds => f.text \in Texts \union {NoText}
      /\ f.kind = "completed" => /\ f.text \in Texts \union {NoText}
                                 /\ f.discontinuity \in BOOLEAN
      /\ f.kind = "tool_call" => f \in ToolFrames
  BY FrameFields
<1>1. CASE f.kind \in PlainKinds
  BY <1>1 DEF Translate, Sent, Yields, PlainKinds
<1>2. CASE f.kind \in {"token_text", "content"}
  <2>1. \/ MessageChunk("delta", f.text) = <<>>
        \/ \E u \in SomeUpdate : MessageChunk("delta", f.text) = <<u>>
    BY <1>0, <1>2, ChunkUpdate DEF TextKinds, TextUpdateKinds
  <2> QED BY <1>2, <2>1 DEF Translate, Sent, Yields
<1>3. CASE f.kind = "thinking"
  <2>1. Update("thought", f.text) \in SomeUpdate
    BY <1>0, <1>3, ChunkUpdate DEF TextKinds, TextUpdateKinds
  <2> QED BY <1>3, <2>1 DEF Translate, Sent, Yields
<1>4. CASE f.kind = "planning"
  <2>1. Update("plan", f.text) \in SomeUpdate
    BY <1>0, <1>4, ChunkUpdate DEF TextKinds, TextUpdateKinds
  <2> QED BY <1>4, <2>1 DEF Translate, Sent, Yields
<1>5. CASE f.kind = "tool_call"
  <2>1. \E u \in SomeUpdate : TranslateToolCall(f) = <<u>>
    BY <1>0, <1>5, ToolUpdate DEF SomeUpdate
  <2> QED BY <1>5, <2>1 DEF Translate, Sent, Yields
<1>6. CASE f.kind = "completed"
  <2> DEFINE kind == IF f.discontinuity /\ streamedContent THEN "final_break" ELSE "final"
             chunk == MessageChunk(kind, f.text)
  <2>1. chunk = <<>> \/ \E u \in SomeUpdate : chunk = <<u>>
    BY <1>0, <1>6, ChunkUpdate DEF TextUpdateKinds
  <2>2. CASE streamedContent /\ ~f.discontinuity
    <3>1. Translate(f) = <<Completed>> /\ Sent(f) = <<>>
      BY <1>6, <2>2 DEF Translate, TranslateCompleted, Sent
    <3>2. <<Completed>> = <<>> \o <<Completed>>
      OBVIOUS
    <3> QED BY <1>6, <3>1, <3>2 DEF Yields
  <2>3. CASE ~(streamedContent /\ ~f.discontinuity)
    <3>1. Translate(f) = Append(chunk, Completed) /\ Sent(f) = chunk
      BY <1>0, <1>6, <2>3 DEF Translate, TranslateCompleted, Sent
    <3> HIDE DEF chunk
    <3>2. Append(chunk, Completed) = chunk \o <<Completed>>
      BY <2>1
    <3> QED BY <1>6, <2>1, <3>1, <3>2 DEF Yields
  <2> QED BY <2>2, <2>3
<1> QED BY <1>0, <1>1, <1>2, <1>3, <1>4, <1>5, <1>6 DEF TextKinds

(* Two events in a row.                                                    *)
LEMMA Pairs ==
  ASSUME NEW a, NEW b
  PROVE  <<>> \o <<b>> = <<b>> /\ <<a>> \o <<b>> = <<a, b>>
<1>1. /\ <<a>> \in Seq({a, b}) /\ <<b>> \in Seq({a, b})
      /\ \A s \in Seq({a, b}) : <<>> \o s = s /\ s \o <<b>> = Append(s, b)
  OBVIOUS
<1>2. Append(<<a>>, b) = [i \in 1 .. 2 |-> IF i = 1 THEN a ELSE b]
  BY <1>1
<1>3. <<a, b>> = [i \in 1 .. 2 |-> IF i = 1 THEN a ELSE b]
  OBVIOUS
<1> QED BY <1>1, <1>2, <1>3

(* What each short list of events contains.                                *)
LEMMA Holding ==
  ASSUME NEW a, NEW b, NEW e
  PROVE  /\ ~Contains(<<>>, e)
         /\ Contains(<<a>>, e) <=> a = e
         /\ Contains(<<a, b>>, e) <=> a = e \/ b = e
<1>1. ~Contains(<<>>, e)
  BY DEF Contains
<1>2. Contains(<<a>>, e) <=> a = e
  <2>1. Len(<<a>>) = 1 /\ <<a>>[1] = a
    OBVIOUS
  <2> QED BY <2>1 DEF Contains
<1>3. Contains(<<a, b>>, e) <=> a = e \/ b = e
  <2>1. Len(<<a, b>>) = 2 /\ <<a, b>>[1] = a /\ <<a, b>>[2] = b /\ 1 .. 2 = {1, 2}
    OBVIOUS
  <2> QED BY <2>1 DEF Contains
<1> QED BY <1>1, <1>2, <1>3

(* So what is sent are the updates of a frame, and a frame's terminal      *)
(* events tell its kind.                                                   *)
LEMMA FrameSends ==
  ASSUME NEW f \in Frames
  PROVE  /\ Updates(Translate(f)) = Sent(f)
         /\ Sent(f) = <<>> \/ \E u \in SomeUpdate : Sent(f) = <<u>>
         /\ Contains(Translate(f), Done) <=> f.kind = "done"
         /\ Contains(Translate(f), Error) <=> f.kind \in {"error", "error_event"}
         /\ Contains(Translate(f), Completed) <=> f.kind = "completed"
<1> DEFINE events == Translate(f)
           sent == Sent(f)
<1>1. Yields(f, events, sent)
  BY FrameYields
<1> HIDE DEF events, sent
<1>2. sent = <<>> \/ \E u \in SomeUpdate : sent = <<u>>
  BY <1>1 DEF Yields
<1>3. \A u \in SomeUpdate, e \in {Completed, Done, Error} :
        /\ Updates(<<>>) = <<>> /\ Updates(<<u>>) = <<u>>
        /\ Updates(<<e>>) = <<>> /\ Updates(<<u, e>>) = <<u>>
  BY UpdatesOf
<1>4. PICK u \in SomeUpdate : sent = <<>> \/ sent = <<u>>
  <2>1. Update("plan", NoText) \in SomeUpdate
    BY ChunkUpdate DEF TextUpdateKinds
  <2> QED BY <1>2, <2>1
<1>5. u \notin {Completed, Done, Error}
  BY DEF SomeUpdate, TextUpdates, ToolUpdates, Completed, Done, Error
<1>6. /\ Completed # Done /\ Completed # Error /\ Done # Error
  BY DEF Completed, Done, Error
<1>7. events \in {<<>>, <<u>>, <<Completed>>, <<u, Completed>>, <<Done>>, <<Error>>}
  <2>1. <<>> \o <<Completed>> = <<Completed>> /\ <<u>> \o <<Completed>> = <<u, Completed>>
    BY Pairs
  <2> QED BY <1>1, <1>4, <2>1 DEF Yields
<1>8. Updates(events) = sent
  <2>1. <<>> \o <<Completed>> = <<Completed>> /\ <<u>> \o <<Completed>> = <<u, Completed>>
    BY Pairs
  <2>2. /\ Updates(<<>>) = <<>> /\ Updates(<<u>>) = <<u>>
        /\ Updates(<<Completed>>) = <<>> /\ Updates(<<u, Completed>>) = <<u>>
        /\ Updates(<<Done>>) = <<>> /\ Updates(<<Error>>) = <<>>
    BY <1>3
  <2> QED BY <1>1, <1>4, <2>1, <2>2 DEF Yields
<1>9. \A e \in {Completed, Done, Error} :
        /\ ~Contains(<<>>, e) /\ ~Contains(<<u>>, e) /\ Contains(<<e>>, e)
        /\ Contains(<<u, e>>, e)
        /\ \A d \in {Completed, Done, Error} : d # e => ~Contains(<<d>>, e) /\ ~Contains(<<u, d>>, e)
  <2> HIDE DEF Completed, Done, Error
  <2> QED BY <1>5, Holding
<1>10. /\ Contains(events, Done) <=> f.kind = "done"
       /\ Contains(events, Error) <=> f.kind \in {"error", "error_event"}
       /\ Contains(events, Completed) <=> f.kind = "completed"
  <2>1. <<>> \o <<Completed>> = <<Completed>> /\ <<u>> \o <<Completed>> = <<u, Completed>>
    BY Pairs
  <2> HIDE DEF Completed, Done, Error
  <2>2. CASE /\ events = sent /\ f.kind \notin {"done", "error", "error_event", "completed"}
    BY <1>4, <1>9, <2>2
  <2>3. CASE events = sent \o <<Completed>> /\ f.kind = "completed"
    BY <1>4, <1>6, <1>9, <2>1, <2>3
  <2>4. CASE events = <<Done>> /\ f.kind = "done"
    BY <1>6, <1>9, <2>4
  <2>5. CASE events = <<Error>> /\ f.kind \in {"error", "error_event"}
    BY <1>6, <1>9, <2>5
  <2> QED BY <1>1, <2>2, <2>3, <2>4, <2>5 DEF Yields
<1> QED BY <1>2, <1>8, <1>10 DEF events, sent

(* ... and so AcpBridge's abstraction of a frame holds in every state.     *)
LEMMA ShapesHold == FrameShapes
<1> SUFFICES ASSUME NEW f \in Frames
             PROVE  LET events == Translate(f)
                    IN  \/ events = Updates(events) /\ Len(events) <= 1
                        \/ events = Updates(events) \o <<Completed>> /\ Len(events) <= 2
                        \/ events \in {<<Done>>, <<Error>>}
  BY DEF FrameShapes
<1>1. Yields(f, Translate(f), Sent(f)) /\ Updates(Translate(f)) = Sent(f)
  BY FrameYields, FrameSends
<1>2. \A u : /\ Len(<<>>) <= 1 /\ Len(<<u>>) <= 1
             /\ Len(<<>> \o <<Completed>>) <= 2 /\ Len(<<u>> \o <<Completed>>) <= 2
  OBVIOUS
<1> QED BY <1>1, <1>2 DEF Yields

-----------------------------------------------------------------------------
(* The translator's flags summarise what was sent.                         *)
Told ==
  /\ emitted \in Seq(SomeUpdate)
  /\ \A i \in DOMAIN emitted : IsKind(i, ToolKinds) => emitted[i].of[1] \in seenTools
  /\ \A id \in seenTools :
       \E i \in DOMAIN emitted : IsKind(i, {"tool_call"}) /\ emitted[i].of[1] = id
  /\ ~streamedContent => \A i \in DOMAIN emitted : ~IsKind(i, {"delta"})

(* A frame adds at most one update to what was sent.                       *)
LEMMA Receives ==
  ASSUME emitted \in Seq(SomeUpdate), NEW f \in Frames, ReceiveFrame(f)
  PROVE  /\ Remember(f)
         /\ \/ Sent(f) = <<>> /\ emitted' = emitted
            \/ \E u \in SomeUpdate : Sent(f) = <<u>> /\ emitted' = Append(emitted, u)
<1>1. emitted' = emitted \o Sent(f) /\ Remember(f)
  BY FrameSends DEF ReceiveFrame
<1>2. Sent(f) = <<>> \/ \E u \in SomeUpdate : Sent(f) = <<u>>
  BY FrameSends
<1>3. emitted \o <<>> = emitted /\ \A u \in SomeUpdate : emitted \o <<u>> = Append(emitted, u)
  OBVIOUS
<1> QED BY <1>1, <1>2, <1>3

(* Which update, from which frame.                                         *)
LEMMA SentKinds ==
  ASSUME NEW f \in Frames, NEW u \in SomeUpdate, Sent(f) = <<u>>
  PROVE  /\ u.kind = "delta" => f.kind \in {"token_text", "content"}
         /\ u.kind = "final" => f.kind = "completed" /\ ~streamedContent
         /\ u.kind \in ToolKinds <=> f.kind = "tool_call"
         /\ f.kind = "tool_call" =>
              /\ u.of[1] = ToolId(f.fields)
              /\ u.kind = IF ToolId(f.fields) \in seenTools THEN "tool_call_update"
                                                            ELSE "tool_call"
<1>1. CASE f.kind = "tool_call"
  <2>1. f \in ToolFrames
    BY <1>1 DEF ToolFrames
  <2>2. PICK v \in ToolUpdates :
          /\ TranslateToolCall(f) = <<v>> /\ v.of[1] = ToolId(f.fields)
          /\ v.kind = IF ToolId(f.fields) \in seenTools THEN "tool_call_update"
                                                        ELSE "tool_call"
    BY <2>1, ToolUpdate
  <2>3. v = u
    BY <1>1, <2>2 DEF Sent
  <2> QED BY <1>1, <2>2, <2>3 DEF ToolKinds
<1>2. CASE f.kind # "tool_call"
  <2>1. \A kind, text : MessageChunk(kind, text) = <<u>> => u.kind = kind
    BY DEF MessageChunk, Update
  <2>2. \A kind, text : <<Update(kind, text)>> = <<u>> => u.kind = kind
    BY DEF Update
  <2>3. CASE f.kind \in {"token_text", "content"}
    <3>1. u.kind = "delta"
      BY <2>1, <2>3 DEF Sent
    <3> QED BY <2>3, <3>1 DEF ToolKinds
  <2>4. CASE f.kind = "thinking"
    <3>1. u.kind = "thought"
      BY <2>2, <2>4 DEF Sent
    <3> QED BY <2>4, <3>1 DEF ToolKinds
  <2>5. CASE f.kind = "planning"
    <3>1. u.kind = "plan"
      BY <2>2, <2>5 DEF Sent
    <3> QED BY <2>5, <3>1 DEF ToolKinds
  <2>6. CASE f.kind = "completed"
    <3>1. u.kind = IF streamedContent THEN "final_break" ELSE "final"
      BY <2>1, <2>6 DEF Sent
    <3> QED BY <2>6, <3>1 DEF ToolKinds
  <2>7. CASE f.kind \notin {"token_text", "content", "thinking", "planning", "completed"}
    BY <1>2, <2>7 DEF Sent
  <2> QED BY <2>3, <2>4, <2>5, <2>6, <2>7
<1> QED BY <1>1, <1>2

(* What one more update does to the history.                               *)
LEMMA OneMore ==
  ASSUME emitted \in Seq(SomeUpdate), NEW u \in SomeUpdate, emitted' = Append(emitted, u)
  PROVE  /\ emitted' \in Seq(SomeUpdate) /\ Len(emitted) \in Nat
         /\ DOMAIN emitted = 1 .. Len(emitted)
         /\ DOMAIN emitted' = DOMAIN emitted \union {Len(emitted) + 1}
         /\ \A i \in DOMAIN emitted : emitted'[i] = emitted[i]
         /\ emitted'[Len(emitted) + 1] = u
OBVIOUS

(* The summary stays true with every frame.                                *)
LEMMA ToldReceives ==
  ASSUME Told, NEW f \in Frames, ReceiveFrame(f)
  PROVE  Told'
<1>0. emitted \in Seq(SomeUpdate)
  BY DEF Told
<1>1. Remember(f)
  BY DEF ReceiveFrame
<1>2. CASE Sent(f) = <<>> /\ emitted' = emitted
  <2>1. f.kind # "tool_call"
    <3> SUFFICES ASSUME f.kind = "tool_call" PROVE FALSE
      OBVIOUS
    <3>1. f \in ToolFrames
      BY DEF ToolFrames
    <3>2. \E u : Sent(f) = <<u>>
      BY <3>1, ToolUpdate DEF Sent
    <3> QED BY <1>2, <3>2
  <2> QED BY <1>1, <1>2, <2>1 DEF Told, Remember, IsKind
<1>3. ASSUME NEW u \in SomeUpdate, Sent(f) = <<u>>, emitted' = Append(emitted, u)
      PROVE  Told'
  <2> DEFINE last == Len(emitted) + 1
  <2>1. /\ emitted' \in Seq(SomeUpdate)
        /\ DOMAIN emitted' = DOMAIN emitted \union {last}
        /\ \A i \in DOMAIN emitted : emitted'[i] = emitted[i]
        /\ emitted'[last] = u
    BY <1>0, <1>3, OneMore
  <2> HIDE DEF last
  <2>2. /\ u.kind = "delta" => f.kind \in {"token_text", "content"}
        /\ u.kind \in ToolKinds <=> f.kind = "tool_call"
        /\ f.kind = "tool_call" =>
             /\ u.of[1] = ToolId(f.fields)
             /\ u.kind = IF ToolId(f.fields) \in seenTools THEN "tool_call_update"
                                                           ELSE "tool_call"
    BY <1>3, SentKinds
  <2>3. \A i \in DOMAIN emitted' :
          emitted'[i].kind \in ToolKinds => emitted'[i].of[1] \in seenTools'
    BY <1>1, <2>1, <2>2 DEF Told, Remember, IsKind
  <2>4. \A id \in seenTools' :
          \E i \in DOMAIN emitted' : emitted'[i].kind = "tool_call" /\ emitted'[i].of[1] = id
    <3> SUFFICES ASSUME NEW id \in seenTools'
                 PROVE  \E i \in DOMAIN emitted' :
                          emitted'[i].kind = "tool_call" /\ emitted'[i].of[1] = id
      OBVIOUS
    <3>1. CASE id \in seenTools
      <4>1. PICK i \in DOMAIN emitted : IsKind(i, {"tool_call"}) /\ emitted[i].of[1] = id
        BY <3>1 DEF Told
      <4> QED BY <2>1, <4>1 DEF IsKind
    <3>2. CASE id \notin seenTools
      <4>1. f.kind = "tool_call" /\ id = ToolId(f.fields)
        BY <1>1, <3>2 DEF Remember
      <4> QED BY <2>1, <2>2, <3>2, <4>1
    <3> QED BY <3>1, <3>2
  <2>5. ~streamedContent' => \A i \in DOMAIN emitted' : emitted'[i].kind # "delta"
    BY <1>1, <2>1, <2>2 DEF Told, Remember, IsKind
  <2> QED BY <2>1, <2>3, <2>4, <2>5 DEF Told, IsKind
<1> QED BY <1>0, <1>2, <1>3, Receives

(* The host is told of each tool first by tool_call, and once.             *)
LEMMA ToolsReceives ==
  ASSUME Told, ToolsAnnounced, NEW f \in Frames, ReceiveFrame(f)
  PROVE  ToolsAnnounced'
<1>0. emitted \in Seq(SomeUpdate)
  BY DEF Told
<1>1. ASSUME NEW u \in SomeUpdate, Sent(f) = <<u>>, emitted' = Append(emitted, u)
      PROVE  ToolsAnnounced'
  <2> DEFINE last == Len(emitted) + 1
  <2>1. /\ Len(emitted) \in Nat
        /\ DOMAIN emitted = 1 .. Len(emitted)
        /\ DOMAIN emitted' = DOMAIN emitted \union {last}
        /\ \A i \in DOMAIN emitted : emitted'[i] = emitted[i]
        /\ emitted'[last] = u
    BY <1>0, <1>1, OneMore
  <2>2. \A i \in DOMAIN emitted : \A j \in 1 .. (i - 1) : j \in DOMAIN emitted
    BY <2>1
  <2>3. 1 .. (last - 1) = DOMAIN emitted
    BY <2>1
  <2> HIDE DEF last
  <2>4. /\ u.kind \in ToolKinds => u.of[1] = ToolId(f.fields)
        /\ u.kind = "tool_call_update" => ToolId(f.fields) \in seenTools
        /\ u.kind = "tool_call" => ToolId(f.fields) \notin seenTools
    BY <1>1, SentKinds DEF ToolKinds
  <2>5. ASSUME NEW i \in DOMAIN emitted
        PROVE  /\ emitted'[i].kind = "tool_call_update" =>
                    \E j \in 1 .. (i - 1) : emitted'[j].kind = "tool_call"
                                           /\ emitted'[j].of[1] = emitted'[i].of[1]
               /\ emitted'[i].kind = "tool_call" =>
                    \A j \in 1 .. (i - 1) :
                      emitted'[j].kind \in ToolKinds =>
                        emitted'[j].of[1] # emitted'[i].of[1]
    BY <2>1, <2>2 DEF ToolsAnnounced, IsKind, ToolKinds
  <2>6. u.kind = "tool_call_update" =>
          \E j \in 1 .. (last - 1) : emitted'[j].kind = "tool_call"
                                    /\ emitted'[j].of[1] = emitted'[last].of[1]
    <3> SUFFICES ASSUME u.kind = "tool_call_update"
                 PROVE  \E j \in DOMAIN emitted : /\ emitted[j].kind = "tool_call"
                                                 /\ emitted[j].of[1] = u.of[1]
      BY <2>1, <2>3
    <3> QED BY <2>4 DEF Told, IsKind, ToolKinds
  <2>7. u.kind = "tool_call" =>
          \A j \in 1 .. (last - 1) :
            emitted'[j].kind \in ToolKinds => emitted'[j].of[1] # emitted'[last].of[1]
    <3> SUFFICES ASSUME u.kind = "tool_call", NEW j \in DOMAIN emitted,
                        emitted[j].kind \in ToolKinds
                 PROVE  emitted[j].of[1] # u.of[1]
      BY <2>1, <2>3
    <3> QED BY <2>4 DEF Told, IsKind, ToolKinds
  <2> QED BY <2>1, <2>5, <2>6, <2>7 DEF ToolsAnnounced, IsKind, ToolKinds
<1>2. CASE emitted' = emitted
  BY <1>2 DEF ToolsAnnounced, IsKind
<1> QED BY <1>0, <1>1, <1>2, Receives

(* Terminal text goes out as such only when no delta did.                  *)
LEMMA ReplyReceives ==
  ASSUME Told, NoDuplicatedReply, NEW f \in Frames, ReceiveFrame(f)
  PROVE  NoDuplicatedReply'
<1>0. emitted \in Seq(SomeUpdate)
  BY DEF Told
<1>1. ASSUME NEW u \in SomeUpdate, Sent(f) = <<u>>, emitted' = Append(emitted, u)
      PROVE  NoDuplicatedReply'
  <2> DEFINE last == Len(emitted) + 1
  <2>1. /\ Len(emitted) \in Nat
        /\ DOMAIN emitted = 1 .. Len(emitted)
        /\ DOMAIN emitted' = DOMAIN emitted \union {last}
        /\ \A i \in DOMAIN emitted : emitted'[i] = emitted[i]
        /\ emitted'[last] = u
    BY <1>0, <1>1, OneMore
  <2>2. \A i \in DOMAIN emitted : \A j \in 1 .. (i - 1) : j \in DOMAIN emitted
    BY <2>1
  <2>3. 1 .. (last - 1) = DOMAIN emitted
    BY <2>1
  <2> HIDE DEF last
  <2>4. u.kind = "final" => \A i \in DOMAIN emitted : emitted[i].kind # "delta"
    BY <1>1, SentKinds DEF Told, IsKind
  <2> QED BY <2>1, <2>2, <2>3, <2>4 DEF NoDuplicatedReply, IsKind
<1>2. CASE emitted' = emitted
  BY <1>2 DEF NoDuplicatedReply, IsKind
<1> QED BY <1>0, <1>1, <1>2, Receives

(* Nothing but frames is told to the host.                                 *)
LEMMA ToldInvariant == Spec => [](Told /\ ToolsAnnounced /\ NoDuplicatedReply)
<1> DEFINE All == Told /\ ToolsAnnounced /\ NoDuplicatedReply
<1>1. Init => All
  BY DEF Init, Told, ToolsAnnounced, NoDuplicatedReply
<1>2. All /\ [Next]_vars => All'
  <2> SUFFICES ASSUME All, [Next]_vars PROVE All'
    OBVIOUS
  <2>1. ASSUME NEW f \in Frames, ReceiveFrame(f) PROVE All'
    BY <2>1, ToldReceives, ToolsReceives, ReplyReceives
  <2>2. CASE UNCHANGED <<emitted, seenTools, streamedContent>>
    BY <2>2 DEF Told, ToolsAnnounced, NoDuplicatedReply, IsKind
  <2> QED BY <2>1, <2>2 DEF Next, StreamEnds, TransportFails, Resolved, vars
<1> QED BY <1>1, <1>2, PTL DEF Spec

(* A frame makes at most one buffer reservation, and Completed is never    *)
(* seen for a reply that overflowed: what AcpBridge takes a frame for.     *)
THEOREM TranslatorShapes == Spec => []FrameShapes
BY ShapesHold, PTL

(* First sighting, over streams of every length and all tool names.        *)
THEOREM TranslatorTools == Spec => []ToolsAnnounced
BY ToldInvariant, PTL

(* The dedup rule, over streams of every length.                           *)
THEOREM TranslatorReply == Spec => []NoDuplicatedReply
BY ToldInvariant, PTL

(* No stream, however it is cut off, makes a turn a success that the       *)
(* formation did not report.                                               *)
THEOREM TranslatorSuccess == Spec => []SuccessIsReported
<1>1. Init => SuccessIsReported
  BY DEF Init, SuccessIsReported
<1>2. SuccessIsReported /\ [Next]_vars => SuccessIsReported'
  <2> SUFFICES ASSUME SuccessIsReported, [Next]_vars PROVE SuccessIsReported'
    OBVIOUS
  <2>1. ASSUME NEW f \in Frames, ReceiveFrame(f) PROVE SuccessIsReported'
    <3>1. /\ outcome' = IF f.kind = "done" THEN "end_turn"
                        ELSE IF f.kind \in {"error", "error_event"} THEN "upstream_error"
                        ELSE "open"
          /\ closed' = f.kind
      BY <2>1, FrameSends DEF ReceiveFrame
    <3> QED BY <3>1 DEF SuccessIsReported
  <2>2. CASE StreamEnds
    BY <2>2 DEF StreamEnds, StreamEndOutcome, SuccessIsReported
  <2>3. CASE TransportFails
    BY <2>3 DEF TransportFails, SuccessIsReported
  <2>4. CASE Resolved \/ UNCHANGED vars
    BY <2>4 DEF Resolved, vars, SuccessIsReported
  <2> QED BY <2>1, <2>2, <2>3, <2>4 DEF Next
<1> QED BY <1>1, <1>2, PTL DEF Spec
=============================================================================
