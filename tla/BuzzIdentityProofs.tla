-------------------------- MODULE BuzzIdentityProofs --------------------------
(***************************************************************************)
(* The identity of a turn, for prompts of every length and any lines at    *)
(* all.  First, what no further line of a prompt can change.  Then, line by*)
(* line, that the searches by position find what a single pass finds.  And *)
(* from there, what a prompt that Buzz composed resolves to, by an         *)
(* invariant that says what the pass has found in the block so far.        *)
(***************************************************************************)
EXTENDS BuzzIdentity, FoldLemmas, FiniteSetTheorems, SequenceTheorems

(* A text one line longer: the positions it has, and what is at them.      *)
LEMMA AppendFacts ==
  ASSUME NEW old \in Seq(Line), NEW line \in Line
  PROVE  LET new == Append(old, line) IN
         /\ new \in Seq(Line)
         /\ Len(old) \in Nat /\ Len(new) = Len(old) + 1
         /\ DOMAIN old = 1 .. Len(old)
         /\ DOMAIN new = DOMAIN old \union {Len(new)}
         /\ \A i \in DOMAIN old : new[i] = old[i]
         /\ new[Len(new)] = line
  OBVIOUS

(* The block's header is the first one: it stays the header.               *)
LEMMA MarkerStays ==
  ASSUME NEW old \in Seq(Line), NEW line \in Line, Headers(old) # {}
  PROVE  /\ Marker(old) \in DOMAIN old
         /\ Marker(Append(old, line)) = Marker(old)
         /\ MultiForm(Append(old, line)) = MultiForm(old)
<1> DEFINE new == Append(old, line)
<1>1. Headers(old) \in SUBSET Nat /\ Headers(new) \in SUBSET Nat
  BY AppendFacts DEF Headers
<1>2. Headers(old) \subseteq Headers(new)
  BY AppendFacts DEF Headers
<1>3. \A i \in Headers(new) \ Headers(old), j \in Headers(old) : j <= i
  BY AppendFacts DEF Headers
<1>4. Marker(new) = Marker(old)
  BY <1>1, <1>2, <1>3, MinOfMore DEF Marker
<1>5. Marker(old) \in DOMAIN old
  BY <1>1, MinOfNats DEF Marker, Headers
<1> QED BY <1>4, <1>5, AppendFacts DEF MultiForm

(* Only a separator of a multi-event block starts a section.               *)
LEMMA SectionsStay ==
  ASSUME NEW old \in Seq(Line), NEW line \in Line, Headers(old) # {}
  PROVE  LET new == Append(old, line) IN
         /\ SectionStarts(old) \subseteq DOMAIN old
         /\ SectionStarts(old) \subseteq SectionStarts(new)
         /\ SectionStarts(new) \subseteq SectionStarts(old) \union {Len(new)}
         /\ ~(MultiForm(old) /\ IsSectionSeparator(line)) =>
              SectionStarts(new) = SectionStarts(old)
<1> DEFINE new == Append(old, line)
<1>1. Marker(new) = Marker(old) /\ Marker(old) \in DOMAIN old
  BY MarkerStays
<1>2. CASE MultiForm(old)
  <2>1. MultiForm(new)
    BY <1>2, MarkerStays
  <2>2. SectionStarts(old) =
          {i \in DOMAIN old : i > Marker(old) /\ IsSectionSeparator(old[i])}
    BY <1>2 DEF SectionStarts
  <2>3. SectionStarts(new) =
          {i \in DOMAIN new : i > Marker(old) /\ IsSectionSeparator(new[i])}
    BY <1>1, <2>1 DEF SectionStarts
  <2> HIDE DEF new
  <2>4. /\ DOMAIN new = DOMAIN old \union {Len(new)}
        /\ \A i \in DOMAIN old : new[i] = old[i]
        /\ new[Len(new)] = line
    BY AppendFacts DEF new
  <2>5. SectionStarts(old) \subseteq SectionStarts(new)
    BY <2>2, <2>3, <2>4
  <2>6. SectionStarts(new) \subseteq SectionStarts(old) \union {Len(new)}
    BY <2>2, <2>3, <2>4
  <2>7. ~IsSectionSeparator(line) => SectionStarts(new) = SectionStarts(old)
    BY <2>2, <2>3, <2>4
  <2> QED BY <1>2, <2>2, <2>5, <2>6, <2>7 DEF new
<1>3. CASE ~MultiForm(old)
  <2>1. ~MultiForm(new)
    BY <1>3, MarkerStays
  <2> QED BY <1>1, <1>3, <2>1 DEF SectionStarts
<1> QED BY <1>2, <1>3

(* Once a Channel: line is in the block, what channel mode takes from the  *)
(* text is what it takes from any longer one.                              *)
LEMMA ChannelStays ==
  ASSUME NEW old \in Seq(Line), NEW line \in Line,
         ChannelDecided(old)
  PROVE  /\ ChannelDecided(Append(old, line))
         /\ ChannelCapture(Append(old, line)) = ChannelCapture(old)
<1> DEFINE new == Append(old, line)
<1> HIDE DEF new
<1>0. Headers(old) # {} /\ ChannelLines(old) # {}
  BY DEF ChannelDecided
<1>1. /\ Len(old) \in Nat /\ Len(new) = Len(old) + 1
      /\ DOMAIN old = 1 .. Len(old)
      /\ DOMAIN new = DOMAIN old \union {Len(new)}
      /\ \A i \in DOMAIN old : new[i] = old[i]
  BY AppendFacts DEF new
<1>2. /\ SectionStarts(old) \subseteq SectionStarts(new)
      /\ SectionStarts(new) \subseteq SectionStarts(old) \union {Len(new)}
  BY <1>0, SectionsStay DEF new
<1>3. ChannelLines(old) \in SUBSET Nat /\ ChannelLines(new) \in SUBSET Nat
  BY <1>1 DEF ChannelLines
<1>4. ChannelLines(old) \subseteq ChannelLines(new)
  BY <1>1, <1>2 DEF ChannelLines
<1>5. \A i \in ChannelLines(new) \ ChannelLines(old) : i = Len(new)
  BY <1>1, <1>2 DEF ChannelLines
<1>6. \A i \in ChannelLines(new) \ ChannelLines(old), j \in ChannelLines(old) : j <= i
  BY <1>1, <1>5 DEF ChannelLines
<1>7. Min(ChannelLines(new)) = Min(ChannelLines(old))
  BY <1>0, <1>3, <1>4, <1>6, MinOfMore
<1>8. Min(ChannelLines(old)) \in DOMAIN old
  BY <1>0, <1>3, MinOfNats DEF ChannelLines
<1>9. ChannelLines(new) # {}
  BY <1>0, <1>4
<1>10. Headers(new) # {}
  BY <1>0, <1>1 DEF Headers
<1> QED BY <1>0, <1>1, <1>7, <1>8, <1>9, <1>10 DEF ChannelCapture, ChannelDecided, new

(* Once the last section has its From: line, what sender mode takes from   *)
(* the text stays as long as no section starts.                            *)
LEMMA SenderStays ==
  ASSUME NEW old \in Seq(Line), NEW line \in Line,
         SenderDecided(old),
         ~(MultiForm(old) /\ IsSectionSeparator(line))
  PROVE  /\ SenderDecided(Append(old, line))
         /\ MultiForm(Append(old, line)) = MultiForm(old)
         /\ LastSender(Append(old, line)) = LastSender(old)
<1> DEFINE new == Append(old, line)
           start == Max(SectionStarts(old))
           FromLines(t) == {i \in Section(t, start) : IsFromLine(t[i])}
<1> HIDE DEF new, start
<1>0. /\ Headers(old) # {} /\ SectionStarts(old) # {}
      /\ \E i \in Section(old, start) : IsFromLine(old[i])
  BY DEF SenderDecided, start
<1>1. /\ Len(old) \in Nat /\ Len(new) = Len(old) + 1
      /\ DOMAIN old = 1 .. Len(old)
      /\ DOMAIN new = DOMAIN old \union {Len(new)}
      /\ \A i \in DOMAIN old : new[i] = old[i]
  BY AppendFacts DEF new
<1>2. SectionStarts(new) = SectionStarts(old)
  BY <1>0, SectionsStay DEF new
<1>3. /\ Section(old, start) = Section(new, start) \intersect DOMAIN old
      /\ Section(new, start) \subseteq DOMAIN new
  BY <1>1, <1>2 DEF Section
<1>4. FromLines(old) \subseteq FromLines(new) /\ FromLines(old) # {}
  BY <1>0, <1>1, <1>3
<1>5. \A i \in FromLines(new) \ FromLines(old) : i = Len(new)
  BY <1>1, <1>3
<1>6. FromLines(old) \in SUBSET Nat /\ FromLines(new) \in SUBSET Nat
  BY <1>1, <1>3
<1>7. \A i \in FromLines(new) \ FromLines(old), j \in FromLines(old) : j <= i
  BY <1>1, <1>3, <1>5
<1>8. /\ Min(FromLines(new)) = Min(FromLines(old))
      /\ Min(FromLines(old)) \in FromLines(old)
  <2> HIDE DEF FromLines
  <2> QED BY <1>4, <1>6, <1>7, MinOfMore, MinOfNats
<1>9. FromLines(new) # {}
  BY <1>4
<1>10. new[Min(FromLines(new))] = old[Min(FromLines(old))]
  BY <1>1, <1>3, <1>8
<1>11. Sender(new, start) = Sender(old, start)
  BY <1>4, <1>9, <1>10 DEF Sender
<1>12. LastSender(new) = LastSender(old)
  BY <1>0, <1>2, <1>11 DEF LastSender, start
<1>13. Headers(new) # {}
  BY <1>0, <1>1 DEF Headers
<1>14. \E i \in Section(new, start) : IsFromLine(new[i])
  BY <1>9
<1>15. SenderDecided(new)
  BY <1>0, <1>2, <1>13, <1>14 DEF SenderDecided, start
<1>16. MultiForm(new) = MultiForm(old)
  BY <1>0, MarkerStays DEF new
<1> QED BY <1>12, <1>15, <1>16 DEF new

-----------------------------------------------------------------------------
(* What Buzz writes are lines.                                             *)
LEMMA RenderedLines ==
  ASSUME NEW captures \in Seq(Captures)
  PROVE  {Plain("separator"), Plain("single"), Channel(captures), From(captures)}
           \subseteq Line
<1>1. <<>> \in Seq(Captures)
  OBVIOUS
<1>2. Plain("separator") \in Line /\ Plain("single") \in Line
  BY <1>1 DEF Line, Forms, Plain
<1>3. Channel(captures) \in Line
  BY DEF Line, Forms, Channel, Plain
<1>4. From(captures) \in Line
  BY DEF Line, Forms, From, Plain
<1> QED BY <1>2, <1>3, <1>4

(* The text is made of lines, and a batch has the channel of its session.  *)
TextTyped ==
  /\ text \in Seq(Line)
  /\ channel \in Uuids \/ (declared = 0 /\ events = <<>>)

(* The line of the header of a batch.                                      *)
HeaderLine(n, form) == IF form = "multi" THEN MultiHeader(n) ELSE Plain(form)

(* It is one, of the batch's form, and declares its events.                *)
LEMMA HeaderIsLine ==
  ASSUME NEW n \in 1 .. MaxEvents, NEW form \in {"multi", "single"}
  PROVE  /\ HeaderLine(n, form) \in Line
         /\ IsHeader(HeaderLine(n, form)) /\ HeaderLine(n, form).form = form
         /\ form = "multi" => HeaderLine(n, form).count = n
<1>1. n \in Nat
  BY BoundsAssumption
<1>2. <<>> \in Seq(Captures)
  OBVIOUS
<1>3. HeaderLine(n, form) = [form |-> form, indented |-> FALSE,
                             count |-> IF form = "multi" THEN n ELSE 0,
                             captures |-> <<>>, closed |-> FALSE]
  BY DEF HeaderLine, MultiHeader, Plain
<1>4. HeaderLine(n, form) \in Line
  BY <1>1, <1>2, <1>3 DEF Line, Forms
<1> QED BY <1>3, <1>4 DEF IsHeader

(* What becomes of two lines that are joined is a line.                    *)
LEMMA GluedLines ==
  ASSUME NEW first \in Line, NEW second \in Line
  PROVE  Glue(first, second) \in Line
<1> DEFINE joined == CASE first.form \in {"separator", "multi"} -> "other"
                       [] first.form = "unclosed" -> "single"
                       [] OTHER -> first.form
<1>1. Glue(first, second) =
        [form |-> joined, indented |-> first.indented, count |-> first.count,
         captures |-> first.captures \o second.captures, closed |-> second.closed]
  BY DEF Glue
<1>2. joined \in Forms
  BY DEF Line, Forms
<1>3. first.captures \o second.captures \in Seq(Captures)
  BY DEF Line
<1> HIDE DEF joined
<1> QED BY <1>1, <1>2, <1>3 DEF Line

(* Behind its context a batch starts with its header, or with a context    *)
(* whose last line has swallowed it.                                       *)
LEMMA StartText ==
  ASSUME NEW c \in Uuids, NEW n \in 1 .. MaxEvents, NEW form \in {"multi", "single"},
         StartBatch(c, n, form)
  PROVE  /\ context' \in Seq(Line) /\ text' \in Seq(Line)
         /\ headerLost' \in BOOLEAN
         /\ headerLost' => text' = context'
         /\ ~headerLost' => text' = Append(context', HeaderLine(n, form))
<1> DEFINE line == HeaderLine(n, form)
<1>1. line \in Line
  BY HeaderIsLine
<1>2. PICK block \in Contexts :
        \/ context' = block /\ text' = Append(block, line) /\ headerLost' = FALSE
        \/ /\ block # <<>>
           /\ context' = Append(Front(block), Glue(Last(block), line))
           /\ text' = context' /\ headerLost' = TRUE
  BY DEF StartBatch, HeaderLine
<1>3. block \in Seq(Line)
  BY ContextAssumption
<1> HIDE DEF line
<1>4. CASE context' = block /\ text' = Append(block, line) /\ headerLost' = FALSE
  <2>1. ~headerLost' /\ headerLost' \in BOOLEAN
    BY <1>4
  <2>2. Append(block, line) \in Seq(Line)
    BY <1>1, <1>3
  <2> QED BY <1>3, <1>4, <2>1, <2>2 DEF line
<1>5. CASE /\ block # <<>>
           /\ context' = Append(Front(block), Glue(Last(block), line))
           /\ text' = context' /\ headerLost' = TRUE
  <2>1. Front(block) \in Seq(Line) /\ Last(block) \in Line
    BY <1>3, <1>5 DEF Front, Last
  <2>2. Glue(Last(block), line) \in Line
    BY <1>1, <2>1, GluedLines
  <2>3. Append(Front(block), Glue(Last(block), line)) \in Seq(Line)
    BY <2>1, <2>2
  <2> QED BY <1>5, <2>3
<1> QED BY <1>2, <1>4, <1>5

(* The text is made of lines from the first one on.                        *)
LEMMA StartTyped ==
  ASSUME NEW c \in Uuids, NEW n \in 1 .. MaxEvents, NEW form \in {"multi", "single"},
         StartBatch(c, n, form)
  PROVE  TextTyped'
<1>1. channel' \in Uuids
  BY DEF StartBatch, Compose
<1> QED BY <1>1, StartText DEF TextTyped

(* An event is appended line by line: an optional separator, a Channel:    *)
(* line and a From: line.                                                  *)
Opened == IF header = "multi" THEN Append(text, Plain("separator")) ELSE text

(* Rendering an event appends a place line and a sender line to what opens  *)
(* it; neither is a separator.                                             *)
LEMMA RenderedByLine ==
  ASSUME TextTyped, NEW sender \in Pubkeys, NEW name \in Names,
         RenderEvent(sender, name)
  PROVE  /\ Plain("separator") \in Line
         /\ Opened \in Seq(Line)
         /\ \E place \in Line, who \in Line :
              /\ ~IsSectionSeparator(place) /\ ~IsSectionSeparator(who)
              /\ Append(Opened, place) \in Seq(Line)
              /\ text' = Append(Append(Opened, place), who)
<1>1. channel \in Uuids
  BY DEF TextTyped, RenderEvent
<1>2. name \in Seq(Captures)
  BY NamesAssumption
<1>3. Append(name, channel) \in Seq(Captures) /\ Append(name, sender) \in Seq(Captures)
  BY <1>1, <1>2 DEF Captures
<1> DEFINE place == Channel(Append(name, channel))
           who == From(Append(name, sender))
<1>4. place \in Line /\ who \in Line /\ Plain("separator") \in Line
  BY <1>3, RenderedLines
<1>5. ~IsSectionSeparator(place) /\ ~IsSectionSeparator(who)
  BY DEF IsSectionSeparator, Channel, From, Plain
<1>6. text' = Append(Append(Opened, place), who)
  BY DEF RenderEvent, Opened
<1> HIDE DEF place, who
<1>7. Opened \in Seq(Line) /\ Append(Opened, place) \in Seq(Line)
  BY <1>4 DEF Opened, TextTyped
<1> QED BY <1>4, <1>5, <1>6, <1>7

(* Every prompt is a text of lines.                                        *)
LEMMA PromptTypeCorrect == Spec => []TextTyped
<1>1. Init => TextTyped
  BY DEF Init, TextTyped
<1>2. TextTyped /\ [Next]_vars => TextTyped'
  <2> SUFFICES ASSUME TextTyped, [Next]_vars PROVE TextTyped'
    OBVIOUS
  <2>1. CASE Resolved \/ UNCHANGED vars
    BY <2>1 DEF Resolved, TextTyped, vars, prompt
  <2>2. CASE StartPlain
    BY <2>2 DEF StartPlain, Compose, TextTyped
  <2>3. ASSUME NEW line \in FreeLines, WriteFreely(line) PROVE TextTyped'
    <3>1. line \in Line
      BY LinesAssumption
    <3> QED BY <2>3, <3>1 DEF WriteFreely, TextTyped
  <2>4. ASSUME NEW c \in Uuids, NEW n \in 1 .. MaxEvents,
               StartBatch(c, n, "multi") \/ StartBatch(c, n, "single")
        PROVE  TextTyped'
    BY <2>4, StartTyped
  <2>5. ASSUME NEW sender \in Pubkeys, NEW name \in Names, RenderEvent(sender, name)
        PROVE  TextTyped'
    <3>1. text' \in Seq(Line)
      BY <2>5, RenderedByLine
    <3>2. channel' \in Uuids
      BY <2>5 DEF RenderEvent, TextTyped
    <3> QED BY <3>1, <3>2 DEF TextTyped
  <2>6. ASSUME NEW line \in ContentLines, WriteContent(line) PROVE TextTyped'
    <3>1. line \in Line
      BY LinesAssumption
    <3> QED BY <2>6, <3>1 DEF WriteContent, TextTyped
  <2>7. CASE HandlePrompt
    BY <2>7 DEF HandlePrompt, TextTyped, prompt
  <2> QED BY <2>1, <2>2, <2>3, <2>4, <2>5, <2>6, <2>7 DEF Next
<1> QED BY <1>1, <1>2, PTL DEF Spec

(* A step that goes on with a prompt appends a line, or an event, or       *)
(* leaves the text as it is.                                               *)
LEMMA Continues ==
  ASSUME TextTyped, [Next]_vars, phase = "composing"
  PROVE  \/ text' = text
         \/ \E line \in Line : text' = Append(text, line)
         \/ \E sender \in Pubkeys, name \in Names : RenderEvent(sender, name)
<1>1. ~ StartPlain /\ \A c, n, form : ~ StartBatch(c, n, form)
  BY DEF StartPlain, StartBatch, Compose
<1> QED BY <1>1, LinesAssumption
        DEF Next, Resolved, WriteFreely, WriteContent, HandlePrompt, vars, prompt

(* In channel mode the first Channel: line of the block decides for good:  *)
(* nothing further down any prompt adds, removes or replaces an identity.  *)
THEOREM FirstChannelDecides == Spec => ChannelVerdictFinal
<1> DEFINE Final == phase = "composing" /\ ChannelDecided(text) =>
                      ChannelCapture(text') = ChannelCapture(text)
<1>1. TextTyped /\ [Next]_vars => [Final]_vars
  <2> SUFFICES ASSUME TextTyped, [Next]_vars, phase = "composing", ChannelDecided(text)
               PROVE  ChannelCapture(text') = ChannelCapture(text)
    OBVIOUS
  <2>0. text \in Seq(Line)
    BY DEF TextTyped
  <2>1. ASSUME NEW line \in Line, text' = Append(text, line)
        PROVE  ChannelCapture(text') = ChannelCapture(text)
    BY <2>0, <2>1, ChannelStays
  <2>2. ASSUME NEW sender \in Pubkeys, NEW name \in Names, RenderEvent(sender, name)
        PROVE  ChannelCapture(text') = ChannelCapture(text)
    <3>1. /\ Plain("separator") \in Line /\ Opened \in Seq(Line)
          /\ \E place \in Line, who \in Line :
               /\ Append(Opened, place) \in Seq(Line)
               /\ text' = Append(Append(Opened, place), who)
      BY <2>2, RenderedByLine
    <3>2. ChannelDecided(Opened) /\ ChannelCapture(Opened) = ChannelCapture(text)
      BY <2>0, <3>1, ChannelStays DEF Opened
    <3> QED BY <3>1, <3>2, ChannelStays
  <2> QED BY <2>1, <2>2, Continues
<1> QED BY <1>1, PromptTypeCorrect, PTL DEF Spec, ChannelVerdictFinal

(* In sender mode nothing but a separator of a multi-event block displaces *)
(* the sender that has been found.                                         *)
THEOREM OnlySeparatorsDisplace == Spec => SenderVerdictMoves
<1> DEFINE Displaced == MultiForm(text)
                        /\ \E i \in DOMAIN text' \ DOMAIN text : IsSectionSeparator(text'[i])
           Moves == phase = "composing" /\ SenderDecided(text)
                    /\ LastSender(text') # LastSender(text) => Displaced
<1>1. TextTyped /\ [Next]_vars => [Moves]_vars
  <2> SUFFICES ASSUME TextTyped, [Next]_vars, phase = "composing", SenderDecided(text),
                      ~Displaced
               PROVE  LastSender(text') = LastSender(text)
    OBVIOUS
  <2>0. text \in Seq(Line)
    BY DEF TextTyped
  <2>1. ASSUME NEW line \in Line, text' = Append(text, line)
        PROVE  LastSender(text') = LastSender(text)
    <3>1. Len(text') \in DOMAIN text' \ DOMAIN text /\ text'[Len(text')] = line
      BY <2>0, <2>1, AppendFacts
    <3>2. ~(MultiForm(text) /\ IsSectionSeparator(line))
      BY <3>1
    <3> QED BY <2>0, <2>1, <3>2, SenderStays
  <2>2. ASSUME NEW sender \in Pubkeys, NEW name \in Names, RenderEvent(sender, name)
        PROVE  LastSender(text') = LastSender(text)
    <3>1. /\ Plain("separator") \in Line /\ Opened \in Seq(Line)
          /\ \E place \in Line, who \in Line :
               /\ ~IsSectionSeparator(place) /\ ~IsSectionSeparator(who)
               /\ Append(Opened, place) \in Seq(Line)
               /\ text' = Append(Append(Opened, place), who)
      BY <2>2, RenderedByLine
    <3>2. PICK place \in Line, who \in Line :
            /\ ~IsSectionSeparator(place) /\ ~IsSectionSeparator(who)
            /\ Append(Opened, place) \in Seq(Line)
            /\ text' = Append(Append(Opened, place), who)
      BY <3>1
    <3>3. header = "multi" => ~MultiForm(text)
      <4> SUFFICES ASSUME header = "multi"
                   PROVE  \E i \in DOMAIN text' \ DOMAIN text : IsSectionSeparator(text'[i])
        OBVIOUS
      <4> DEFINE line == Plain("separator")
                 one == Append(text, line)
                 two == Append(one, place)
      <4>1. line \in Line /\ one \in Seq(Line) /\ two \in Seq(Line)
            /\ text' = Append(two, who)
        BY <3>1, <3>2 DEF Opened
      <4>2. IsSectionSeparator(line)
        BY DEF IsSectionSeparator, Plain
      <4> HIDE DEF line
      <4>3. Len(one) \in DOMAIN one \ DOMAIN text /\ one[Len(one)] = line
        BY <2>0, <4>1, AppendFacts
      <4> HIDE DEF one
      <4>4. DOMAIN one \subseteq DOMAIN two /\ \A i \in DOMAIN one : two[i] = one[i]
        BY <4>1, AppendFacts
      <4> HIDE DEF two
      <4>5. DOMAIN two \subseteq DOMAIN text' /\ \A i \in DOMAIN two : text'[i] = two[i]
        BY <4>1, AppendFacts
      <4> QED BY <4>2, <4>3, <4>4, <4>5
    <3>4. /\ SenderDecided(Opened) /\ LastSender(Opened) = LastSender(text)
      BY <2>0, <3>1, <3>3, SenderStays DEF Opened
    <3>5. /\ SenderDecided(Append(Opened, place))
          /\ LastSender(Append(Opened, place)) = LastSender(Opened)
      BY <3>1, <3>2, <3>4, SenderStays
    <3> QED BY <3>2, <3>4, <3>5, SenderStays
  <2> QED BY <2>1, <2>2, Continues
<1> QED BY <1>1, PromptTypeCorrect, PTL DEF Spec, SenderVerdictMoves
-----------------------------------------------------------------------------
(* What the single pass has found, told by the positions of the parser.    *)
Found(form, count, sections, place, decided, open, sender, senders) ==
  [form |-> form, count |-> count, sections |-> sections, channel |-> place,
   decided |-> decided, open |-> open, sender |-> sender, senders |-> senders]

FromLines(lines, start) == {i \in Section(lines, start) : IsFromLine(lines[i])}

SectionOpen(lines) ==
  SectionStarts(lines) # {} /\ FromLines(lines, Max(SectionStarts(lines))) = {}

Summary(lines) ==
  IF Headers(lines) = {} THEN ScanInit
  ELSE Found(lines[Marker(lines)].form, lines[Marker(lines)].count,
             Cardinality(SectionStarts(lines)), ChannelCapture(lines),
             ChannelLines(lines) # {}, SectionOpen(lines),
             LastSender(lines), DistinctSenders(lines))

(* The step of the pass, one case for each kind of line.                   *)
LEMMA ScanSteps ==
  ASSUME NEW s, NEW line
  PROVE  /\ s.form = "none" /\ IsHeader(line) =>
              ScanLine(s, line) =
                [s EXCEPT !.form = line.form, !.count = line.count,
                          !.sections = IF line.form = "single" THEN 1 ELSE 0,
                          !.open = line.form = "single"]
         /\ s.form = "multi" /\ IsSectionSeparator(line) =>
              ScanLine(s, line) =
                [s EXCEPT !.sections = s.sections + 1, !.open = TRUE, !.sender = None]
         /\ s.sections > 0 /\ IsChannelLine(line) /\ ~s.decided =>
              ScanLine(s, line) = [s EXCEPT !.channel = ChannelUuid(line), !.decided = TRUE]
         /\ s.sections > 0 /\ IsFromLine(line) /\ s.open =>
              ScanLine(s, line) =
                [s EXCEPT !.sender = FromHex(line), !.open = FALSE,
                          !.senders = s.senders \union ({FromHex(line)} \ {None})]
         /\ /\ s.form = "none" => ~IsHeader(line)
            /\ s.form = "multi" => ~IsSectionSeparator(line)
            /\ s.sections > 0 => /\ IsChannelLine(line) => s.decided
                                 /\ IsFromLine(line) => ~s.open
            => ScanLine(s, line) = s
BY DEF ScanLine, IsHeader, IsSectionSeparator, IsChannelLine, IsFromLine

(* In front of the header nothing is found; the header opens a section or  *)
(* waits for a separator.                                                  *)
LEMMA HeaderStep ==
  ASSUME NEW old \in Seq(Line), NEW line \in Line, Headers(old) = {}
  PROVE  Summary(Append(old, line)) = ScanLine(Summary(old), line)
<1> DEFINE new == Append(old, line)
           n == Len(new)
<1>1. /\ Len(old) \in Nat /\ n = Len(old) + 1 /\ DOMAIN old = 1 .. Len(old)
      /\ DOMAIN new = DOMAIN old \union {n}
      /\ (\A i \in DOMAIN old : new[i] = old[i]) /\ new[n] = line
  BY AppendFacts
<1> HIDE DEF new
<1>2. Summary(old) = Found("none", 0, 0, None, FALSE, FALSE, None, {})
  BY DEF Summary, ScanInit, Found
<1>3. CASE ~IsHeader(line)
  <2>1. Headers(new) = {}
    BY <1>1, <1>3 DEF Headers
  <2>2. Summary(new) = Summary(old)
    BY <2>1 DEF Summary
  <2>3. ScanLine(Summary(old), line) = Summary(old)
    <3>1. Summary(old).form = "none" /\ Summary(old).sections = 0
      BY <1>2 DEF Found
    <3>2. ~(Summary(old).sections > 0) /\ Summary(old).form # "multi"
      BY <3>1
    <3> QED BY <1>3, <3>1, <3>2, ScanSteps
  <2> QED BY <2>2, <2>3 DEF new
<1>4. CASE IsHeader(line)
  <2> HIDE DEF n
  <2>1. Headers(new) = {n}
    BY <1>1, <1>4 DEF Headers
  <2>2. Marker(new) = n
    BY <1>1, <2>1, MinIs DEF Marker
  <2>3. /\ MultiForm(new) <=> line.form = "multi"
        /\ line.form \in {"multi", "single"}
    BY <1>1, <1>4, <2>2 DEF MultiForm, IsHeader
  <2>4. SectionStarts(new) = IF line.form = "single" THEN {n} ELSE {}
    <3>1. CASE line.form = "single"
      BY <2>2, <2>3, <3>1 DEF SectionStarts
    <3>2. CASE line.form # "single"
      BY <1>1, <2>2, <2>3, <3>2 DEF SectionStarts
    <3> QED BY <3>1, <3>2
  <2>5. Cardinality(SectionStarts(new)) = IF line.form = "single" THEN 1 ELSE 0
    BY <2>4, FS_EmptySet, FS_Singleton
  <2>6. ChannelLines(new) = {}
    BY <1>1, <2>4 DEF ChannelLines
  <2>7. ChannelCapture(new) = None
    BY <2>6 DEF ChannelCapture
  <2>8. Section(new, n) = {}
    BY <1>1 DEF Section
  <2>9. Sender(new, n) = None /\ FromLines(new, n) = {}
    BY <2>8 DEF Sender, FromLines
  <2>10. Max({n}) = n
    BY <1>1, MaxIs
  <2>11. /\ LastSender(new) = None /\ DistinctSenders(new) = {}
         /\ SectionOpen(new) <=> line.form = "single"
    BY <2>4, <2>9, <2>10 DEF LastSender, DistinctSenders, SectionOpen
  <2>12. Summary(new) =
           Found(line.form, line.count, IF line.form = "single" THEN 1 ELSE 0,
                 None, FALSE, line.form = "single", None, {})
    <3>1. new[Marker(new)] = line /\ Headers(new) # {}
      BY <1>1, <2>1, <2>2
    <3>2. /\ (ChannelLines(new) # {}) = FALSE
          /\ SectionOpen(new) = (line.form = "single")
      BY <2>6, <2>11 DEF SectionOpen
    <3> QED BY <2>5, <2>7, <2>11, <3>1, <3>2 DEF Summary
  <2>13. ScanLine(Summary(old), line) =
           [Summary(old) EXCEPT !.form = line.form, !.count = line.count,
                                !.sections = IF line.form = "single" THEN 1 ELSE 0,
                                !.open = line.form = "single"]
    <3>1. Summary(old).form = "none"
      BY <1>2 DEF Found
    <3> QED BY <1>4, <3>1, ScanSteps
  <2>14. ASSUME NEW no, no = FALSE, NEW open, open = (line.form = "single"),
                NEW sections, sections = IF line.form = "single" THEN 1 ELSE 0
         PROVE  ScanLine(Summary(old), line) = Summary(new)
    <3>1. Summary(old) = Found("none", 0, 0, None, no, no, None, {})
      BY <1>2, <2>14
    <3>2. Summary(new) = Found(line.form, line.count, sections, None, no, open, None, {})
      BY <2>12, <2>14
    <3>3. ScanLine(Summary(old), line) =
            [Summary(old) EXCEPT !.form = line.form, !.count = line.count,
                                 !.sections = sections, !.open = open]
      BY <2>13, <2>14
    <3>4. ScanLine(Summary(old), line) =
            [Found("none", 0, 0, None, no, no, None, {}) EXCEPT
               !.form = line.form, !.count = line.count, !.sections = sections, !.open = open]
      BY <3>1, <3>3
    <3>5. ScanLine(Summary(old), line) =
            Found(line.form, line.count, sections, None, no, open, None, {})
      BY <3>4 DEF Found
    <3> QED BY <3>2, <3>5
  <2> QED BY <2>14 DEF new
<1> QED BY <1>3, <1>4

(* A section whose From: lines are the same has the same sender.           *)
LEMMA SameSender ==
  ASSUME NEW old \in Seq(Line), NEW line \in Line, NEW start,
         FromLines(Append(old, line), start) = FromLines(old, start)
  PROVE  Sender(Append(old, line), start) = Sender(old, start)
<1> DEFINE new == Append(old, line)
           from == FromLines(old, start)
<1>1. DOMAIN old \in SUBSET Nat /\ \A i \in DOMAIN old : new[i] = old[i]
  BY AppendFacts
<1>2. from \subseteq DOMAIN old
  BY DEF FromLines, Section
<1> HIDE DEF new, from
<1>3. /\ Sender(old, start) = IF from = {} THEN None ELSE FromHex(old[Min(from)])
      /\ Sender(new, start) = IF from = {} THEN None ELSE FromHex(new[Min(from)])
  BY DEF Sender, FromLines, new, from
<1>4. from # {} => new[Min(from)] = old[Min(from)]
  BY <1>1, <1>2, MinOfNats
<1>5. Sender(new, start) = Sender(old, start)
  BY <1>3, <1>4
<1> QED BY <1>5 DEF new

(* A separator of the block opens a section, empty as yet.                 *)
LEMMA SectionAdded ==
  ASSUME NEW old \in Seq(Line), NEW line \in Line, Headers(old) # {},
         MultiForm(old), IsSectionSeparator(line)
  PROVE  LET new == Append(old, line)
             n == Len(new)
         IN  /\ n \notin SectionStarts(old)
             /\ SectionStarts(new) = SectionStarts(old) \union {n}
             /\ Max(SectionStarts(new)) = n
             /\ FromLines(new, n) = {}
             /\ \A start \in SectionStarts(old) : FromLines(new, start) = FromLines(old, start)
             /\ ChannelLines(new) = ChannelLines(old)
<1> DEFINE new == Append(old, line)
           n == Len(new)
           starts == SectionStarts(old)
<1>1. /\ Len(old) \in Nat /\ n = Len(old) + 1 /\ DOMAIN old = 1 .. Len(old)
      /\ DOMAIN new = DOMAIN old \union {n}
      /\ (\A i \in DOMAIN old : new[i] = old[i]) /\ new[n] = line
  BY AppendFacts
<1>2. /\ Marker(new) = Marker(old) /\ Marker(old) \in DOMAIN old /\ MultiForm(new)
      /\ starts \subseteq DOMAIN old /\ starts \subseteq SectionStarts(new)
      /\ SectionStarts(new) \subseteq starts \union {n}
  BY MarkerStays, SectionsStay
<1> HIDE DEF new
<1>3. n \in SectionStarts(new)
  BY <1>1, <1>2 DEF SectionStarts
<1> HIDE DEF n, starts
<1>4. SectionStarts(new) = starts \union {n} /\ n \notin starts
  BY <1>1, <1>2, <1>3
<1>5. Max(SectionStarts(new)) = n
  <2>1. SectionStarts(new) \in SUBSET Nat /\ \A i \in SectionStarts(new) : i <= n
    BY <1>1, <1>2, <1>4
  <2> QED BY <1>3, <2>1, MaxIs
<1>6. Section(new, n) = {}
  BY <1>1 DEF Section
<1>7. ASSUME NEW start \in starts
      PROVE  FromLines(new, start) = FromLines(old, start)
  <2>1. ASSUME NEW i \in DOMAIN new
        PROVE  i \in Section(new, start) <=> i \in Section(old, start)
    <3>1. start < n /\ start \in Nat /\ i \in Nat
      BY <1>1, <1>2
    <3>2. CASE i = n
      BY <1>1, <1>4, <3>1, <3>2 DEF Section
    <3>3. CASE i # n
      <4>1. i \in DOMAIN old /\ i < n
        BY <1>1, <3>3
      <4> QED BY <1>1, <1>4, <4>1 DEF Section, starts
    <3> QED BY <3>2, <3>3
  <2>2. Section(new, start) = Section(old, start) /\ Section(old, start) \subseteq DOMAIN old
    BY <1>1, <2>1 DEF Section
  <2> QED BY <1>1, <2>2 DEF FromLines
<1>8. ChannelLines(new) = ChannelLines(old)
  <2>1. ~IsChannelLine(line)
    BY DEF IsSectionSeparator, IsChannelLine
  <2>2. \A i \in DOMAIN old : ~(n < i)
    BY <1>1
  <2> QED BY <1>1, <1>4, <2>1, <2>2 DEF ChannelLines, starts
<1> QED BY <1>4, <1>5, <1>6, <1>7, <1>8 DEF new, n, starts, FromLines

(* Any other line goes on with the last section, if there is one.          *)
LEMMA SectionGoesOn ==
  ASSUME NEW old \in Seq(Line), NEW line \in Line, Headers(old) # {},
         ~(MultiForm(old) /\ IsSectionSeparator(line))
  PROVE  LET new == Append(old, line)
             n == Len(new)
             starts == SectionStarts(old)
         IN  /\ SectionStarts(new) = starts
             /\ ChannelLines(new) =
                  ChannelLines(old) \union
                    (IF starts # {} /\ IsChannelLine(line) THEN {n} ELSE {})
             /\ starts # {} =>
                  /\ Max(starts) \in starts
                  /\ FromLines(new, Max(starts)) =
                       FromLines(old, Max(starts)) \union
                         (IF IsFromLine(line) THEN {n} ELSE {})
                  /\ \A start \in starts \ {Max(starts)} :
                       FromLines(new, start) = FromLines(old, start)
<1> DEFINE new == Append(old, line)
           n == Len(new)
           starts == SectionStarts(old)
           last == Max(starts)
<1>1. /\ Len(old) \in Nat /\ n = Len(old) + 1 /\ DOMAIN old = 1 .. Len(old)
      /\ DOMAIN new = DOMAIN old \union {n}
      /\ (\A i \in DOMAIN old : new[i] = old[i]) /\ new[n] = line
  BY AppendFacts
<1>2. SectionStarts(new) = starts /\ starts \subseteq DOMAIN old
  BY SectionsStay
<1> HIDE DEF new, n, starts
<1>3. ChannelLines(new) =
        ChannelLines(old) \union (IF starts # {} /\ IsChannelLine(line) THEN {n} ELSE {})
  <2>1. \A start \in starts : start < n
    BY <1>1, <1>2
  <2>2. ASSUME NEW i \in DOMAIN old
        PROVE  i \in ChannelLines(new) <=> i \in ChannelLines(old)
    BY <1>1, <1>2 DEF ChannelLines, starts
  <2>3. n \in ChannelLines(new) <=> starts # {} /\ IsChannelLine(line)
    BY <1>1, <1>2, <2>1 DEF ChannelLines
  <2>4. /\ ChannelLines(new) \subseteq DOMAIN old \union {n}
        /\ ChannelLines(old) \subseteq DOMAIN old /\ n \notin DOMAIN old
    BY <1>1 DEF ChannelLines
  <2> QED BY <2>2, <2>3, <2>4
<1>4. ASSUME starts # {}
      PROVE  /\ last \in starts
             /\ FromLines(new, last) =
                  FromLines(old, last) \union (IF IsFromLine(line) THEN {n} ELSE {})
             /\ \A start \in starts \ {last} : FromLines(new, start) = FromLines(old, start)
  <2>1. last \in starts /\ \A start \in starts : start <= last
    BY <1>1, <1>2, <1>4, MaxOfBounded
  <2> HIDE DEF last
  <2>2. ASSUME NEW start \in starts, NEW i \in DOMAIN old
        PROVE  i \in Section(new, start) <=> i \in Section(old, start)
    BY <1>1, <1>2 DEF Section, starts
  <2>3. ASSUME NEW start \in starts
        PROVE  n \in Section(new, start) <=> start = last
    <3>1. \A next \in starts : next \in Nat /\ next < n
      BY <1>1, <1>2
    <3> QED BY <1>1, <1>2, <2>1, <3>1 DEF Section
  <2>4. ASSUME NEW start \in starts
        PROVE  /\ Section(new, start) \subseteq DOMAIN old \union {n}
               /\ Section(old, start) \subseteq DOMAIN old
               /\ n \notin DOMAIN old
    BY <1>1 DEF Section
  <2>5. FromLines(new, last) =
          FromLines(old, last) \union (IF IsFromLine(line) THEN {n} ELSE {})
    BY <1>1, <2>1, <2>2, <2>3, <2>4 DEF FromLines
  <2>6. ASSUME NEW start \in starts \ {last}
        PROVE  FromLines(new, start) = FromLines(old, start)
    BY <1>1, <2>2, <2>3, <2>4 DEF FromLines
  <2> QED BY <2>1, <2>5, <2>6
<1> QED BY <1>2, <1>3, <1>4 DEF new, n, starts, last

(* The channel of channel mode and the sender of a section are what their  *)
(* first lines name; a line that goes on with a section counts only if it  *)
(* is the first of its kind.                                               *)
LEMMA FirstLines ==
  ASSUME NEW old \in Seq(Line), NEW line \in Line, NEW start
  PROVE  LET new == Append(old, line)
             n == Len(new)
         IN  /\ FromLines(new, start) = FromLines(old, start) \union {n} =>
                  Sender(new, start) = IF FromLines(old, start) = {} THEN FromHex(line)
                                       ELSE Sender(old, start)
             /\ ChannelLines(new) = ChannelLines(old) =>
                  ChannelCapture(new) = ChannelCapture(old)
             /\ ChannelLines(new) = ChannelLines(old) \union {n} =>
                  ChannelCapture(new) = IF ChannelLines(old) = {} THEN ChannelUuid(line)
                                        ELSE ChannelCapture(old)
<1> DEFINE new == Append(old, line)
           n == Len(new)
<1>1. /\ Len(old) \in Nat /\ n = Len(old) + 1 /\ DOMAIN old = 1 .. Len(old)
      /\ (\A i \in DOMAIN old : new[i] = old[i]) /\ new[n] = line
  BY AppendFacts
<1> HIDE DEF new, n
<1>2. ASSUME NEW first \in SUBSET DOMAIN old
      PROVE  LET more == first \union {n} IN
             /\ first # {} => Min(first) \in DOMAIN old /\ new[Min(first)] = old[Min(first)]
             /\ new[Min(more)] = IF first = {} THEN line ELSE old[Min(first)]
  <2> DEFINE more == first \union {n}
  <2>0. n \in Nat /\ first \in SUBSET Nat /\ \A i \in first : i <= n
    BY <1>1
  <2>1. first # {} => Min(first) \in DOMAIN old /\ new[Min(first)] = old[Min(first)]
    BY <1>1, <2>0, MinOfNats
  <2>2. CASE first = {}
    <3>1. more = {n}
      BY <2>2
    <3>2. Min(more) = n
      BY <2>0, <3>1, MinIs
    <3> QED BY <1>1, <2>2, <3>2
  <2>3. CASE first # {}
    <3>1. more \in SUBSET Nat /\ first \subseteq more
          /\ \A i \in more \ first, j \in first : j <= i
      BY <2>0
    <3> HIDE DEF more
    <3>2. Min(more) = Min(first)
      BY <2>0, <2>3, <3>1, MinOfMore
    <3> QED BY <2>1, <2>3, <3>2 DEF more
  <2> QED BY <2>1, <2>2, <2>3
<1>3. FromLines(old, start) \in SUBSET DOMAIN old /\ ChannelLines(old) \in SUBSET DOMAIN old
  BY DEF FromLines, Section, ChannelLines
<1>4. ASSUME FromLines(new, start) = FromLines(old, start) \union {n}
      PROVE  Sender(new, start) = IF FromLines(old, start) = {} THEN FromHex(line)
                                  ELSE Sender(old, start)
  <2>1. /\ Sender(old, start) = IF FromLines(old, start) = {} THEN None
                                ELSE FromHex(old[Min(FromLines(old, start))])
        /\ Sender(new, start) = IF FromLines(new, start) = {} THEN None
                                ELSE FromHex(new[Min(FromLines(new, start))])
    BY DEF Sender, FromLines
  <2>2. FromLines(new, start) # {}
    BY <1>4
  <2>3. new[Min(FromLines(new, start))] =
          IF FromLines(old, start) = {} THEN line ELSE old[Min(FromLines(old, start))]
    BY <1>2, <1>3, <1>4
  <2> QED BY <2>1, <2>2, <2>3
<1>5. ASSUME ChannelLines(new) = ChannelLines(old)
      PROVE  ChannelCapture(new) = ChannelCapture(old)
  <2>1. ChannelLines(old) # {} => new[Min(ChannelLines(old))] = old[Min(ChannelLines(old))]
    BY <1>2, <1>3
  <2> QED BY <1>5, <2>1 DEF ChannelCapture
<1>6. ASSUME ChannelLines(new) = ChannelLines(old) \union {n}
      PROVE  ChannelCapture(new) = IF ChannelLines(old) = {} THEN ChannelUuid(line)
                                   ELSE ChannelCapture(old)
  <2>1. ChannelLines(new) # {}
    BY <1>6
  <2>2. new[Min(ChannelLines(new))] =
          IF ChannelLines(old) = {} THEN line ELSE old[Min(ChannelLines(old))]
    BY <1>2, <1>3, <1>6
  <2> QED BY <2>1, <2>2 DEF ChannelCapture
<1> QED BY <1>4, <1>5, <1>6 DEF new, n

(* Inside the block every line changes what has been found as the pass     *)
(* says.                                                                   *)
LEMMA BlockStep ==
  ASSUME NEW old \in Seq(Line), NEW line \in Line, Headers(old) # {}
  PROVE  Summary(Append(old, line)) = ScanLine(Summary(old), line)
<1> DEFINE new == Append(old, line)
           n == Len(new)
           starts == SectionStarts(old)
           scan == ScanLine(Summary(old), line)
<1>1. /\ Headers(new) # {} /\ new[Marker(new)] = old[Marker(old)]
      /\ starts \subseteq DOMAIN old /\ DOMAIN old = 1 .. Len(old) /\ Len(old) \in Nat
  <2>1. Marker(new) = Marker(old) /\ Marker(old) \in DOMAIN old /\ starts \subseteq DOMAIN old
    BY MarkerStays, SectionsStay
  <2>2. /\ DOMAIN new = DOMAIN old \union {n} /\ \A i \in DOMAIN old : new[i] = old[i]
        /\ DOMAIN old = 1 .. Len(old) /\ Len(old) \in Nat
    BY AppendFacts
  <2> HIDE DEF new
  <2> QED BY <2>1, <2>2 DEF Headers
<1>2. IsFiniteSet(starts)
  <2>1. IsFiniteSet(1 .. Len(old))
    BY <1>1, FS_Interval
  <2> QED BY <1>1, <2>1, FS_Subset
<1> SUFFICES ASSUME NEW form, form = old[Marker(old)].form,
                    NEW count, count = old[Marker(old)].count,
                    NEW sections, sections = Cardinality(starts),
                    NEW place, place = ChannelCapture(old),
                    NEW decided, decided = (ChannelLines(old) # {}),
                    NEW open, open = SectionOpen(old),
                    NEW sender, sender = LastSender(old),
                    NEW senders, senders = DistinctSenders(old)
             PROVE  Summary(new) = scan
  OBVIOUS
<1> DEFINE s == Found(form, count, sections, place, decided, open, sender, senders)
<1>3. Summary(old) = s
  BY DEF Summary
<1>4. /\ form \in {"multi", "single"} /\ (MultiForm(old) <=> form = "multi")
      /\ sections \in Nat /\ (sections > 0 <=> starts # {})
  <2>1. Marker(old) \in Headers(old)
    <3>1. Headers(old) \in SUBSET Nat
      BY <1>1 DEF Headers
    <3> QED BY <3>1, MinOfNats DEF Marker
  <2>2. form \in {"multi", "single"}
    BY <2>1 DEF Headers, IsHeader
  <2>3. sections \in Nat /\ (sections = 0 <=> starts = {})
    BY <1>2, FS_EmptySet, FS_CardinalityType
  <2> QED BY <2>2, <2>3 DEF MultiForm
<1>5. /\ s.form = form /\ s.sections = sections /\ s.decided = decided /\ s.open = open
      /\ s.senders = senders
  BY DEF Found
<1>6. Summary(new) =
        Found(form, count, Cardinality(SectionStarts(new)), ChannelCapture(new),
              ChannelLines(new) # {}, SectionOpen(new), LastSender(new), DistinctSenders(new))
  BY <1>1 DEF Summary
<1> HIDE DEF new, n, starts, scan, s
<1>7. CASE MultiForm(old) /\ IsSectionSeparator(line)
  <2>1. /\ n \notin starts /\ SectionStarts(new) = starts \union {n}
        /\ Max(SectionStarts(new)) = n /\ FromLines(new, n) = {}
        /\ \A start \in starts : FromLines(new, start) = FromLines(old, start)
        /\ ChannelLines(new) = ChannelLines(old)
    BY <1>7, SectionAdded DEF new, n, starts
  <2>2. Cardinality(SectionStarts(new)) = sections + 1
    BY <1>2, <2>1, FS_AddElement
  <2>3. ChannelCapture(new) = place /\ (ChannelLines(new) # {}) = decided
    BY <2>1, FirstLines DEF new
  <2>4. Sender(new, n) = None
    BY <2>1 DEF Sender, FromLines
  <2>5. SectionOpen(new) = TRUE /\ LastSender(new) = None
    BY <2>1, <2>4 DEF SectionOpen, LastSender
  <2>6. DistinctSenders(new) = senders
    <3>1. \A start \in starts : Sender(new, start) = Sender(old, start)
      BY <2>1, SameSender DEF new
    <3> QED BY <2>1, <2>4, <3>1 DEF DistinctSenders, starts
  <2>7. scan = [s EXCEPT !.sections = sections + 1, !.open = TRUE, !.sender = None]
    <3>1. scan = ScanLine(s, line)
      BY <1>3 DEF scan
    <3>2. s.form = "multi" /\ IsSectionSeparator(line)
      BY <1>4, <1>5, <1>7
    <3>3. scan = [s EXCEPT !.sections = s.sections + 1, !.open = TRUE, !.sender = None]
      BY <3>1, <3>2, ScanSteps
    <3> QED BY <1>5, <3>3
  <2> SUFFICES ASSUME NEW yes, yes = TRUE PROVE Summary(new) = scan
    OBVIOUS
  <2>8. Summary(new) = Found(form, count, sections + 1, place, decided, yes, None, senders)
    BY <1>6, <2>2, <2>3, <2>5, <2>6
  <2>9. scan = [s EXCEPT !.sections = sections + 1, !.open = yes, !.sender = None]
    BY <2>7
  <2>10. scan = Found(form, count, sections + 1, place, decided, yes, None, senders)
    BY <2>9 DEF Found, s
  <2> QED BY <2>8, <2>10
<1>8. CASE ~(MultiForm(old) /\ IsSectionSeparator(line))
  <2> DEFINE last == Max(starts)
             places == starts # {} /\ IsChannelLine(line) /\ ~decided
             names == starts # {} /\ IsFromLine(line) /\ open
  <2>1. /\ SectionStarts(new) = starts
        /\ ChannelLines(new) = ChannelLines(old) \union
                               (IF starts # {} /\ IsChannelLine(line) THEN {n} ELSE {})
        /\ starts # {} =>
             /\ last \in starts
             /\ FromLines(new, last) = FromLines(old, last) \union
                                       (IF IsFromLine(line) THEN {n} ELSE {})
             /\ \A start \in starts \ {last} : FromLines(new, start) = FromLines(old, start)
    BY <1>8, SectionGoesOn DEF new, n, starts
  <2>2. ASSUME places
        PROVE  ChannelCapture(new) = ChannelUuid(line) /\ (ChannelLines(new) # {}) = TRUE
    <3>1. ChannelLines(new) = ChannelLines(old) \union {n} /\ ChannelLines(old) = {}
      BY <2>1, <2>2
    <3> QED BY <3>1, FirstLines DEF new, n
  <2>3. ASSUME ~places
        PROVE  ChannelCapture(new) = place /\ (ChannelLines(new) # {}) = decided
    <3>1. CASE starts # {} /\ IsChannelLine(line)
      <4>1. ChannelLines(new) = ChannelLines(old) \union {n} /\ ChannelLines(old) # {}
        BY <2>1, <2>3, <3>1
      <4> QED BY <4>1, FirstLines DEF new, n
    <3>2. CASE ~(starts # {} /\ IsChannelLine(line))
      <4>1. ChannelLines(new) = ChannelLines(old)
        BY <2>1, <3>2
      <4> QED BY <4>1, FirstLines DEF new
    <3> QED BY <3>1, <3>2
  <2>4. \A start \in starts \ {last} :
          starts # {} => Sender(new, start) = Sender(old, start)
    BY <2>1, SameSender DEF new
  <2>5. ASSUME starts # {}
        PROVE  /\ sender = Sender(old, last) /\ LastSender(new) = Sender(new, last)
               /\ senders = ({Sender(old, start) : start \in starts \ {last}}
                             \union {Sender(old, last)}) \ {None}
               /\ DistinctSenders(new) =
                    ({Sender(old, start) : start \in starts \ {last}}
                     \union {Sender(new, last)}) \ {None}
               /\ open = (FromLines(old, last) = {})
               /\ SectionOpen(new) = (FromLines(new, last) = {})
    <3>1. last \in starts
      BY <2>1, <2>5
    <3> QED BY <2>1, <2>4, <2>5, <3>1 DEF LastSender, DistinctSenders, SectionOpen, starts
  <2>6. ASSUME names
        PROVE  /\ SectionOpen(new) = FALSE /\ LastSender(new) = FromHex(line)
               /\ DistinctSenders(new) = senders \union ({FromHex(line)} \ {None})
    <3>1. FromLines(new, last) = FromLines(old, last) \union {n} /\ FromLines(old, last) = {}
      BY <2>1, <2>5, <2>6
    <3>2. Sender(new, last) = FromHex(line)
      BY <3>1, FirstLines DEF new, n
    <3>3. Sender(old, last) = None
      BY <3>1 DEF Sender, FromLines
    <3> QED BY <2>5, <2>6, <3>1, <3>2, <3>3
  <2>7. ASSUME ~names
        PROVE  /\ SectionOpen(new) = open /\ LastSender(new) = sender
               /\ DistinctSenders(new) = senders
    <3>1. CASE starts = {}
      BY <2>1, <3>1 DEF SectionOpen, LastSender, DistinctSenders, starts
    <3>2. CASE starts # {}
      <4>1. Sender(new, last) = Sender(old, last)
            /\ (FromLines(new, last) = {}) = (FromLines(old, last) = {})
        <5>1. CASE IsFromLine(line)
          <6>1. FromLines(new, last) = FromLines(old, last) \union {n}
                /\ FromLines(old, last) # {}
            BY <2>1, <2>5, <2>7, <3>2, <5>1
          <6> QED BY <6>1, FirstLines DEF new, n
        <5>2. CASE ~IsFromLine(line)
          <6>1. FromLines(new, last) = FromLines(old, last)
            BY <2>1, <3>2, <5>2
          <6> QED BY <6>1, SameSender DEF new
        <5> QED BY <5>1, <5>2
      <4> QED BY <2>5, <3>2, <4>1
    <3> QED BY <3>1, <3>2
  <2> HIDE DEF last
  <2>8. scan = ScanLine(s, line) /\ s.form # "none"
    BY <1>3, <1>4, <1>5 DEF scan
  <2>9. s.form = "multi" => ~IsSectionSeparator(line)
    BY <1>4, <1>5, <1>8
  <2>10. CASE places
    <3>1. ~names
      BY <2>10 DEF IsChannelLine, IsFromLine
    <3>2. scan = [s EXCEPT !.channel = ChannelUuid(line), !.decided = TRUE]
      <4>1. s.sections > 0 /\ IsChannelLine(line) /\ ~s.decided
        BY <1>4, <1>5, <2>10
      <4> QED BY <2>8, <4>1, ScanSteps
    <3> SUFFICES ASSUME NEW yes, yes = TRUE PROVE Summary(new) = scan
      OBVIOUS
    <3>3. Summary(new) =
            Found(form, count, sections, ChannelUuid(line), yes, open, sender, senders)
      BY <1>6, <2>1, <2>2, <2>7, <2>10, <3>1
    <3>4. scan = [s EXCEPT !.channel = ChannelUuid(line), !.decided = yes]
      BY <3>2
    <3>5. scan = Found(form, count, sections, ChannelUuid(line), yes, open, sender, senders)
      BY <3>4 DEF Found, s
    <3> QED BY <3>3, <3>5
  <2>11. CASE names
    <3>1. ~places
      BY <2>11 DEF IsChannelLine, IsFromLine
    <3>2. scan = [s EXCEPT !.sender = FromHex(line), !.open = FALSE,
                           !.senders = senders \union ({FromHex(line)} \ {None})]
      <4>1. s.sections > 0 /\ IsFromLine(line) /\ s.open
        BY <1>4, <1>5, <2>11
      <4>2. scan = [s EXCEPT !.sender = FromHex(line), !.open = FALSE,
                             !.senders = s.senders \union ({FromHex(line)} \ {None})]
        BY <2>8, <4>1, ScanSteps
      <4> QED BY <1>5, <4>2
    <3> SUFFICES ASSUME NEW no, no = FALSE,
                        NEW all, all = senders \union ({FromHex(line)} \ {None})
                 PROVE  Summary(new) = scan
      OBVIOUS
    <3>3. Summary(new) = Found(form, count, sections, place, decided, no, FromHex(line), all)
      BY <1>6, <2>1, <2>3, <2>6, <2>11, <3>1
    <3>4. scan = [s EXCEPT !.sender = FromHex(line), !.open = no, !.senders = all]
      BY <3>2
    <3>5. scan = Found(form, count, sections, place, decided, no, FromHex(line), all)
      BY <3>4 DEF Found, s
    <3> QED BY <3>3, <3>5
  <2>12. CASE ~places /\ ~names
    <3>1. Summary(new) = s
      BY <1>6, <2>1, <2>3, <2>7, <2>12 DEF s
    <3>2. s.sections > 0 => (IsChannelLine(line) => s.decided) /\ (IsFromLine(line) => ~s.open)
      BY <1>4, <1>5, <2>12
    <3>3. scan = s
      <4>1. s.form = "none" => ~IsHeader(line)
        BY <2>8
      <4> QED BY <2>8, <2>9, <3>2, <4>1, ScanSteps
    <3> QED BY <3>1, <3>3
  <2> QED BY <2>10, <2>11, <2>12
<1> QED BY <1>7, <1>8 DEF new, scan

(* The single pass over a text finds what the parser's searches find.      *)
LEMMA ScanIsSummary ==
  ASSUME NEW lines \in Seq(Line)
  PROVE  Scan(lines) = Summary(lines)
<1> DEFINE n == Len(lines)
           Prefix(i) == SubSeq(lines, 1, i)
           Is(f) == f = [i \in 0 .. n |-> IF i = 0 THEN ScanInit
                                          ELSE ScanLine(f[i - 1], lines[i])]
           scan == CHOOSE f : Is(f)
           found == [i \in 0 .. n |-> Summary(Prefix(i))]
<1>1. Scan(lines) = scan[n]
  BY DEF Scan
<1>2. n \in Nat /\ Prefix(n) = lines
  BY SubSeqFull
<1>3. Summary(Prefix(0)) = ScanInit
  <2>1. Prefix(0) = <<>>
    BY SubSeqEmpty
  <2>2. Headers(<<>>) = {}
    BY DEF Headers
  <2> HIDE DEF Prefix
  <2> QED BY <2>1, <2>2 DEF Summary
<1>4. ASSUME NEW i \in 1 .. n
      PROVE  Summary(Prefix(i)) = ScanLine(Summary(Prefix(i - 1)), lines[i])
  <2>1. Prefix(i - 1) \in Seq(Line) /\ lines[i] \in Line
    OBVIOUS
  <2>2. Prefix(i) = Append(Prefix(i - 1), lines[i])
    OBVIOUS
  <2> HIDE DEF Prefix
  <2> QED BY <2>1, <2>2, HeaderStep, BlockStep
<1> HIDE DEF n, Prefix
<1>5. Is(found)
  <2>1. ASSUME NEW i \in 1 .. n PROVE found[i] = ScanLine(found[i - 1], lines[i])
    <3>1. i \in 0 .. n /\ i - 1 \in 0 .. n
      BY <1>2
    <3> QED BY <1>4, <3>1
  <2>2. found[0] = ScanInit
    BY <1>2, <1>3
  <2>3. found = [i \in 0 .. n |-> found[i]]
    OBVIOUS
  <2> HIDE DEF found
  <2> QED BY <1>2, <2>1, <2>2, <2>3
<1>6. Is(scan)
  <2> HIDE DEF Is
  <2> QED BY <1>5
<1> HIDE DEF scan
<1> DEFINE T == {i \in 0 .. n : scan[i] = Summary(Prefix(i))}
<1>7. 0 \in T
  BY <1>2, <1>3, <1>6
<1>8. ASSUME NEW i \in 1 .. n, i - 1 \in T PROVE i \in T
  <2>1. i \in 0 .. n /\ i # 0
    BY <1>2
  <2>2. scan[i] = ScanLine(scan[i - 1], lines[i])
    BY <1>6, <2>1
  <2> QED BY <1>4, <1>8, <2>1, <2>2
<1>9. n \in T
  <2> HIDE DEF T
  <2>1. 0 .. n \subseteq T
    BY <1>2, <1>7, <1>8, UpwardsTo
  <2> QED BY <1>2, <2>1
<1> QED BY <1>1, <1>2, <1>9

-----------------------------------------------------------------------------
(* The verdict of try_extract and its diagnostics, from the single pass.   *)
Verdict(s, unit) == IF unit = "channel" THEN s.channel ELSE s.sender

(* They are what the searches by position make of the text.                *)
LEMMA VerdictOfScan ==
  ASSUME NEW lines \in Seq(Line), NEW unit \in {"channel", "sender"}
  PROVE  LET s == Scan(lines) IN
         /\ Capture(lines, unit) = Verdict(s, unit)
         /\ Diagnostics(lines, unit) = IF Verdict(s, unit) = None THEN {"miss"}
                                       ELSE ScanDiagnostics(s, unit)
<1> DEFINE s == Scan(lines)
<1>1. s = Summary(lines)
  BY ScanIsSummary
<1> HIDE DEF s
<1>2. CASE Headers(lines) = {}
  <2>1. s.channel = None /\ s.sender = None
    BY <1>1, <1>2 DEF Summary, ScanInit
  <2>2. Capture(lines, unit) = None
    BY <1>2 DEF Capture
  <2> QED BY <2>1, <2>2 DEF Diagnostics, Verdict, s
<1>3. CASE Headers(lines) # {}
  <2>1. s = Found(lines[Marker(lines)].form, lines[Marker(lines)].count,
                  Cardinality(SectionStarts(lines)), ChannelCapture(lines),
                  ChannelLines(lines) # {}, SectionOpen(lines),
                  LastSender(lines), DistinctSenders(lines))
    BY <1>1, <1>3 DEF Summary
  <2>2. /\ s.channel = ChannelCapture(lines) /\ s.sender = LastSender(lines)
        /\ s.sections = Cardinality(SectionStarts(lines))
        /\ s.form = lines[Marker(lines)].form /\ s.count = lines[Marker(lines)].count
        /\ s.senders = DistinctSenders(lines)
    BY <2>1 DEF Found
  <2>3. Capture(lines, unit) = Verdict(s, unit)
    BY <1>3, <2>2 DEF Capture, Verdict
  <2>4. CountMismatch(lines) <=> s.form = "multi" /\ s.sections # s.count
    BY <2>2 DEF CountMismatch, MultiForm
  <2>5. Diagnostics(lines, unit) = IF Verdict(s, unit) = None THEN {"miss"}
                                  ELSE ScanDiagnostics(s, unit)
    BY <2>2, <2>3, <2>4 DEF Diagnostics, ScanDiagnostics
  <2> QED BY <2>3, <2>5 DEF s
<1> QED BY <1>2, <1>3

(* What a resolved turn has decided.                                       *)
Decided ==
  /\ settings \in Settings
  /\ phase = "resolved" =>
       /\ userId = UserIdForTurn(text) /\ Len(events) = declared
       /\ warnings = IF Extracts THEN Diagnostics(text, settings.host_unit) ELSE {}

(* It is decided once.                                                     *)
LEMMA DecidedOnce == Spec => []Decided
<1>1. Init => Decided
  BY SetupsAssumption DEF Init, Decided
<1>2. Decided /\ [Next]_vars => Decided'
  <2> SUFFICES ASSUME Decided, [Next]_vars PROVE Decided'
    OBVIOUS
  <2>1. CASE Resolved \/ UNCHANGED vars
    BY <2>1 DEF Resolved, Decided, vars, prompt, UserIdForTurn, Extracted, Extracts
  <2>2. CASE HandlePrompt
    BY <2>2 DEF HandlePrompt, Decided, prompt, UserIdForTurn, Extracted, Extracts
  <2>3. ASSUME settings' = settings, phase' = "composing" PROVE Decided'
    BY <2>3 DEF Decided
  <2>4. CASE StartPlain
    BY <2>3, <2>4 DEF StartPlain, Compose
  <2>5. ASSUME NEW line \in FreeLines, WriteFreely(line) PROVE Decided'
    BY <2>3, <2>5 DEF WriteFreely
  <2>6. ASSUME NEW c \in Uuids, NEW n \in 1 .. MaxEvents,
               StartBatch(c, n, "multi") \/ StartBatch(c, n, "single")
        PROVE  Decided'
    BY <2>3, <2>6 DEF StartBatch, Compose
  <2>7. ASSUME NEW sender \in Pubkeys, NEW name \in Names, RenderEvent(sender, name)
        PROVE  Decided'
    BY <2>3, <2>7 DEF RenderEvent
  <2>8. ASSUME NEW line \in ContentLines, WriteContent(line) PROVE Decided'
    BY <2>3, <2>8 DEF WriteContent
  <2> QED BY <2>1, <2>2, <2>4, <2>5, <2>6, <2>7, <2>8 DEF Next
<1> QED BY <1>1, <1>2, PTL DEF Spec

(* What the turn's identity and the log say of the scan.                   *)
LEMMA Resolves ==
  ASSUME TextTyped, Decided, phase = "resolved", Extracts
  PROVE  LET s == Scan(text)
             found == Verdict(s, settings.host_unit)
         IN  /\ userId = IF found # None THEN Host(found)
                         ELSE [tier |-> Config!ResolveUserId("unset", "unset",
                                          settings.default_user_id), of |-> None]
             /\ warnings = IF found = None THEN {"miss"}
                           ELSE ScanDiagnostics(s, settings.host_unit)
<1> DEFINE s == Scan(text)
           found == Verdict(s, settings.host_unit)
<1>1. settings.host_unit \in {"channel", "sender"} /\ settings.user_id # "set"
  BY DEF Decided, Settings, Extracts
<1>2. /\ Capture(text, settings.host_unit) = found
      /\ Diagnostics(text, settings.host_unit) =
           IF found = None THEN {"miss"} ELSE ScanDiagnostics(s, settings.host_unit)
  BY <1>1, VerdictOfScan DEF TextTyped
<1> HIDE DEF s, found
<1>3. Extracted(text) = found
  BY <1>2 DEF Extracted
<1>4. userId = IF found # None THEN Host(found)
               ELSE [tier |-> Config!ResolveUserId("unset", "unset",
                                settings.default_user_id), of |-> None]
  BY <1>1, <1>3 DEF Decided, UserIdForTurn, Host, Config!ResolveUserId
<1>5. warnings = Diagnostics(text, settings.host_unit)
  BY DEF Decided
<1> QED BY <1>2, <1>4, <1>5 DEF s, found

(* The identity of a turn and what is logged with it are what one pass     *)
(* over the lines of the prompt finds, for prompts of every length and any *)
(* lines at all (buzz.rs try_extract searches by position, backwards and   *)
(* forwards); where the prompt is not to be read, none of it matters.      *)
THEOREM OnePassAgrees == Spec => []ScanAgrees
<1>1. TextTyped /\ Decided => ScanAgrees
  <2> SUFFICES ASSUME TextTyped, Decided, phase = "resolved" PROVE ScanAgrees
    BY DEF ScanAgrees
  <2>1. CASE Extracts
    <3>1. settings.host = "buzz" /\ settings.user_id # "set"
      BY <2>1 DEF Extracts
    <3> QED BY <2>1, <3>1, Resolves DEF ScanAgrees, Verdict, Host, Config!ResolveUserId
  <2>2. CASE ~Extracts
    <3>1. ~(settings.host = "buzz" /\ settings.user_id # "set")
      BY <2>2 DEF Extracts
    <3>2. warnings = {} /\ Extracted(text) = None
      BY <2>2 DEF Decided, Extracted
    <3>3. userId = [tier |-> Config!ResolveUserId(settings.user_id, "unset",
                                settings.default_user_id), of |-> None]
      BY <3>2 DEF Decided, UserIdForTurn, Config!ResolveUserId
    <3> QED BY <3>1, <3>2, <3>3 DEF ScanAgrees, Config!ResolveUserId
  <2> QED BY <2>1, <2>2
<1> QED BY <1>1, PromptTypeCorrect, DecidedOnce, PTL

-----------------------------------------------------------------------------
(* A prompt that Buzz composes.                                            *)
SomeEvent == [sender : Pubkeys, quoted : Seq(Forms)]

BatchTyped ==
  /\ declared \in Nat /\ events \in Seq(SomeEvent) /\ headerLost \in BOOLEAN
  /\ header \in {"none", "single", "multi"}
  /\ phase = "idle" \/ header = "none" => events = <<>> /\ ~headerLost
  /\ header = "none" => declared = 0
  /\ header = "single" => declared = 1
  /\ header # "none" => channel \in Uuids

AnyQuoted(form) == \E i \in DOMAIN events : Quoted(i, form)
InBlock == phase # "idle" /\ header # "none" /\ ~headerLost

(* What the pass has found in the block so far, from the events in it and  *)
(* the lines they quote.                                                   *)
HeaderFound(s) ==
  /\ s.form = header
  /\ header = "multi" => s.count = declared
SectionsFound(s) ==
  /\ s.sections \in Nat
  /\ header = "single" => s.sections = 1
  /\ header = "multi" => /\ s.sections >= Len(events)
                         /\ s.sections = Len(events) <=> ~AnyQuoted("separator")
NoEventFound(s) ==
  events = <<>> => /\ ~s.decided /\ s.senders = {}
                   /\ s.open <=> header = "single"
EventsFound(s) ==
  events # <<>> =>
    /\ s.decided /\ s.channel = channel
    /\ LastEvent.sender \in s.senders
    /\ header = "single" \/ ~Quoted(Len(events), "separator") =>
         ~s.open /\ s.sender = LastEvent.sender
    /\ header = "single" \/ ~AnyQuoted("separator") => s.senders = Senders

BlockFound ==
  InBlock /\ Headers(context) = {} =>
    LET s == Scan(text) IN
    HeaderFound(s) /\ SectionsFound(s) /\ NoEventFound(s) /\ EventsFound(s)

(* Behind a header that the context quotes: the header of the block is not *)
(* seen, its Channel: lines decide unless the context's do, and its events *)
(* have sections where it is of the same multi-event form.                 *)
QuotedHeaderFound(s) ==
  /\ s.form \in {"single", "multi"}
  /\ s.form = "multi" <=> MultiForm(context)
  /\ s.sections \in Nat
QuotedChannelFound(s) ==
  ~ContextDecidesChannel =>
    IF events = <<>> THEN /\ ~s.decided
                          /\ \/ s.sections > 0
                             \/ header = "multi" /\ s.form = "multi"
    ELSE s.decided /\ s.channel = channel
QuotedSenderFound(s) ==
  SectionPerEvent /\ events # <<>> =>
    /\ LastEvent.sender \in s.senders
    /\ ~Quoted(Len(events), "separator") => ~s.open /\ s.sender = LastEvent.sender

QuotedFound ==
  InBlock /\ Headers(context) # {} =>
    LET s == Scan(text) IN
    QuotedHeaderFound(s) /\ QuotedChannelFound(s) /\ QuotedSenderFound(s)

(* Behind a header that is lost the pass finds nothing.                    *)
NothingFound ==
  phase # "idle" /\ headerLost /\ Headers(context) = {}
  /\ ~AnyQuoted("single") /\ ~AnyQuoted("multi") => Scan(text) = ScanInit

(* The pass goes on where the shorter text ends.                           *)
HasParts(s) ==
  s = Found(s.form, s.count, s.sections, s.channel, s.decided, s.open, s.sender, s.senders)

(* ... from nothing at the start.                                          *)
LEMMA ScanAppends ==
  ASSUME NEW old \in Seq(Line), NEW line \in Line
  PROVE  /\ Scan(<<>>) = ScanInit /\ HasParts(Scan(old))
         /\ Scan(Append(old, line)) = ScanLine(Scan(old), line)
<1>1. Append(old, line) \in Seq(Line) /\ <<>> \in Seq(Line)
  OBVIOUS
<1>2. Scan(<<>>) = ScanInit
  <2>1. Headers(<<>>) = {}
    BY DEF Headers
  <2> QED BY <1>1, <2>1, ScanIsSummary DEF Summary
<1>3. Scan(Append(old, line)) = ScanLine(Scan(old), line)
  BY <1>1, ScanIsSummary, HeaderStep, BlockStep
<1>4. HasParts(Scan(old))
  <2>1. CASE Headers(old) = {}
    <3>1. Scan(old) = ScanInit
      BY <2>1, ScanIsSummary DEF Summary
    <3> QED BY <3>1 DEF HasParts, Found, ScanInit
  <2>2. CASE Headers(old) # {}
    <3>1. Scan(old) = Found(old[Marker(old)].form, old[Marker(old)].count,
                            Cardinality(SectionStarts(old)), ChannelCapture(old),
                            ChannelLines(old) # {}, SectionOpen(old),
                            LastSender(old), DistinctSenders(old))
      BY <2>2, ScanIsSummary DEF Summary
    <3> QED BY <3>1 DEF HasParts, Found
  <2> QED BY <2>1, <2>2
<1> QED BY <1>2, <1>3, <1>4

(* What one line changes.                                                  *)
LEMMA StepParts ==
  ASSUME NEW s, HasParts(s), NEW line
  PROVE  LET t == ScanLine(s, line) IN
         /\ s.form = "none" /\ IsHeader(line) =>
              /\ t.form = line.form /\ t.count = line.count
              /\ t.sections = IF line.form = "single" THEN 1 ELSE 0
              /\ t.open = (line.form = "single")
              /\ t.decided = s.decided /\ t.senders = s.senders
         /\ s.form = "multi" /\ IsSectionSeparator(line) =>
              /\ t.form = s.form /\ t.count = s.count /\ t.sections = s.sections + 1
              /\ t.open /\ t.decided = s.decided /\ t.channel = s.channel
              /\ t.senders = s.senders
         /\ s.sections > 0 /\ IsChannelLine(line) /\ ~s.decided =>
              /\ t.form = s.form /\ t.count = s.count /\ t.sections = s.sections
              /\ t.decided /\ t.channel = ChannelUuid(line) /\ t.open = s.open
              /\ t.sender = s.sender /\ t.senders = s.senders
         /\ s.sections > 0 /\ IsFromLine(line) /\ s.open =>
              /\ t.form = s.form /\ t.count = s.count /\ t.sections = s.sections
              /\ t.decided = s.decided /\ t.channel = s.channel /\ ~t.open
              /\ t.sender = FromHex(line)
              /\ t.senders = s.senders \union ({FromHex(line)} \ {None})
<1> DEFINE t == ScanLine(s, line)
<1>1. DOMAIN s = {"form", "count", "sections", "channel", "decided", "open", "sender",
                  "senders"}
  BY DEF HasParts, Found
<1>2. ASSUME s.form = "none", IsHeader(line)
      PROVE  /\ t.form = line.form /\ t.count = line.count
             /\ t.sections = IF line.form = "single" THEN 1 ELSE 0
             /\ t.open = (line.form = "single")
             /\ t.decided = s.decided /\ t.senders = s.senders
  <2>1. t = [s EXCEPT !.form = line.form, !.count = line.count,
                      !.sections = IF line.form = "single" THEN 1 ELSE 0,
                      !.open = line.form = "single"]
    BY <1>2, ScanSteps
  <2> HIDE DEF t
  <2> QED BY <1>1, <2>1
<1>3. ASSUME s.form = "multi", IsSectionSeparator(line)
      PROVE  /\ t.form = s.form /\ t.count = s.count /\ t.sections = s.sections + 1
             /\ t.open /\ t.decided = s.decided /\ t.channel = s.channel
             /\ t.senders = s.senders
  <2>1. t = [s EXCEPT !.sections = s.sections + 1, !.open = TRUE, !.sender = None]
    BY <1>3, ScanSteps
  <2> HIDE DEF t
  <2> QED BY <1>1, <2>1
<1>4. ASSUME s.sections > 0, IsChannelLine(line), ~s.decided
      PROVE  /\ t.form = s.form /\ t.count = s.count /\ t.sections = s.sections
             /\ t.decided /\ t.channel = ChannelUuid(line) /\ t.open = s.open
             /\ t.sender = s.sender /\ t.senders = s.senders
  <2>1. t = [s EXCEPT !.channel = ChannelUuid(line), !.decided = TRUE]
    BY <1>4, ScanSteps
  <2> HIDE DEF t
  <2> QED BY <1>1, <2>1
<1>5. ASSUME s.sections > 0, IsFromLine(line), s.open
      PROVE  /\ t.form = s.form /\ t.count = s.count /\ t.sections = s.sections
             /\ t.decided = s.decided /\ t.channel = s.channel /\ ~t.open
             /\ t.sender = FromHex(line)
             /\ t.senders = s.senders \union ({FromHex(line)} \ {None})
  <2>1. t = [s EXCEPT !.sender = FromHex(line), !.open = FALSE,
                      !.senders = s.senders \union ({FromHex(line)} \ {None})]
    BY <1>5, ScanSteps
  <2> HIDE DEF t
  <2> QED BY <1>1, <2>1
<1> QED BY <1>2, <1>3, <1>4, <1>5

(* Once there is a header the pass keeps its form, the sections, the first *)
(* channel and the senders; and within a section that has its sender, that *)
(* sender.                                                                 *)
LEMMA ScanKeeps ==
  ASSUME NEW s, HasParts(s), s.form \in {"single", "multi"}, s.sections \in Nat, NEW line
  PROVE  LET t == ScanLine(s, line) IN
         /\ t.form = s.form /\ t.sections \in Nat /\ t.sections >= s.sections
         /\ s.decided => t.decided /\ t.channel = s.channel
         /\ s.senders \subseteq t.senders
         /\ ~s.open /\ ~(s.form = "multi" /\ IsSectionSeparator(line)) =>
              ~t.open /\ t.sender = s.sender
<1> DEFINE t == ScanLine(s, line)
<1>1. CASE s.form = "multi" /\ IsSectionSeparator(line)
  <2>1. t.form = s.form /\ t.sections = s.sections + 1 /\ t.senders = s.senders
    BY <1>1, StepParts
  <2>2. t.channel = s.channel
    BY <1>1, StepParts
  <2>3. t.decided = s.decided
    BY <1>1, StepParts
  <2> HIDE DEF t
  <2> QED BY <1>1, <2>1, <2>2, <2>3 DEF t
<1>2. CASE s.sections > 0 /\ IsChannelLine(line) /\ ~s.decided
  <2>1. t.form = s.form /\ t.sections = s.sections /\ t.senders = s.senders
    BY <1>2, StepParts
  <2>2. t.open = s.open
    BY <1>2, StepParts
  <2>3. t.sender = s.sender
    BY <1>2, StepParts
  <2> HIDE DEF t
  <2> QED BY <1>2, <2>1, <2>2, <2>3 DEF t
<1>3. CASE s.sections > 0 /\ IsFromLine(line) /\ s.open
  <2>1. t.form = s.form /\ t.sections = s.sections /\ t.channel = s.channel
    BY <1>3, StepParts
  <2>2. t.decided = s.decided
    BY <1>3, StepParts
  <2>3. t.senders = s.senders \union ({FromHex(line)} \ {None})
    BY <1>3, StepParts
  <2> HIDE DEF t
  <2> QED BY <1>3, <2>1, <2>2, <2>3 DEF t
<1>4. CASE /\ ~(s.form = "multi" /\ IsSectionSeparator(line))
           /\ ~(s.sections > 0 /\ IsChannelLine(line) /\ ~s.decided)
           /\ ~(s.sections > 0 /\ IsFromLine(line) /\ s.open)
  <2>1. t = s
    BY <1>4, ScanSteps
  <2> HIDE DEF t
  <2> QED BY <2>1 DEF t
<1> QED BY <1>1, <1>2, <1>3, <1>4

(* The sender of a text is counted among its senders, of which there are   *)
(* finitely many.                                                          *)
LEMMA SenderCounted ==
  ASSUME NEW lines \in Seq(Line)
  PROVE  /\ Scan(lines).sender # None => Scan(lines).sender \in Scan(lines).senders
         /\ IsFiniteSet(Scan(lines).senders)
<1> DEFINE starts == SectionStarts(lines)
           s == Scan(lines)
<1>1. CASE Headers(lines) = {}
  <2>1. s.sender = None /\ s.senders = {}
    BY <1>1, ScanIsSummary DEF Summary, ScanInit
  <2> HIDE DEF s
  <2> QED BY <2>1, FS_EmptySet DEF s
<1>2. CASE Headers(lines) # {}
  <2>1. s.sender = LastSender(lines) /\ s.senders = DistinctSenders(lines)
    BY <1>2, ScanIsSummary DEF Summary, Found
  <2>2. starts \subseteq 1 .. Len(lines) /\ Len(lines) \in Nat
    <3>1. Len(lines) \in Nat /\ DOMAIN lines = 1 .. Len(lines)
      OBVIOUS
    <3>2. starts \subseteq DOMAIN lines
      <4>1. Headers(lines) \in SUBSET Nat
        BY <3>1 DEF Headers
      <4>2. Marker(lines) \in DOMAIN lines
        BY <1>2, <4>1, MinOfNats DEF Marker, Headers
      <4> QED BY <4>2 DEF SectionStarts
    <3> QED BY <3>1, <3>2
  <2> HIDE DEF s, starts
  <2>3. s.sender # None => s.sender \in s.senders
    <3> SUFFICES ASSUME s.sender # None PROVE s.sender \in s.senders
      OBVIOUS
    <3>1. starts # {}
      BY <2>1 DEF LastSender, starts
    <3>2. Max(starts) \in starts
      BY <2>2, <3>1, MaxOfBounded
    <3> QED BY <2>1, <3>1, <3>2 DEF LastSender, DistinctSenders, starts
  <2>4. IsFiniteSet(s.senders)
    <3>0. IsFiniteSet(1 .. Len(lines))
      BY <2>2, FS_Interval
    <3>1. IsFiniteSet(starts)
      BY <2>2, <3>0, FS_Subset
    <3> DEFINE all == {Sender(lines, start) : start \in starts}
               senderOf == [start \in starts |-> Sender(lines, start)]
    <3>2. IsFiniteSet(all)
      <4>1. senderOf \in Surjection(starts, all)
        BY DEF Surjection
      <4> HIDE DEF senderOf, all
      <4> QED BY <3>1, <4>1, FS_Surjection
    <3>3. s.senders \subseteq all
      BY <2>1 DEF DistinctSenders, starts
    <3> HIDE DEF all
    <3> QED BY <3>2, <3>3, FS_Subset
  <2> QED BY <2>3, <2>4 DEF s
<1> QED BY <1>1, <1>2

(* The two lines of an event, in a section: the first channel stays, and   *)
(* the sender of the event is the section's if it has none yet.            *)
LEMMA EventScanned ==
  ASSUME NEW s, HasParts(s), s.sections > 0,
         NEW c \in Uuids, NEW sender \in Pubkeys, NEW name \in Seq(Captures),
         HasParts(ScanLine(s, Channel(Append(name, c)))),
         s.form \in {"single", "multi"}, s.sections \in Nat
  PROVE  LET t == ScanLine(ScanLine(s, Channel(Append(name, c))), From(Append(name, sender)))
         IN  /\ t.form = s.form /\ t.sections \in Nat /\ t.decided
             /\ t.channel = IF s.decided THEN s.channel ELSE c
             /\ s.open => /\ t.count = s.count /\ t.sections = s.sections
                          /\ ~t.open /\ t.sender = sender
                          /\ t.senders = s.senders \union {sender}
<1> DEFINE place == Channel(Append(name, c))
           who == From(Append(name, sender))
           half == ScanLine(s, place)
           t == ScanLine(half, who)
<1>1. /\ IsChannelLine(place) /\ ~IsFromLine(place) /\ ~IsHeader(place)
      /\ ~IsSectionSeparator(place) /\ IsFromLine(who)
  BY DEF IsChannelLine, IsFromLine, IsHeader, IsSectionSeparator, Channel, From, Plain
<1>2. \A x : /\ Len(Append(name, x)) > 0
             /\ Append(name, x)[Len(Append(name, x))] = x
  OBVIOUS
<1>3. ChannelUuid(place) = c
  <2>1. place.captures = Append(name, c) /\ place.closed
    BY DEF Channel, Plain
  <2> HIDE DEF place
  <2> QED BY <1>2, <2>1 DEF ChannelUuid, LastCapture
<1>4. FromHex(who) = sender /\ sender # None
  <2>1. who.captures = Append(name, sender) /\ who.closed
    BY DEF From, Plain
  <2> HIDE DEF who
  <2> QED BY <1>2, <2>1, CapturesAssumption DEF FromHex, LastCapture
<1> HIDE DEF place, who
<1>5. /\ half.form = s.form /\ half.count = s.count /\ half.sections = s.sections
      /\ half.decided /\ half.channel = IF s.decided THEN s.channel ELSE c
      /\ half.open = s.open /\ half.senders = s.senders
  <2>1. CASE s.decided
    <3>1. half = s
      BY <1>1, <2>1, ScanSteps
    <3> HIDE DEF half
    <3> QED BY <2>1, <3>1
  <2>2. CASE ~s.decided
    <3>1. IsChannelLine(place) /\ ~s.decided /\ s.sections > 0
      BY <1>1, <2>2
    <3>2. half.form = s.form /\ half.count = s.count /\ half.sections = s.sections
      BY <3>1, StepParts
    <3>3. half.senders = s.senders /\ half.channel = c
      BY <1>3, <3>1, StepParts
    <3>4. half.decided
      BY <3>1, StepParts
    <3>5. half.open = s.open
      BY <3>1, StepParts
    <3> HIDE DEF half
    <3> QED BY <2>2, <3>2, <3>3, <3>4, <3>5
  <2> QED BY <2>1, <2>2
<1>6. HasParts(half)
  BY DEF place
<1> HIDE DEF half
<1>7. ASSUME s.open
      PROVE  /\ t.count = s.count /\ t.sections = s.sections
             /\ ~t.open /\ t.sender = sender /\ t.senders = s.senders \union {sender}
  <2>1. /\ t.count = half.count /\ t.sections = half.sections
        /\ ~t.open /\ t.sender = sender /\ t.senders = half.senders \union ({sender} \ {None})
    BY <1>1, <1>4, <1>5, <1>6, <1>7, StepParts
  <2> HIDE DEF t
  <2> QED BY <1>4, <1>5, <2>1
<1>8. t.form = half.form /\ t.sections \in Nat /\ t.decided /\ t.channel = half.channel
  BY <1>5, <1>6, ScanKeeps
<1> HIDE DEF t
<1> QED BY <1>5, <1>7, <1>8 DEF half, place, who, t

-----------------------------------------------------------------------------
(* Batches are batches of events.                                          *)
LEMMA BatchTypeCorrect == Spec => []BatchTyped
<1>1. Init => BatchTyped
  <2>1. <<>> \in Seq(SomeEvent)
    OBVIOUS
  <2> SUFFICES ASSUME Init PROVE BatchTyped
    OBVIOUS
  <2>2. events = <<>> /\ headerLost = FALSE /\ declared = 0 /\ header = "none"
    BY DEF Init
  <2> QED BY <2>1, <2>2 DEF BatchTyped
<1>2. BatchTyped /\ [Next]_vars => BatchTyped'
  <2> SUFFICES ASSUME BatchTyped, [Next]_vars PROVE BatchTyped'
    OBVIOUS
  <2>1. CASE Resolved \/ UNCHANGED vars
    BY <2>1 DEF Resolved, BatchTyped, vars, prompt
  <2>2. CASE HandlePrompt
    BY <2>2 DEF HandlePrompt, BatchTyped, prompt
  <2>3. <<>> \in Seq(SomeEvent)
    OBVIOUS
  <2>4. CASE StartPlain
    BY <2>3, <2>4 DEF StartPlain, Compose, BatchTyped
  <2>5. ASSUME NEW line \in FreeLines, WriteFreely(line) PROVE BatchTyped'
    BY <2>5 DEF WriteFreely, BatchTyped
  <2>6. ASSUME NEW c \in Uuids, NEW n \in 1 .. MaxEvents,
               \/ StartBatch(c, n, "multi")
               \/ n = 1 /\ StartBatch(c, n, "single")
        PROVE  BatchTyped'
    <3>1. n \in Nat
      BY BoundsAssumption
    <3>2. headerLost' \in BOOLEAN /\ phase' = "composing"
      BY <2>6 DEF StartBatch, Compose
    <3> QED BY <2>3, <2>6, <3>1, <3>2 DEF StartBatch, Compose, BatchTyped
  <2>7. ASSUME NEW sender \in Pubkeys, NEW name \in Names, RenderEvent(sender, name)
        PROVE  BatchTyped'
    <3>1. [sender |-> sender, quoted |-> <<>>] \in SomeEvent
      BY DEF SomeEvent
    <3>2. events' \in Seq(SomeEvent)
      BY <2>7, <3>1 DEF RenderEvent, BatchTyped
    <3>3. header # "none"
      BY <2>7 DEF RenderEvent, BatchTyped
    <3> QED BY <2>7, <3>2, <3>3 DEF RenderEvent, BatchTyped
  <2>8. ASSUME NEW line \in ContentLines, WriteContent(line) PROVE BatchTyped'
    <3>1. line.form \in Forms
      BY LinesAssumption DEF Line
    <3>2. LastEvent \in SomeEvent /\ Len(events) \in 1 .. Len(events)
      BY <2>8 DEF WriteContent, BatchTyped, LastEvent
    <3>3. [LastEvent EXCEPT !.quoted = Append(@, line.form)] \in SomeEvent
      BY <3>1, <3>2 DEF SomeEvent
    <3>4. events' = [events EXCEPT ![Len(events)] =
                       [LastEvent EXCEPT !.quoted = Append(@, line.form)]]
      BY <2>8 DEF WriteContent, LastEvent
    <3>5. events' \in Seq(SomeEvent)
      BY <3>2, <3>3, <3>4 DEF BatchTyped
    <3> QED BY <2>8, <3>5 DEF WriteContent, BatchTyped
  <2> QED BY <2>1, <2>2, <2>4, <2>5, <2>6, <2>7, <2>8 DEF Next
<1> QED BY <1>1, <1>2, PTL DEF Spec

(* A new event quotes nothing yet.                                         *)
LEMMA OneMoreEvent ==
  ASSUME BatchTyped, NEW e \in SomeEvent, e.quoted = <<>>, events' = Append(events, e)
  PROVE  /\ events' # <<>> /\ Len(events) \in Nat /\ Len(events') = Len(events) + 1
         /\ LastEvent' = e /\ Senders' = Senders \union {e.sender}
         /\ \A form : /\ AnyQuoted(form)' <=> AnyQuoted(form)
                      /\ ~(\E j \in DOMAIN events'[Len(events')].quoted :
                             events'[Len(events')].quoted[j] = form)
<1>1. /\ Len(events) \in Nat /\ Len(events') = Len(events) + 1
      /\ DOMAIN events = 1 .. Len(events)
      /\ DOMAIN events' = DOMAIN events \union {Len(events')}
      /\ \A i \in DOMAIN events : events'[i] = events[i]
      /\ events'[Len(events')] = e /\ events' # <<>>
  BY DEF BatchTyped
<1>2. LastEvent' = e
  BY <1>1 DEF LastEvent
<1>3. Senders' = Senders \union {e.sender}
  BY <1>1 DEF Senders
<1>4. \A form : ~(\E j \in DOMAIN e.quoted : e.quoted[j] = form)
  OBVIOUS
<1>5. ASSUME NEW form
      PROVE  AnyQuoted(form)' <=> AnyQuoted(form)
  BY <1>1, <1>4 DEF AnyQuoted, Quoted
<1> QED BY <1>1, <1>2, <1>3, <1>4, <1>5

(* A line of content adds its form to what the last event quotes.          *)
LEMMA OneMoreLine ==
  ASSUME BatchTyped, NEW line \in ContentLines, WriteContent(line)
  PROVE  /\ events' # <<>> /\ Len(events') = Len(events)
         /\ LastEvent'.sender = LastEvent.sender /\ Senders' = Senders
         /\ \A form \in Forms :
              /\ AnyQuoted(form)' <=> AnyQuoted(form) \/ line.form = form
              /\ Quoted(Len(events), form)' <=> Quoted(Len(events), form) \/ line.form = form
<1> DEFINE n == Len(events)
           more == [LastEvent EXCEPT !.quoted = Append(@, line.form)]
<1>0. line.form \in Forms
  BY LinesAssumption DEF Line
<1>1. n \in DOMAIN events /\ n \in Nat /\ DOMAIN events = 1 .. n /\ LastEvent \in SomeEvent
  BY DEF WriteContent, BatchTyped, LastEvent
<1>2. events' = [events EXCEPT ![n] = more]
  BY DEF WriteContent, LastEvent
<1>3. /\ more.sender = LastEvent.sender /\ more.quoted = Append(LastEvent.quoted, line.form)
      /\ LastEvent.quoted \in Seq(Forms)
  BY <1>1 DEF SomeEvent
<1> HIDE DEF more
<1>4. /\ DOMAIN events' = DOMAIN events /\ events'[n] = more
      /\ \A i \in DOMAIN events \ {n} : events'[i] = events[i]
  BY <1>1, <1>2
<1>5. Len(events') = n /\ events' # <<>>
  BY <1>1, <1>2 DEF BatchTyped
<1>6. LastEvent'.sender = LastEvent.sender
  BY <1>3, <1>4, <1>5 DEF LastEvent
<1>7. \A i \in DOMAIN events : events'[i].sender = events[i].sender
  BY <1>3, <1>4 DEF LastEvent
<1>8. Senders' = Senders
  BY <1>4, <1>7 DEF Senders
<1>9. ASSUME NEW form
      PROVE  (\E j \in DOMAIN more.quoted : more.quoted[j] = form) <=>
               (\E j \in DOMAIN LastEvent.quoted : LastEvent.quoted[j] = form) \/ line.form = form
  <2> DEFINE q == LastEvent.quoted
             r == more.quoted
  <2>1. /\ DOMAIN r = DOMAIN q \union {Len(q) + 1} /\ r[Len(q) + 1] = line.form
        /\ \A j \in DOMAIN q : r[j] = q[j]
    BY <1>0, <1>3
  <2> HIDE DEF q, r
  <2>2. (\E j \in DOMAIN r : r[j] = form) <=>
          (\E j \in DOMAIN q : q[j] = form) \/ line.form = form
    BY <2>1
  <2> QED BY <2>2 DEF q, r
<1>10. ASSUME NEW form \in Forms
       PROVE  /\ AnyQuoted(form)' <=> AnyQuoted(form) \/ line.form = form
              /\ Quoted(n, form)' <=> Quoted(n, form) \/ line.form = form
  <2>1. events'[n] = more /\ events[n] = LastEvent
    BY <1>4 DEF LastEvent
  <2>2. Quoted(n, form)' <=> Quoted(n, form) \/ line.form = form
    BY <1>5, <1>9, <2>1 DEF Quoted
  <2>3. \A i \in DOMAIN events \ {n} :
          (\E j \in DOMAIN events'[i].quoted : events'[i].quoted[j] = form) <=> Quoted(i, form)
    BY <1>4 DEF Quoted
  <2>4. (\E j \in DOMAIN events'[n].quoted : events'[n].quoted[j] = form) <=>
          Quoted(n, form) \/ line.form = form
    BY <1>9, <2>1 DEF Quoted
  <2>5. AnyQuoted(form)' <=>
          \E i \in DOMAIN events : \E j \in DOMAIN events'[i].quoted :
             events'[i].quoted[j] = form
    BY <1>4 DEF AnyQuoted, Quoted
  <2> HIDE DEF n
  <2>6. AnyQuoted(form)' <=> AnyQuoted(form) \/ line.form = form
    BY <1>1, <2>3, <2>4, <2>5 DEF AnyQuoted
  <2> QED BY <2>2, <2>6
<1> QED BY <1>5, <1>6, <1>8, <1>10

(* What a prompt holds after its first line, which is the block's header   *)
(* if it is not lost.                                                      *)
FoundSoFar == BlockFound /\ QuotedFound /\ NothingFound

(* It starts with the header as the first, if there is none in the context,*)
LEMMA FreshStart ==
  ASSUME NEW c \in Uuids, NEW n \in 1 .. MaxEvents, NEW form \in {"multi", "single"},
         StartBatch(c, n, form)
  PROVE  BlockFound' /\ NothingFound'
<1> DEFINE line == HeaderLine(n, form)
           t == ScanLine(ScanInit, line)
<1>1. line \in Line /\ IsHeader(line) /\ line.form = form /\ (form = "multi" => line.count = n)
  BY HeaderIsLine
<1>2. channel' = c /\ declared' = n /\ header' = form /\ events' = <<>>
  BY DEF StartBatch, Compose
<1>3. /\ context' \in Seq(Line) /\ text' \in Seq(Line)
      /\ headerLost' => text' = context'
      /\ ~headerLost' => text' = Append(context', line)
  BY StartText
<1> HIDE DEF line
<1>4. \A x \in Seq(Line) : Headers(x) = {} => Scan(x) = ScanInit
  BY ScanIsSummary DEF Summary
<1>5. /\ t.form = form /\ t.count = line.count
      /\ t.sections = IF form = "single" THEN 1 ELSE 0
      /\ t.open = (form = "single") /\ ~t.decided /\ t.senders = {}
  <2>0. /\ ScanInit.form = "none" /\ ~ScanInit.decided
        /\ ScanInit.senders = {} /\ HasParts(ScanInit)
    BY DEF ScanInit, HasParts, Found
  <2>1. ScanInit.form = "none" /\ IsHeader(line)
    BY <1>1, <2>0
  <2>2. t.form = line.form /\ t.count = line.count /\ t.senders = ScanInit.senders
    BY <2>0, <2>1, StepParts
  <2>3. t.sections = IF line.form = "single" THEN 1 ELSE 0
    BY <2>0, <2>1, StepParts
  <2>4. t.open = (line.form = "single")
    BY <2>0, <2>1, StepParts
  <2>5. t.decided = ScanInit.decided
    BY <2>0, <2>1, StepParts
  <2> HIDE DEF t
  <2> QED BY <1>1, <2>0, <2>2, <2>3, <2>4, <2>5
<1>6. ~AnyQuoted("separator")' /\ Len(events') = 0
  BY <1>2 DEF AnyQuoted
<1>7. BlockFound'
  <2> SUFFICES ASSUME InBlock', Headers(context)' = {}
               PROVE  (HeaderFound(Scan(text)) /\ SectionsFound(Scan(text))
                       /\ NoEventFound(Scan(text)) /\ EventsFound(Scan(text)))'
    BY DEF BlockFound
  <2>1. Scan(text') = t
    <3>1. ~headerLost' /\ Headers(context') = {}
      BY DEF InBlock
    <3>2. Scan(context') = ScanInit
      BY <1>3, <1>4, <3>1
    <3> QED BY <1>1, <1>3, <3>1, <3>2, ScanAppends
  <2> HIDE DEF t
  <2>2. HeaderFound(Scan(text))'
    BY <1>1, <1>2, <1>5, <2>1 DEF HeaderFound
  <2>3. SectionsFound(Scan(text))'
    BY <1>2, <1>5, <1>6, <2>1 DEF SectionsFound
  <2>4. NoEventFound(Scan(text))'
    BY <1>2, <1>5, <2>1 DEF NoEventFound
  <2>5. EventsFound(Scan(text))'
    BY <1>2 DEF EventsFound
  <2> QED BY <2>2, <2>3, <2>4, <2>5
<1>8. NothingFound'
  <2> SUFFICES ASSUME headerLost', Headers(context') = {} PROVE Scan(text') = ScanInit
    BY DEF NothingFound
  <2> QED BY <1>3, <1>4
<1> QED BY <1>7, <1>8

(* ... or it is not noticed, for one that is.                              *)
LEMMA QuotedStart ==
  ASSUME NEW c \in Uuids, NEW n \in 1 .. MaxEvents, NEW form \in {"multi", "single"},
         StartBatch(c, n, form)
  PROVE  QuotedFound'
<1> DEFINE line == HeaderLine(n, form)
           lines == context'
           starts == SectionStarts(lines)
           s == Scan(lines)
<1> SUFFICES ASSUME InBlock', Headers(lines) # {}
             PROVE  (QuotedHeaderFound(Scan(text)) /\ QuotedChannelFound(Scan(text))
                     /\ QuotedSenderFound(Scan(text)))'
  BY DEF QuotedFound
<1>1. line \in Line /\ IsHeader(line)
  BY HeaderIsLine
<1>2. header' = form /\ events' = <<>>
  BY DEF StartBatch, Compose
<1>3. lines \in Seq(Line) /\ text' = Append(lines, line)
  BY StartText DEF InBlock
<1>4. /\ s.form = lines[Marker(lines)].form /\ s.sections = Cardinality(starts)
      /\ s.decided <=> ChannelLines(lines) # {}
  <2>1. s = Found(lines[Marker(lines)].form, lines[Marker(lines)].count,
                  Cardinality(starts), ChannelCapture(lines),
                  ChannelLines(lines) # {}, SectionOpen(lines),
                  LastSender(lines), DistinctSenders(lines))
    BY <1>3, ScanIsSummary DEF Summary
  <2> HIDE DEF s, starts
  <2> QED BY <2>1 DEF Found
<1>5. Marker(lines) \in Headers(lines) /\ Marker(lines) \in DOMAIN lines
  <2>1. Headers(lines) \in SUBSET Nat
    BY <1>3 DEF Headers
  <2> QED BY <2>1, MinOfNats DEF Marker, Headers
<1>6. s.form \in {"single", "multi"} /\ (s.form = "multi" <=> MultiForm(lines))
  BY <1>4, <1>5 DEF Headers, IsHeader, MultiForm
<1>7. s.sections \in Nat /\ (starts # {} => s.sections > 0)
  <2>1. starts \subseteq 1 .. Len(lines) /\ Len(lines) \in Nat
    BY <1>3, <1>5 DEF SectionStarts
  <2> HIDE DEF starts
  <2>2. IsFiniteSet(starts)
    <3>1. IsFiniteSet(1 .. Len(lines))
      BY <2>1, FS_Interval
    <3> QED BY <2>1, <3>1, FS_Subset
  <2> HIDE DEF starts, s
  <2> QED BY <1>4, <2>2, FS_CardinalityType, FS_EmptySet
<1>8. Scan(text') = s
  <2>1. Scan(text') = ScanLine(s, line)
    BY <1>1, <1>3, ScanAppends
  <2>2. s.form # "none" /\ line.form \in {"multi", "single"}
    BY <1>1, <1>6 DEF IsHeader
  <2>3. ~IsSectionSeparator(line) /\ ~IsChannelLine(line) /\ ~IsFromLine(line)
    BY <2>2 DEF IsSectionSeparator, IsChannelLine, IsFromLine
  <2> HIDE DEF s, line
  <2> QED BY <2>1, <2>2, <2>3, ScanSteps
<1> HIDE DEF s
<1>9. QuotedHeaderFound(Scan(text))'
  BY <1>6, <1>7, <1>8 DEF QuotedHeaderFound
<1>10. QuotedChannelFound(Scan(text))'
  <2> SUFFICES ASSUME ~ContextDecidesChannel'
               PROVE  ~s.decided /\ (s.sections > 0 \/ (form = "multi" /\ s.form = "multi"))
    BY <1>2, <1>8 DEF QuotedChannelFound
  <2>1. ChannelLines(lines) = {} /\ (starts # {} \/ form # "single")
    BY <1>2 DEF ContextDecidesChannel
  <2>2. ~MultiForm(lines) => starts # {}
    BY DEF SectionStarts
  <2> QED BY <1>4, <1>6, <1>7, <2>1, <2>2
<1>11. QuotedSenderFound(Scan(text))'
  BY <1>2 DEF QuotedSenderFound
<1> QED BY <1>9, <1>10, <1>11

(* ... an event adds its section, its channel and its sender,              *)
LEMMA RenderFound ==
  ASSUME TextTyped, BatchTyped, FoundSoFar,
         NEW sender \in Pubkeys, NEW name \in Names, RenderEvent(sender, name)
  PROVE  FoundSoFar'
<1> DEFINE sep == Plain("separator")
           place == Channel(Append(name, channel))
           who == From(Append(name, sender))
           e == [sender |-> sender, quoted |-> <<>>]
           s == Scan(text)
           o == Scan(Opened)
           h == ScanLine(o, place)
           t == ScanLine(h, who)
<1>1. /\ phase = "composing" /\ Len(events) < declared /\ events' = Append(events, e)
      /\ phase' = phase /\ channel' = channel /\ header' = header /\ declared' = declared
      /\ headerLost' = headerLost /\ context' = context
      /\ text' = Append(Append(Opened, place), who)
  BY DEF RenderEvent, Opened
<1>2. header \in {"single", "multi"} /\ channel \in Uuids /\ name \in Seq(Captures)
  <2>1. Len(events) \in Nat
    BY DEF BatchTyped
  <2> QED BY <1>1, <2>1, NamesAssumption DEF BatchTyped
<1>3. sep \in Line /\ place \in Line /\ who \in Line
  <2>1. Append(name, channel) \in Seq(Captures) /\ Append(name, sender) \in Seq(Captures)
    BY <1>2 DEF Captures
  <2> QED BY <2>1, RenderedLines
<1>4. ~IsHeader(sep) /\ ~IsHeader(place) /\ ~IsHeader(who)
  BY DEF IsHeader, Channel, From, Plain
<1>5. IsSectionSeparator(sep)
  BY DEF IsSectionSeparator, Plain
<1>6. /\ events' # <<>> /\ Len(events) \in Nat /\ Len(events') = Len(events) + 1
      /\ LastEvent'.sender = sender /\ Senders' = Senders \union {sender}
      /\ \A form : AnyQuoted(form)' <=> AnyQuoted(form)
  <2>1. e \in SomeEvent /\ e.quoted = <<>> /\ e.sender = sender
    BY DEF SomeEvent
  <2> HIDE DEF e
  <2> QED BY <1>1, <2>1, OneMoreEvent
<1> HIDE DEF sep, place, who, e
<1>7. /\ text \in Seq(Line) /\ Opened \in Seq(Line) /\ Append(Opened, place) \in Seq(Line)
      /\ Opened = IF header = "multi" THEN Append(text, sep) ELSE text
  BY <1>3 DEF TextTyped, Opened, sep
<1>8. /\ HasParts(s) /\ HasParts(o) /\ HasParts(h) /\ Scan(text') = t
      /\ o = IF header = "multi" THEN ScanLine(s, sep) ELSE s
  <2>1. h = Scan(Append(Opened, place))
    BY <1>3, <1>7, ScanAppends
  <2> HIDE DEF h
  <2> QED BY <1>1, <1>3, <1>7, <2>1, ScanAppends
<1> HIDE DEF s, o
<1>9. NothingFound'
  <2> SUFFICES ASSUME headerLost, Headers(context) = {},
                      ~AnyQuoted("single"), ~AnyQuoted("multi")
               PROVE  t = ScanInit
    BY <1>1, <1>6, <1>8 DEF NothingFound
  <2>1. s = ScanInit
    BY <1>1 DEF FoundSoFar, NothingFound, s
  <2>2. \A line : ~IsHeader(line) => ScanLine(ScanInit, line) = ScanInit
    <3>1. ScanInit.form = "none" /\ ScanInit.sections = 0
      BY DEF ScanInit
    <3>2. ~(ScanInit.sections > 0) /\ ScanInit.form # "multi"
      BY <3>1
    <3> QED BY <3>2, ScanSteps
  <2> QED BY <1>4, <1>8, <2>1, <2>2
<1>10. ASSUME InBlock, Headers(context) = {}
       PROVE  (HeaderFound(Scan(text)) /\ SectionsFound(Scan(text))
               /\ NoEventFound(Scan(text)) /\ EventsFound(Scan(text)))'
  <2>1. HeaderFound(s) /\ SectionsFound(s) /\ NoEventFound(s) /\ EventsFound(s)
    BY <1>10 DEF FoundSoFar, BlockFound, s
  <2>2. events = <<>> => Len(events) = 0 /\ Senders = {} /\ ~AnyQuoted("separator")
    BY DEF Senders, AnyQuoted
  <2>3. header = "single" => events = <<>>
    BY <1>1, <1>6 DEF BatchTyped
  <2>4. s.sections \in Nat /\ s.form = header
    BY <2>1 DEF SectionsFound, HeaderFound
  <2>5. /\ o.form = s.form /\ o.count = s.count /\ o.decided = s.decided
        /\ o.channel = s.channel /\ o.senders = s.senders /\ o.open
        /\ o.sections = IF header = "multi" THEN s.sections + 1 ELSE 1
    <3>1. CASE header = "multi"
      <4>1. s.form = "multi" /\ IsSectionSeparator(sep) /\ o = ScanLine(s, sep)
        BY <1>5, <1>8, <2>4, <3>1
      <4>2. /\ o.form = s.form /\ o.count = s.count /\ o.sections = s.sections + 1
            /\ o.channel = s.channel /\ o.senders = s.senders
        BY <1>8, <4>1, StepParts
      <4>3. o.open /\ o.decided = s.decided
        BY <1>8, <4>1, StepParts
      <4> QED BY <3>1, <4>2, <4>3
    <3>2. CASE header = "single"
      <4>1. s.open /\ s.sections = 1
        BY <2>1, <2>3, <3>2 DEF NoEventFound, SectionsFound
      <4> QED BY <1>8, <3>2, <4>1
    <3> QED BY <1>2, <3>1, <3>2
  <2>6. o.sections > 0
    BY <2>4, <2>5
  <2>7. o.decided => o.channel = channel
    BY <2>1, <2>5 DEF NoEventFound, EventsFound
  <2>8. /\ t.form = o.form /\ t.count = o.count /\ t.sections = o.sections
        /\ t.decided /\ t.channel = channel /\ ~t.open
        /\ t.sender = sender /\ t.senders = o.senders \union {sender}
    BY <1>2, <1>8, <2>4, <2>5, <2>6, <2>7, EventScanned DEF place, who
  <2> HIDE DEF t
  <2> DEFINE Now == Scan(text)
  <2>0. Now' = t
    BY <1>8
  <2> HIDE DEF Now
  <2>9. HeaderFound(Now)'
    BY <1>1, <2>0, <2>1, <2>5, <2>8 DEF HeaderFound
  <2>10. SectionsFound(Now)'
    BY <1>1, <2>0, <1>6, <2>1, <2>4, <2>5, <2>8 DEF SectionsFound
  <2>11. NoEventFound(Now)'
    BY <1>6 DEF NoEventFound
  <2>12. EventsFound(Now)'
    <3>1. header = "single" \/ ~AnyQuoted("separator") => s.senders = Senders
      BY <2>1, <2>2, <2>3 DEF NoEventFound, EventsFound
    <3> QED BY <1>1, <1>6, <2>0, <2>5, <2>8, <3>1 DEF EventsFound
  <2> QED BY <2>9, <2>10, <2>11, <2>12 DEF Now
<1>11. ASSUME InBlock, Headers(context) # {}
       PROVE  (QuotedHeaderFound(Scan(text)) /\ QuotedChannelFound(Scan(text))
               /\ QuotedSenderFound(Scan(text)))'
  <2>1. QuotedHeaderFound(s) /\ QuotedChannelFound(s)
    BY <1>11 DEF FoundSoFar, QuotedFound, s
  <2>2. /\ s.form \in {"single", "multi"} /\ s.sections \in Nat
        /\ s.form = "multi" <=> MultiForm(context)
    BY <2>1 DEF QuotedHeaderFound
  <2> DEFINE opens == header = "multi" /\ s.form = "multi"
  <2>3. /\ o.form = s.form /\ o.decided = s.decided /\ o.channel = s.channel
        /\ o.sections = IF opens THEN s.sections + 1 ELSE s.sections
        /\ opens => o.open
    <3>1. CASE opens
      <4>1. s.form = "multi" /\ o = ScanLine(s, sep)
        BY <1>8, <3>1
      <4>2. o.form = s.form /\ o.sections = s.sections + 1 /\ o.channel = s.channel
        BY <1>5, <1>8, <4>1, StepParts
      <4>3. o.open /\ o.decided = s.decided
        BY <1>5, <1>8, <4>1, StepParts
      <4> QED BY <3>1, <4>2, <4>3
    <3>2. CASE ~opens
      <4>1. CASE header = "multi"
        <5>1. s.form # "none" /\ s.form # "multi" /\ o = ScanLine(s, sep)
          BY <1>8, <2>2, <3>2, <4>1
        <5>2. ~IsChannelLine(sep) /\ ~IsFromLine(sep)
          BY <1>5 DEF IsSectionSeparator, IsChannelLine, IsFromLine
        <5>3. o = s
          BY <5>1, <5>2, ScanSteps
        <5> QED BY <3>2, <5>3
      <4>2. CASE header # "multi"
        BY <1>8, <3>2, <4>2
      <4> QED BY <4>1, <4>2
    <3> QED BY <3>1, <3>2
  <2>4. o.form \in {"single", "multi"} /\ o.sections \in Nat
    BY <2>2, <2>3
  <2>5. /\ h.form = o.form /\ h.sections \in Nat
        /\ o.decided => h.decided /\ h.channel = o.channel
    BY <1>8, <2>4, ScanKeeps
  <2>6. /\ t.form = o.form /\ t.sections \in Nat
        /\ o.decided => t.decided /\ t.channel = o.channel
    <3> HIDE DEF h
    <3> QED BY <1>8, <2>4, <2>5, ScanKeeps
  <2>7. ASSUME o.sections > 0
        PROVE  /\ t.decided /\ t.channel = IF o.decided THEN o.channel ELSE channel
               /\ o.open => ~t.open /\ t.sender = sender /\ sender \in t.senders
    BY <1>2, <1>8, <2>4, <2>7, EventScanned DEF place, who
  <2> HIDE DEF t, h
  <2> DEFINE Now == Scan(text)
  <2>8. Now' = t
    BY <1>8
  <2> HIDE DEF Now
  <2>9. QuotedHeaderFound(Now)'
    BY <1>1, <2>2, <2>3, <2>6, <2>8 DEF QuotedHeaderFound
  <2>10. QuotedChannelFound(Now)'
    <3> SUFFICES ASSUME ~ContextDecidesChannel PROVE t.decided /\ t.channel = channel
      BY <1>1, <1>6, <2>8 DEF QuotedChannelFound, ContextDecidesChannel
    <3>1. CASE events = <<>>
      <4>1. ~s.decided /\ (s.sections > 0 \/ opens)
        BY <2>1, <3>1 DEF QuotedChannelFound
      <4> HIDE DEF opens
      <4> QED BY <2>2, <2>3, <2>7, <4>1
    <3>2. CASE events # <<>>
      BY <2>1, <2>3, <2>6, <3>2 DEF QuotedChannelFound
    <3> QED BY <3>1, <3>2
  <2>11. QuotedSenderFound(Now)'
    <3> SUFFICES ASSUME SectionPerEvent
                 PROVE  ~t.open /\ t.sender = sender /\ sender \in t.senders
      BY <1>1, <1>6, <2>8 DEF QuotedSenderFound, SectionPerEvent
    <3>1. opens
      BY <1>11, <2>2 DEF SectionPerEvent
    <3> QED BY <2>2, <2>3, <2>7, <3>1
  <2> QED BY <2>9, <2>10, <2>11 DEF Now
<1>12. BlockFound' /\ QuotedFound'
  <2>1. InBlock' => InBlock
    BY <1>1 DEF InBlock
  <2> QED BY <1>1, <1>10, <1>11, <2>1 DEF BlockFound, QuotedFound
<1> QED BY <1>9, <1>12 DEF FoundSoFar

(* ... and of what an event quotes only a separator of a multi-event block *)
(* counts, and after one a From: line.                                     *)
LEMMA ContentFound ==
  ASSUME TextTyped, BatchTyped, FoundSoFar,
         NEW line \in ContentLines, WriteContent(line)
  PROVE  FoundSoFar'
<1> DEFINE s == Scan(text)
           t == ScanLine(s, line)
           n == Len(events)
           Now == Scan(text)
<1>1. /\ phase = "composing" /\ events # <<>> /\ text' = Append(text, line)
      /\ phase' = phase /\ channel' = channel /\ header' = header /\ declared' = declared
      /\ headerLost' = headerLost /\ context' = context
  BY DEF WriteContent
<1>2. /\ header \in {"single", "multi"} /\ n \in DOMAIN events
  BY <1>1 DEF BatchTyped
<1>3. line \in Line /\ line.form \in Forms
  BY LinesAssumption DEF Line
<1>4. /\ events' # <<>> /\ Len(events') = n
      /\ LastEvent'.sender = LastEvent.sender /\ Senders' = Senders
      /\ \A form \in Forms :
           /\ AnyQuoted(form)' <=> AnyQuoted(form) \/ line.form = form
           /\ Quoted(n, form)' <=> Quoted(n, form) \/ line.form = form
  BY OneMoreLine
<1>5. {"single", "multi", "separator"} \subseteq Forms
  BY DEF Forms
<1>6. HasParts(s) /\ Scan(text') = t
  BY <1>1, <1>3, ScanAppends DEF TextTyped
<1>7. Now' = t
  BY <1>6
<1>8. s = Now
  OBVIOUS
<1> HIDE DEF s, n, Now
<1>9. NothingFound'
  <2> SUFFICES ASSUME headerLost, Headers(context) = {},
                      ~AnyQuoted("single")', ~AnyQuoted("multi")'
               PROVE  t = ScanInit
    BY <1>1, <1>6 DEF NothingFound
  <2>1. /\ ~AnyQuoted("single") /\ ~AnyQuoted("multi")
        /\ line.form # "single" /\ line.form # "multi"
    BY <1>4, <1>5
  <2>2. s = ScanInit /\ ~IsHeader(line)
    BY <1>1, <2>1 DEF FoundSoFar, NothingFound, IsHeader, s
  <2>3. ScanInit.form = "none" /\ ScanInit.sections = 0
    BY DEF ScanInit
  <2>4. ~(ScanInit.sections > 0) /\ ScanInit.form # "multi"
    BY <2>3
  <2> QED BY <2>2, <2>4, ScanSteps
<1>10. ASSUME InBlock, Headers(context) = {}
       PROVE  (HeaderFound(Now) /\ SectionsFound(Now) /\ NoEventFound(Now) /\ EventsFound(Now))'
  <2>1. HeaderFound(s) /\ SectionsFound(s) /\ EventsFound(s)
    BY <1>10 DEF FoundSoFar, BlockFound, s
  <2>2. s.form = header /\ s.sections \in Nat /\ s.decided /\ s.channel = channel
    BY <1>1, <2>1 DEF HeaderFound, SectionsFound, EventsFound
  <2>3. NoEventFound(Now)'
    BY <1>4 DEF NoEventFound
  <2>4. Quoted(n, "separator") => AnyQuoted("separator")
    BY <1>2 DEF AnyQuoted
  <2>5. CASE header = "multi" /\ IsSectionSeparator(line)
    <3>1. s.form = "multi" /\ IsSectionSeparator(line)
      BY <2>2, <2>5
    <3>2. /\ t.form = s.form /\ t.count = s.count /\ t.sections = s.sections + 1
          /\ t.channel = s.channel /\ t.senders = s.senders
      BY <1>6, <3>1, StepParts
    <3>3. t.decided = s.decided
      BY <1>6, <3>1, StepParts
    <3>4. AnyQuoted("separator")' /\ Quoted(n, "separator")'
      BY <1>4, <1>5, <2>5 DEF IsSectionSeparator
    <3> HIDE DEF t
    <3>5. HeaderFound(Now)'
      BY <1>1, <1>7, <2>1, <3>2 DEF HeaderFound
    <3>6. SectionsFound(Now)'
      <4>1. n \in Nat
        BY DEF BatchTyped, n
      <4> QED BY <1>1, <1>4, <1>7, <2>1, <2>2, <2>5, <3>2, <3>4, <4>1 DEF SectionsFound, n
    <3>7. EventsFound(Now)'
      BY <1>1, <1>4, <1>7, <2>1, <2>2, <2>5, <3>2, <3>3, <3>4 DEF EventsFound, n
    <3> QED BY <2>3, <3>5, <3>6, <3>7
  <2>6. CASE s.sections > 0 /\ IsFromLine(line) /\ s.open
    <3>1. header = "multi" /\ Quoted(n, "separator")
      BY <1>1, <1>2, <2>1, <2>6 DEF EventsFound, n
    <3>2. /\ t.form = s.form /\ t.count = s.count /\ t.sections = s.sections
          /\ t.channel = s.channel
          /\ t.senders = s.senders \union ({FromHex(line)} \ {None})
      BY <1>6, <2>6, StepParts
    <3>3. t.decided = s.decided
      BY <1>6, <2>6, StepParts
    <3>4. AnyQuoted("separator")' /\ Quoted(n, "separator")' /\ AnyQuoted("separator")
      BY <1>4, <1>5, <2>4, <3>1
    <3> HIDE DEF t
    <3>5. HeaderFound(Now)'
      BY <1>1, <1>7, <2>1, <3>2 DEF HeaderFound
    <3>6. SectionsFound(Now)'
      BY <1>1, <1>4, <1>7, <2>1, <2>2, <3>1, <3>2, <3>4 DEF SectionsFound, n
    <3>7. EventsFound(Now)'
      BY <1>1, <1>4, <1>7, <2>1, <2>2, <3>1, <3>2, <3>3, <3>4 DEF EventsFound, n
    <3> QED BY <2>3, <3>5, <3>6, <3>7
  <2>7. CASE /\ ~(header = "multi" /\ IsSectionSeparator(line))
             /\ ~(s.sections > 0 /\ IsFromLine(line) /\ s.open)
    <3>1. t = s
      <4>1. s.form = "none" => ~IsHeader(line)
        BY <1>2, <2>2
      <4>2. s.form = "multi" => ~IsSectionSeparator(line)
        BY <2>2, <2>7
      <4>3. s.sections > 0 => (IsChannelLine(line) => s.decided) /\ (IsFromLine(line) => ~s.open)
        BY <2>2, <2>7
      <4> QED BY <4>1, <4>2, <4>3, ScanSteps
    <3>2. header = "multi" =>
            /\ AnyQuoted("separator")' <=> AnyQuoted("separator")
            /\ Quoted(n, "separator")' <=> Quoted(n, "separator")
      BY <1>4, <1>5, <2>7 DEF IsSectionSeparator
    <3> HIDE DEF t
    <3>3. HeaderFound(Now)'
      BY <1>1, <1>7, <2>1, <3>1 DEF HeaderFound
    <3>4. SectionsFound(Now)'
      BY <1>1, <1>4, <1>7, <2>1, <3>1, <3>2 DEF SectionsFound, n
    <3>5. EventsFound(Now)'
      BY <1>1, <1>2, <1>4, <1>7, <2>1, <3>1, <3>2 DEF EventsFound, n
    <3> QED BY <2>3, <3>3, <3>4, <3>5
  <2> QED BY <2>5, <2>6, <2>7
<1>11. ASSUME InBlock, Headers(context) # {}
       PROVE  (QuotedHeaderFound(Now) /\ QuotedChannelFound(Now) /\ QuotedSenderFound(Now))'
  <2>1. QuotedHeaderFound(s) /\ QuotedChannelFound(s) /\ QuotedSenderFound(s)
    BY <1>11 DEF FoundSoFar, QuotedFound, s
  <2>2. s.form \in {"single", "multi"} /\ s.sections \in Nat
    BY <2>1 DEF QuotedHeaderFound
  <2>3. /\ t.form = s.form /\ t.sections \in Nat
        /\ s.decided => t.decided /\ t.channel = s.channel
        /\ s.senders \subseteq t.senders
        /\ ~s.open /\ ~(s.form = "multi" /\ IsSectionSeparator(line)) =>
             ~t.open /\ t.sender = s.sender
    BY <1>6, <2>2, ScanKeeps
  <2> HIDE DEF t
  <2>4. QuotedHeaderFound(Now)'
    BY <1>1, <1>7, <2>1, <2>3 DEF QuotedHeaderFound
  <2>5. QuotedChannelFound(Now)'
    BY <1>1, <1>4, <1>7, <2>1, <2>3 DEF QuotedChannelFound, ContextDecidesChannel
  <2>6. QuotedSenderFound(Now)'
    <3>1. SectionPerEvent' <=> SectionPerEvent
      BY <1>1 DEF SectionPerEvent
    <3>2. ~Quoted(n, "separator")' => ~Quoted(n, "separator") /\ ~IsSectionSeparator(line)
      BY <1>4, <1>5 DEF IsSectionSeparator
    <3> QED BY <1>1, <1>4, <1>7, <2>1, <2>3, <3>1, <3>2 DEF QuotedSenderFound, n
  <2> QED BY <2>4, <2>5, <2>6
<1>12. BlockFound' /\ QuotedFound'
  <2>1. InBlock' => InBlock
    BY <1>1 DEF InBlock
  <2> QED BY <1>1, <1>10, <1>11, <2>1 DEF BlockFound, QuotedFound, Now
<1> QED BY <1>9, <1>12 DEF FoundSoFar

(* So it is in every state, whatever the messages and the context quote.   *)
LEMMA FoundInvariant == Spec => []FoundSoFar
<1>1. Init => FoundSoFar
  BY DEF Init, FoundSoFar, BlockFound, QuotedFound, NothingFound, InBlock
<1>2. TextTyped /\ BatchTyped /\ BatchTyped' /\ FoundSoFar /\ [Next]_vars => FoundSoFar'
  <2> SUFFICES ASSUME TextTyped, BatchTyped, BatchTyped', FoundSoFar, [Next]_vars
               PROVE  FoundSoFar'
    OBVIOUS
  <2>1. ASSUME UNCHANGED <<text, events, channel, header, declared, context, headerLost>>,
               phase' # "idle" => phase # "idle"
        PROVE  FoundSoFar'
    <3>1. BlockFound' /\ NothingFound'
      BY <2>1 DEF FoundSoFar, BlockFound, NothingFound, InBlock, HeaderFound, SectionsFound,
                  NoEventFound, EventsFound, AnyQuoted, Quoted, LastEvent, Senders
    <3>2. QuotedFound'
      BY <2>1 DEF FoundSoFar, QuotedFound, InBlock, QuotedHeaderFound, QuotedChannelFound,
                  QuotedSenderFound, ContextDecidesChannel, SectionPerEvent, Quoted, LastEvent
    <3> QED BY <3>1, <3>2 DEF FoundSoFar
  <2>2. CASE UNCHANGED vars
    BY <2>1, <2>2 DEF vars, prompt
  <2>3. CASE Resolved \/ HandlePrompt
    BY <2>1, <2>3 DEF Resolved, HandlePrompt, vars, prompt
  <2>4. ASSUME header' = "none" PROVE FoundSoFar'
    BY <2>4 DEF FoundSoFar, BlockFound, QuotedFound, NothingFound, InBlock, BatchTyped
  <2>5. CASE StartPlain
    BY <2>4, <2>5 DEF StartPlain, Compose
  <2>6. ASSUME NEW line \in FreeLines, WriteFreely(line) PROVE FoundSoFar'
    BY <2>4, <2>6 DEF WriteFreely
  <2>7. ASSUME NEW c \in Uuids, NEW n \in 1 .. MaxEvents,
               StartBatch(c, n, "multi") \/ StartBatch(c, n, "single")
        PROVE  FoundSoFar'
    BY <2>7, FreshStart, QuotedStart DEF FoundSoFar
  <2>8. ASSUME NEW sender \in Pubkeys, NEW name \in Names, RenderEvent(sender, name)
        PROVE  FoundSoFar'
    BY <2>8, RenderFound
  <2>9. ASSUME NEW line \in ContentLines, WriteContent(line) PROVE FoundSoFar'
    BY <2>9, ContentFound
  <2> QED BY <2>2, <2>3, <2>5, <2>6, <2>7, <2>8, <2>9 DEF Next
<1> QED BY <1>1, <1>2, PromptTypeCorrect, BatchTypeCorrect, PTL DEF Spec

(* A turn that is resolved from a block the parser can see.                *)
LEMMA BlockTurn ==
  ASSUME TextTyped, BatchTyped, Decided, FoundSoFar, FromBlock
  PROVE  LET s == Scan(text)
             found == Verdict(s, settings.host_unit)
         IN  /\ header \in {"single", "multi"} /\ channel \in Uuids
             /\ LastEvent.sender \in Pubkeys /\ Len(events) = declared
             /\ Len(events) \in DOMAIN events
             /\ Headers(context) = {} =>
                  HeaderFound(s) /\ SectionsFound(s) /\ EventsFound(s)
             /\ Headers(context) # {} => QuotedChannelFound(s) /\ QuotedSenderFound(s)
             /\ found # None => userId = Host(found)
             /\ warnings = IF found = None THEN {"miss"}
                           ELSE ScanDiagnostics(s, settings.host_unit)
<1>1. phase = "resolved" /\ Extracts /\ events # <<>> /\ ~headerLost
  BY DEF FromBlock
<1>2. /\ header \in {"single", "multi"} /\ channel \in Uuids /\ Len(events) \in DOMAIN events
      /\ LastEvent \in SomeEvent
  BY <1>1 DEF BatchTyped, LastEvent
<1>3. LastEvent.sender \in Pubkeys
  BY <1>2 DEF SomeEvent
<1>4. /\ Headers(context) = {} =>
           HeaderFound(Scan(text)) /\ SectionsFound(Scan(text)) /\ EventsFound(Scan(text))
      /\ Headers(context) # {} =>
           QuotedChannelFound(Scan(text)) /\ QuotedSenderFound(Scan(text))
  BY <1>1, <1>2 DEF FoundSoFar, BlockFound, QuotedFound, InBlock
<1>5. Len(events) = declared
  BY <1>1 DEF Decided
<1> QED BY <1>1, <1>2, <1>3, <1>4, <1>5, Resolves

(* In channel mode the turn goes to the memory of the session's channel:   *)
(* for batches of any size, whatever lines the messages quote, whatever    *)
(* the people and channels are called, and behind any context, a quoted    *)
(* header included, but for the one that decides the channel itself.       *)
THEOREM TurnFollowsChannel == Spec => []ChannelFollowsSession
<1>1. TextTyped /\ BatchTyped /\ Decided /\ FoundSoFar => ChannelFollowsSession
  <2> SUFFICES ASSUME TextTyped, BatchTyped, Decided, FoundSoFar, FromBlock,
                      settings.host_unit = "channel", ~ContextDecidesChannel
               PROVE  userId = Host(channel)
    BY DEF ChannelFollowsSession
  <2>1. Scan(text).channel = channel /\ channel \in Uuids
    <3>1. events # <<>> /\ channel \in Uuids
      BY BlockTurn DEF FromBlock
    <3>2. CASE Headers(context) = {}
      BY <3>1, <3>2, BlockTurn DEF EventsFound
    <3>3. CASE Headers(context) # {}
      BY <3>1, <3>3, BlockTurn DEF QuotedChannelFound
    <3> QED BY <3>1, <3>2, <3>3
  <2>2. Verdict(Scan(text), settings.host_unit) = channel /\ channel # None
    BY <2>1, CapturesAssumption DEF Verdict
  <2> QED BY <2>2, BlockTurn
<1> QED BY <1>1, PromptTypeCorrect, BatchTypeCorrect, DecidedOnce, FoundInvariant, PTL

(* In sender mode the turn goes to the sender of the last event wherever   *)
(* that event has a section of its own, behind any context; unless it      *)
(* quotes a separator, and then the log says so.                           *)
THEOREM TurnFollowsSender == Spec => []SenderAttribution
<1>1. TextTyped /\ BatchTyped /\ Decided /\ FoundSoFar => SenderAttribution
  <2> SUFFICES ASSUME TextTyped, BatchTyped, Decided, FoundSoFar, FromBlock,
                      settings.host_unit = "sender", SectionPerEvent
               PROVE  \/ userId = Host(LastEvent.sender)
                      \/ /\ header = "multi" /\ Quoted(Len(events), "separator")
                         /\ warnings \intersect {"senders", "miss"} # {}
                         /\ Headers(context) = {} => warnings \intersect {"count", "miss"} # {}
    BY DEF SenderAttribution
  <2> DEFINE s == Scan(text)
  <2>1. /\ header \in {"single", "multi"} /\ Len(events) = declared /\ events # <<>>
        /\ Len(events) \in DOMAIN events /\ LastEvent.sender \in Pubkeys
        /\ Headers(context) = {} =>
             HeaderFound(s) /\ SectionsFound(s) /\ EventsFound(s)
        /\ Headers(context) # {} => QuotedSenderFound(s) /\ header = "multi"
    BY BlockTurn DEF FromBlock, SectionPerEvent
  <2>2. Verdict(s, settings.host_unit) = s.sender
    BY DEF Verdict
  <2>3. /\ s.sender # None => userId = Host(s.sender)
        /\ warnings = IF s.sender = None THEN {"miss"} ELSE ScanDiagnostics(s, "sender")
    BY <2>2, BlockTurn
  <2>4. (s.sender # None => s.sender \in s.senders) /\ IsFiniteSet(s.senders)
    BY SenderCounted DEF TextTyped
  <2> HIDE DEF s
  <2>5. LastEvent.sender # None
    BY <2>1, CapturesAssumption
  <2>6. LastEvent.sender \in s.senders
    BY <2>1 DEF EventsFound, QuotedSenderFound
  <2>7. CASE header = "single" \/ ~Quoted(Len(events), "separator")
    <3>1. s.sender = LastEvent.sender
      BY <2>1, <2>7 DEF EventsFound, QuotedSenderFound
    <3> QED BY <2>3, <2>5, <3>1
  <2>8. CASE header = "multi" /\ Quoted(Len(events), "separator") /\ s.sender = None
    BY <2>3, <2>8
  <2>9. CASE header = "multi" /\ Quoted(Len(events), "separator") /\ s.sender # None
    <3> SUFFICES ASSUME s.sender # LastEvent.sender
                 PROVE  /\ "senders" \in ScanDiagnostics(s, "sender")
                        /\ Headers(context) = {} => "count" \in ScanDiagnostics(s, "sender")
      BY <2>3, <2>9
    <3>1. Cardinality(s.senders) > 1
      <4> DEFINE two == {s.sender} \union {LastEvent.sender}
      <4>1. two \subseteq s.senders
        BY <2>4, <2>6, <2>9
      <4>2. Cardinality(two) = 2
        <5>1. IsFiniteSet({s.sender}) /\ Cardinality({s.sender}) = 1
          BY FS_Singleton
        <5>2. LastEvent.sender \notin {s.sender}
          OBVIOUS
        <5>3. Cardinality(two) = Cardinality({s.sender}) + 1
          BY <5>1, <5>2, FS_AddElement
        <5> HIDE DEF two
        <5> QED BY <5>1, <5>3
      <4>3. Cardinality(two) <= Cardinality(s.senders) /\ Cardinality(s.senders) \in Nat
        BY <2>4, <4>1, FS_Subset, FS_CardinalityType
      <4> HIDE DEF two
      <4> QED BY <4>2, <4>3
    <3>2. Headers(context) = {} => s.form = "multi" /\ s.sections # s.count
      <4>1. AnyQuoted("separator")
        BY <2>1, <2>9 DEF AnyQuoted
      <4> QED BY <2>1, <2>9, <4>1 DEF HeaderFound, SectionsFound
    <3> QED BY <3>1, <3>2 DEF ScanDiagnostics
  <2> QED BY <2>1, <2>7, <2>8, <2>9
<1> QED BY <1>1, PromptTypeCorrect, BatchTypeCorrect, DecidedOnce, FoundInvariant, PTL

(* The warning about several senders comes exactly when there are several, *)
(* behind any context that quotes no header.                               *)
THEOREM SendersReported == Spec => []AmbiguityReported
<1>1. TextTyped /\ BatchTyped /\ Decided /\ FoundSoFar => AmbiguityReported
  <2> SUFFICES ASSUME TextTyped, BatchTyped, Decided, FoundSoFar, FromBlock,
                      settings.host_unit = "sender", Headers(context) = {},
                      header = "multi" => \A i \in DOMAIN events : ~Quoted(i, "separator")
               PROVE  warnings = IF Cardinality(Senders) > 1 THEN {"senders"} ELSE {}
    BY DEF AmbiguityReported
  <2> DEFINE s == Scan(text)
  <2>1. /\ header \in {"single", "multi"} /\ Len(events) = declared /\ events # <<>>
        /\ Len(events) \in DOMAIN events /\ LastEvent.sender \in Pubkeys
        /\ HeaderFound(s) /\ SectionsFound(s) /\ EventsFound(s)
    BY BlockTurn DEF FromBlock
  <2>2. Verdict(s, settings.host_unit) = s.sender
    BY DEF Verdict
  <2>3. warnings = IF s.sender = None THEN {"miss"} ELSE ScanDiagnostics(s, "sender")
    BY <2>2, BlockTurn
  <2> HIDE DEF s
  <2>4. header = "multi" => ~AnyQuoted("separator") /\ ~Quoted(Len(events), "separator")
    BY <2>1 DEF AnyQuoted
  <2>5. /\ s.sender = LastEvent.sender /\ LastEvent.sender # None /\ s.senders = Senders
    BY <2>1, <2>4, CapturesAssumption DEF EventsFound
  <2>6. s.form = "multi" => s.sections = s.count
    BY <2>1, <2>4 DEF HeaderFound, SectionsFound
  <2>7. ScanDiagnostics(s, "sender") = IF Cardinality(Senders) > 1 THEN {"senders"} ELSE {}
    BY <2>5, <2>6 DEF ScanDiagnostics
  <2> QED BY <2>3, <2>5, <2>7
<1> QED BY <1>1, PromptTypeCorrect, BatchTypeCorrect, DecidedOnce, FoundInvariant, PTL

(* Behind a header that lost its line no identity is put together, unless  *)
(* another is quoted: the turn falls back, with a warning.                 *)
THEOREM LostHeaderMisses == Spec => []LostHeaderFallsBack
<1>1. TextTyped /\ BatchTyped /\ Decided /\ FoundSoFar => LostHeaderFallsBack
  <2> SUFFICES ASSUME TextTyped, BatchTyped, Decided, FoundSoFar,
                      phase = "resolved", Extracts, headerLost, Headers(context) = {},
                      \A i \in DOMAIN events : ~Quoted(i, "single") /\ ~Quoted(i, "multi")
               PROVE  Fallback /\ warnings = {"miss"}
    BY DEF LostHeaderFallsBack
  <2>1. Scan(text) = ScanInit
    BY DEF FoundSoFar, NothingFound, AnyQuoted
  <2>2. Verdict(Scan(text), settings.host_unit) = None
    BY <2>1 DEF ScanInit, Verdict
  <2>3. /\ warnings = {"miss"}
        /\ userId = [tier |-> Config!ResolveUserId("unset", "unset",
                                settings.default_user_id), of |-> None]
    BY <2>2, Resolves
  <2> QED BY <2>3 DEF Fallback, Config!ResolveUserId
<1> QED BY <1>1, PromptTypeCorrect, BatchTypeCorrect, DecidedOnce, FoundInvariant, PTL
=============================================================================
