----------------------------- MODULE BuzzPrompt -----------------------------
(***************************************************************************)
(* The parser of src/buzz.rs: which identity, if any, it takes from the    *)
(* text of a prompt.                                                       *)
(*                                                                         *)
(* A line of text is a record of what the parser's tests of a line tell    *)
(* apart: the form it starts out as, whether it is indented (headers and   *)
(* separators are trimmed before they are matched, Channel: and From:      *)
(* lines are not), the texts that follow each `(#` or `hex: ` in it, and   *)
(* whether the closing paren after the last of them ends the line.         *)
(***************************************************************************)
EXTENDS Naturals, Sequences, FiniteSets, FiniteSetsExt

CONSTANTS
  Uuids,     (* 36 characters, dashes in place, lower case: what is_uuid takes *)
  Pubkeys,   (* 64 lower case hex digits: what is_hex64 takes                  *)
  Malformed, (* any other text in the place of one                             *)
  None       (* no identity                                                    *)

ASSUME CapturesAssumption ==
  /\ Uuids \intersect Pubkeys = {}
  /\ {Malformed, None} \intersect (Uuids \union Pubkeys) = {}

Captures == Uuids \union Pubkeys \union {Malformed}
(* An unclosed line lacks the last bracket of a single-event header.       *)
Forms == {"multi", "single", "unclosed", "separator", "channel", "from", "other"}
(* `count` is what a multi-event header declares.                          *)
Line == [form : Forms, indented : BOOLEAN, count : Nat,
         captures : Seq(Captures), closed : BOOLEAN]

Plain(form)     == [form |-> form, indented |-> FALSE, count |-> 0,
                    captures |-> <<>>, closed |-> FALSE]
MultiHeader(n)  == [Plain("multi") EXCEPT !.count = n]
Channel(texts)  == [Plain("channel") EXCEPT !.captures = texts, !.closed = TRUE]
From(texts)     == [Plain("from") EXCEPT !.captures = texts, !.closed = TRUE]
Indented(line)  == [line EXCEPT !.indented = TRUE]

-----------------------------------------------------------------------------
(* Tests of one line.                                                      *)

IsHeader(line) == line.form \in {"multi", "single"}

IsSectionSeparator(line) == line.form = "separator"
IsChannelLine(line) == line.form = "channel" /\ ~line.indented
IsFromLine(line) == line.form = "from" /\ ~line.indented

(* mutant: the first capture of a line is taken, not the last.             *)
FirstCapture(line, Valid) ==
  IF line.closed /\ line.captures # <<>> /\ line.captures[1] \in Valid
  THEN line.captures[1] ELSE None

(* The text after the last `(#` or `hex: `, if it is closed and valid.     *)
LastCapture(line, Valid) ==
  LET n == Len(line.captures) IN
  IF line.closed /\ n > 0 /\ line.captures[n] \in Valid
  THEN line.captures[n] ELSE None

ChannelUuid(line) == LastCapture(line, Uuids)
FromHex(line) == LastCapture(line, Pubkeys)

-----------------------------------------------------------------------------
(* Positions in a text.                                                    *)

Headers(lines) == {i \in DOMAIN lines : IsHeader(lines[i])}
Marker(lines) == Min(Headers(lines))
MultiForm(lines) == lines[Marker(lines)].form = "multi"

(* mutant: a separator in front of the header opens a section too.         *)
SectionsOfWholeText(lines) ==
  IF MultiForm(lines)
  THEN {i \in DOMAIN lines : IsSectionSeparator(lines[i])}
  ELSE {Marker(lines)}

(* The lines after which a section starts: the separators of a multi-event *)
(* block (what is in front of the first is preamble), or the header itself.*)
SectionStarts(lines) ==
  IF MultiForm(lines)
  THEN {i \in DOMAIN lines : i > Marker(lines) /\ IsSectionSeparator(lines[i])}
  ELSE {Marker(lines)}

Section(lines, start) ==
  {i \in DOMAIN lines :
     i > start /\ \A next \in SectionStarts(lines) : next > start => i < next}

(* mutant: lines of the preamble are searched as well.                     *)
ChannelLinesOfBlock(lines) ==
  {i \in DOMAIN lines : IsChannelLine(lines[i]) /\ i > Marker(lines)}

ChannelLines(lines) ==
  {i \in DOMAIN lines :
     IsChannelLine(lines[i]) /\ \E start \in SectionStarts(lines) : start < i}

(* mutant: an invalid first line is passed over for the next valid one.    *)
HuntedCapture(lines) ==
  LET valid == {i \in ChannelLines(lines) : ChannelUuid(lines[i]) # None}
  IN IF valid = {} THEN None ELSE ChannelUuid(lines[Min(valid)])

ChannelCapture(lines) ==
  IF ChannelLines(lines) = {} THEN None
  ELSE ChannelUuid(lines[Min(ChannelLines(lines))])

(* mutant: the last From: line of a section wins.                          *)
LastSenderLine(lines, start) ==
  LET from == {i \in Section(lines, start) : IsFromLine(lines[i])}
  IN IF from = {} THEN None ELSE FromHex(lines[Max(from)])

Sender(lines, start) ==
  LET from == {i \in Section(lines, start) : IsFromLine(lines[i])}
  IN IF from = {} THEN None ELSE FromHex(lines[Min(from)])

LastSender(lines) ==
  IF SectionStarts(lines) = {} THEN None
  ELSE Sender(lines, Max(SectionStarts(lines)))

DistinctSenders(lines) ==
  {Sender(lines, start) : start \in SectionStarts(lines)} \ {None}

CountMismatch(lines) ==
  /\ MultiForm(lines)
  /\ Cardinality(SectionStarts(lines)) # lines[Marker(lines)].count

-----------------------------------------------------------------------------
(* try_extract, None where it fails.                                       *)
Capture(lines, unit) ==
  CASE Headers(lines) = {} -> None
    [] Headers(lines) # {} /\ unit = "channel" -> ChannelCapture(lines)
    [] OTHER -> LastSender(lines)

(* mutant: the sections are not counted.                                   *)
UncountedDiagnostics(lines, unit) ==
  IF Capture(lines, unit) = None THEN {"miss"}
  ELSE IF unit = "sender" /\ Cardinality(DistinctSenders(lines)) > 1
       THEN {"senders"} ELSE {}

(* What is logged with the outcome: the one warning of a miss, or the      *)
(* diagnostics of an extraction.                                           *)
Diagnostics(lines, unit) ==
  IF Capture(lines, unit) = None THEN {"miss"}
  ELSE {d \in {"count", "senders"} :
          \/ d = "count" /\ CountMismatch(lines)
          \/ d = "senders" /\ unit = "sender" /\ Cardinality(DistinctSenders(lines)) > 1}
=============================================================================
