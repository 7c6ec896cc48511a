---------------------------- MODULE BuzzIdentity ----------------------------
(***************************************************************************)
(* The memory identity of a prompt turn: agent.rs `user_id_for_turn`.  A   *)
(* prompt that Buzz renders is composed piece by piece (the context in     *)
(* front of the events block, the header, the events, and the lines people *)
(* wrote into them); any other prompt line by line.  Then handle_prompt    *)
(* joins its text blocks and resolves the identity the chat request        *)
(* carries.                                                                *)
(*                                                                         *)
(* The lines of the context, of a message, and of a prompt that is not of  *)
(* Buzz, are anything at all, lines that look like a header, a separator   *)
(* or another sender's From: line included.                                *)
(***************************************************************************)
EXTENDS BuzzPrompt, SequencesExt

CONSTANTS
  Setups,        (* the settings to look at                                  *)
  Contexts,      (* the blocks of lines that may precede the events          *)
  ContentLines,  (* what a line of a message may look like                   *)
  FreeLines,     (* what a line of a prompt that is not of Buzz may look like *)
  Names,         (* captures contained in the names of channels and people   *)
  MaxEvents,     (* bound on the events of a batch                           *)
  MaxContent,    (* bound on the quoted lines of a prompt                    *)
  MaxLines       (* bound on the lines of a prompt that is not of Buzz       *)

ASSUME ContextAssumption == Contexts \subseteq Seq(Line)
ASSUME LinesAssumption == ContentLines \subseteq Line /\ FreeLines \subseteq Line
ASSUME NamesAssumption == Names \subseteq Seq(Captures)
ASSUME BoundsAssumption == {MaxEvents, MaxContent, MaxLines} \subseteq Nat

Config == INSTANCE ProfileConfig
            WITH Names <- {}, NoName <- None, HostNames <- {}, LocalHosts <- {}

(* --user-id and identity.default_user_id, identity.host and host_unit.    *)
Settings == [user_id : Config!Ids, default_user_id : Config!Ids,
             host : {"none", "buzz"}, host_unit : {"channel", "sender"}]
ASSUME SetupsAssumption == Setups \subseteq Settings

VARIABLES
  settings,   (* the profile and the command line, fixed for the process     *)
  phase,      (* "idle", "composing" or "resolved"                           *)
  channel,    (* the channel whose session the prompt is for                 *)
  header,     (* the form of the header, "none" without an events block      *)
  declared,   (* how many events the batch has                               *)
  context,    (* the lines in front of the header, a glued one included      *)
  headerLost, (* the header does not start a line of its own                 *)
  events,     (* per event: its sender, and the forms its content quotes     *)
  text,       (* the text of the prompt, its blocks joined                   *)
  userId,     (* the identity the chat request carries                       *)
  warnings    (* what the extractor logged                                   *)

prompt == <<channel, header, declared, context, headerLost, events, text>>
vars == <<settings, phase, prompt, userId, warnings>>

NoUser == [tier |-> "none", of |-> None]
Host(capture) == [tier |-> "host", of |-> capture]

Init ==
  /\ settings \in Setups
  /\ phase = "idle"
  /\ channel = None /\ header = "none" /\ declared = 0 /\ headerLost = FALSE
  /\ context = <<>> /\ events = <<>> /\ text = <<>>
  /\ userId = NoUser
  /\ warnings = {}

-----------------------------------------------------------------------------
(* user_id_for_turn.                                                       *)

(* mutant: the prompt is read although the flag decides.                   *)
ExtractsDespiteFlag == settings.host = "buzz"

(* host_extractor_from, and the short cut of tier 1.                       *)
Extracts == settings.host = "buzz" /\ settings.user_id # "set"

(* mutant: without a header the whole prompt is taken for the block.       *)
ExtractedAnyhow(lines) ==
  LET block == IF Headers(lines) = {} THEN <<Plain("single")>> \o lines ELSE lines
  IN  IF Extracts THEN Capture(block, settings.host_unit) ELSE None

Extracted(lines) ==
  IF Extracts THEN Capture(lines, settings.host_unit) ELSE None

UserIdForTurn(lines) ==
  LET tier == Config!ResolveUserId(settings.user_id,
                IF Extracted(lines) = None THEN "unset" ELSE "set",
                settings.default_user_id)
  IN [tier |-> tier, of |-> IF tier = "host" THEN Extracted(lines) ELSE None]

-----------------------------------------------------------------------------
(* What Buzz sends.                                                        *)

(* Two text blocks are joined without a line break: a header that starts   *)
(* the second continues the last line of the first.  That line is now a    *)
(* separator or a counted header no longer, and closed by the bracket of   *)
(* the header if it was the beginning of a single-event one.  (A line that *)
(* is empty or blank leaves the header as it is: the case of no joining.)  *)
Glue(first, second) ==
  [form |-> CASE first.form \in {"separator", "multi"} -> "other"
              [] first.form = "unclosed" -> "single"
              [] OTHER -> first.form,
   indented |-> first.indented, count |-> first.count,
   captures |-> first.captures \o second.captures, closed |-> second.closed]

(* A prompt for the session of channel c, if it has one, with n events.    *)
Compose(c, n, form) ==
  /\ phase = "idle" /\ phase' = "composing"
  /\ channel' = c /\ declared' = n /\ header' = form
  /\ events' = <<>>
  /\ UNCHANGED <<settings, userId, warnings>>

(* A batch of n events for the session of channel c, behind a context      *)
(* block, which may lack its last line break.                              *)
StartBatch(c, n, form) ==
  LET line == IF form = "multi" THEN MultiHeader(n) ELSE Plain(form) IN
  /\ Compose(c, n, form)
  /\ \E block \in Contexts :
       \/ context' = block /\ text' = Append(block, line) /\ headerLost' = FALSE
       \/ /\ block # <<>>
          /\ context' = Append(Front(block), Glue(Last(block), line))
          /\ text' = context' /\ headerLost' = TRUE

(* A prompt that Buzz did not compose, whoever wrote its lines.            *)
StartPlain ==
  /\ Compose(None, 0, "none")
  /\ context' = <<>> /\ text' = <<>> /\ headerLost' = FALSE

WriteFreely(line) ==
  /\ phase = "composing" /\ header = "none"
  /\ Len(text) < MaxLines
  /\ text' = Append(text, line)
  /\ UNCHANGED <<settings, phase, channel, header, declared, context, headerLost,
                 events, userId, warnings>>

(* The lines of an event in the order Buzz renders them: Channel:, From:,  *)
(* then its content.  The name of a channel or a person, in front of the   *)
(* real capture, may contain captures too.                                 *)
RenderEvent(sender, name) ==
  /\ phase = "composing" /\ Len(events) < declared
  /\ events' = Append(events, [sender |-> sender, quoted |-> <<>>])
  /\ LET opened == IF header = "multi" THEN Append(text, Plain("separator")) ELSE text
         placed == Append(opened, Channel(Append(name, channel)))
     IN  text' = Append(placed, From(Append(name, sender)))
  /\ UNCHANGED <<settings, phase, channel, header, declared, context, headerLost,
                 userId, warnings>>

QuotedLines == UNION {{i} \X DOMAIN events[i].quoted : i \in DOMAIN events}

WriteContent(line) ==
  /\ phase = "composing" /\ events # <<>>
  /\ Cardinality(QuotedLines) < MaxContent
  /\ text' = Append(text, line)
  /\ events' = [events EXCEPT ![Len(events)].quoted = Append(@, line.form)]
  /\ UNCHANGED <<settings, phase, channel, header, declared, context, headerLost,
                 userId, warnings>>

(* handle_prompt, past its checks.                                         *)
HandlePrompt ==
  /\ phase = "composing" /\ Len(events) = declared
  /\ phase' = "resolved"
  /\ userId' = UserIdForTurn(text)
  /\ warnings' = IF Extracts THEN Diagnostics(text, settings.host_unit) ELSE {}
  /\ UNCHANGED <<settings, prompt>>

(* Nothing of one prompt's resolution is kept for the next.                *)
Resolved == phase = "resolved" /\ UNCHANGED vars

Next ==
  \/ Resolved
  \/ StartPlain
  \/ \E line \in FreeLines : WriteFreely(line)
  \/ \E c \in Uuids, n \in 1 .. MaxEvents :
       \/ StartBatch(c, n, "multi")
       \/ n = 1 /\ StartBatch(c, n, "single")
  \/ \E sender \in Pubkeys, name \in Names : RenderEvent(sender, name)
  \/ \E line \in ContentLines : WriteContent(line)
  \/ HandlePrompt

Spec == Init /\ [][Next]_vars

-----------------------------------------------------------------------------
Senders == {events[i].sender : i \in DOMAIN events}
Quoted(i, form) == \E j \in DOMAIN events[i].quoted : events[i].quoted[j] = form
LastEvent == events[Len(events)]
(* The turn's identity comes from an events block that the parser can see. *)
FromBlock == phase = "resolved" /\ Extracts /\ events # <<>> /\ ~headerLost
Fallback == userId.tier \in {"default", "per-session"}

(* The parser starts from the first header of the whole prompt, and that   *)
(* may be one the context quotes (buzz.rs calls the text spoofable by      *)
(* quoted content).  It then decides the channel of the turn if a Channel: *)
(* line is quoted after it, or if it is a multi-event header in front of a *)
(* single-event block, whose lines are in no section.                      *)
ContextDecidesChannel ==
  /\ Headers(context) # {}
  /\ \/ ChannelLines(context) # {}
     \/ SectionStarts(context) = {} /\ header = "single"

(* In channel mode every turn of a session goes to the memory partition of *)
(* its channel, whoever sent its messages and whatever they quote          *)
(* (agent.rs: in `channel` mode the extracted id is stable for the         *)
(* session's lifetime), unless a header quoted in the context decides.     *)
ChannelFollowsSession ==
  FromBlock /\ settings.host_unit = "channel" /\ ~ContextDecidesChannel =>
    userId = Host(channel)

(* The parser gives the last event a section of its own: the header is the *)
(* first of the prompt, or both it and the one quoted in the context are   *)
(* of the multi-event form.                                                *)
SectionPerEvent == Headers(context) # {} => header = "multi" /\ MultiForm(context)

(* In sender mode a turn goes to the sender of the last event, if that     *)
(* event has a section of its own.  Then only a separator quoted in the    *)
(* event's own content can displace it, and the log shows it: as a miss or *)
(* as several senders, and behind a context without a header as sections   *)
(* that nobody declared, too.                                              *)
SenderAttribution ==
  FromBlock /\ settings.host_unit = "sender" /\ SectionPerEvent =>
    \/ userId = Host(LastEvent.sender)
    \/ /\ header = "multi" /\ Quoted(Len(events), "separator")
       /\ warnings \intersect {"senders", "miss"} # {}
       /\ Headers(context) = {} => warnings \intersect {"count", "miss"} # {}

(* Behind a context without a header, a batch of several senders is        *)
(* reported as such, and a batch of one never is, unless messages quote    *)
(* separators.                                                             *)
AmbiguityReported ==
  FromBlock /\ settings.host_unit = "sender" /\ Headers(context) = {}
  /\ (header = "multi" => \A i \in DOMAIN events : ~Quoted(i, "separator")) =>
    warnings = IF Cardinality(Senders) > 1 THEN {"senders"} ELSE {}

(* A header that lost its line to an unfinished context block is not found *)
(* and the turn falls back, with a warning: no identity is put together    *)
(* from what follows, as long as neither a message nor the context quotes  *)
(* a header (or half of one, which the joining completes).                 *)
LostHeaderFallsBack ==
  phase = "resolved" /\ Extracts /\ headerLost /\ Headers(context) = {}
  /\ (\A i \in DOMAIN events : ~Quoted(i, "single") /\ ~Quoted(i, "multi")) =>
    Fallback /\ warnings = {"miss"}

(* Once the block holds a Channel: line the verdict of channel mode is     *)
(* final: no line further down, be it a header, a separator or a better    *)
(* Channel: line, changes the identity that was found, or turns a miss     *)
(* into an identity (buzz.rs: the FIRST Channel: line wins, and an invalid *)
(* one is not passed over).                                                *)
ChannelDecided(lines) == Headers(lines) # {} /\ ChannelLines(lines) # {}
ChannelVerdictFinal ==
  [][phase = "composing" /\ ChannelDecided(text) =>
       ChannelCapture(text') = ChannelCapture(text)]_vars

(* Once the last section of a text has a From: line, the sender it is      *)
(* attributed to changes only where a multi-event block goes on with a new *)
(* section: in the single-event form and inside an event's content nothing *)
(* moves it.                                                               *)
SenderDecided(lines) ==
  /\ Headers(lines) # {} /\ SectionStarts(lines) # {}
  /\ \E i \in Section(lines, Max(SectionStarts(lines))) : IsFromLine(lines[i])
SenderVerdictMoves ==
  [][phase = "composing" /\ SenderDecided(text) /\ LastSender(text') # LastSender(text) =>
       /\ MultiForm(text)
       /\ \E i \in DOMAIN text' \ DOMAIN text : IsSectionSeparator(text'[i])]_vars

-----------------------------------------------------------------------------
(* One pass over the text, line by line, that knows nothing of positions:  *)
(* what has been found so far.                                             *)
ScanInit == [form |-> "none", count |-> 0, sections |-> 0, channel |-> None,
             decided |-> FALSE, open |-> FALSE, sender |-> None, senders |-> {}]

ScanLine(s, line) ==
  CASE s.form = "none" /\ IsHeader(line) ->
         [s EXCEPT !.form = line.form, !.count = line.count,
                   !.sections = IF line.form = "single" THEN 1 ELSE 0,
                   !.open = line.form = "single"]
    [] s.form = "multi" /\ IsSectionSeparator(line) ->
         [s EXCEPT !.sections = @ + 1, !.open = TRUE, !.sender = None]
    [] s.sections > 0 /\ IsChannelLine(line) /\ ~s.decided ->
         [s EXCEPT !.channel = ChannelUuid(line), !.decided = TRUE]
    [] s.sections > 0 /\ IsFromLine(line) /\ s.open ->
         [s EXCEPT !.sender = FromHex(line), !.open = FALSE,
                   !.senders = @ \union ({FromHex(line)} \ {None})]
    [] OTHER -> s

Scan(lines) ==
  LET scan[i \in 0 .. Len(lines)] ==
        IF i = 0 THEN ScanInit ELSE ScanLine(scan[i - 1], lines[i])
  IN scan[Len(lines)]

ScanDiagnostics(s, unit) ==
  {d \in {"count", "senders"} :
     \/ d = "count" /\ s.form = "multi" /\ s.sections # s.count
     \/ d = "senders" /\ unit = "sender" /\ Cardinality(s.senders) > 1}

(* Every prompt is remembered under the flag, or what a single pass over   *)
(* its lines finds (which is what the searches by position of try_extract  *)
(* find, in both units), or the configured default, or its session, in     *)
(* that order; and with the flag, or without extraction, nothing its text  *)
(* says is looked at or warned about.                                      *)
ScanAgrees ==
  phase = "resolved" =>
    LET s == Scan(text)
        reads == settings.host = "buzz" /\ settings.user_id # "set"
        found == CASE ~reads -> None
                   [] reads /\ settings.host_unit = "channel" -> s.channel
                   [] OTHER -> s.sender
        tier == CASE settings.user_id = "set" -> "flag"
                  [] settings.user_id # "set" /\ found # None -> "host"
                  [] OTHER -> IF settings.default_user_id = "set" THEN "default"
                              ELSE "per-session"
    IN  /\ userId = [tier |-> tier, of |-> found]
        /\ warnings = CASE ~reads -> {}
                        [] reads /\ found = None -> {"miss"}
                        [] OTHER -> ScanDiagnostics(s, settings.host_unit)
=============================================================================
