# acp-bridge in TLA+

`muxi-acp` is one process between an ACP host (JSON-RPC on stdin and stdout)
and a remote MUXI formation (HTTP and SSE).  This directory holds a model of
that process, the TLC configurations that check it on small instances, and
TLAPS proofs of its main safety properties for all values of the constants.
Paths below are relative to the repository.

## The system

| Component | State it keeps | Operations |
|---|---|---|
| session registry, `src/session.rs` | one mutex around a map: per session the active turn, its token, its queue of reservations and their sum | create, resume, remove, begin_turn, end_turn, cancel_active_turn, buffer_reserve, buffer_written, drain_active_turns; list, contains, buffered_bytes only read |
| ACP agent, `src/agent.rs` | one future per prompt turn (`run_turn`) with its locals: request, captured session id, token, the two deadlines, `saw_terminal`; one future per spawned `cancel_request`; the stdout writer's hook | handlers for session/new, resume, list, prompt, cancel, close, delete; the arms of the turn's `select!`; the hook on each line written |
| process, `src/main.rs` | where `main` is: serving, stopping, sweeping, exited | the select of the connection against a signal, drain, the bounded sweep of upstream cancels, exit |
| SSE translator, `src/translate.rs` | per turn: `seen_tools`, `streamed_content` | `translate` of a frame, `stream_end_outcome` |
| southbound requests, `src/agent.rs`, `src/main.rs` | per turn one chat POST and any number of cancel DELETEs in flight | `run_turn`'s first poll, `spawn_mux_cancel`, the sweep |
| configuration, `src/config.rs`, `src/mux.rs` | none | profile selection, endpoint and TLS checks, secrets, identity tiers, client construction |
| doctor, `src/doctor.rs` | per run: the report, `first_addr`, `origin_http_ok` | eight checks in a fixed order, the exit code |
| Buzz identity, `src/buzz.rs`, `src/agent.rs` | none; a prompt's text and a profile decide | `try_extract`, a parser of prompt text; `user_id_for_turn` |
| external | the host, the ACP SDK's connection and writer, the formation | |

How they interact.  The host's messages run handlers; a handler changes the
registry and may spawn a turn or a cancel task on the same connection.  A turn
reads the formation's frames, translates them, reserves bytes in the registry
and queues a line; the writer takes lines later, and its hook releases bytes
*by session id*.  `close` and `delete` take a session away under a running turn,
which learns of it only through its token.  The end of the connection drops
every future on it, and `shutdown` knows of the turns only what the registry
still holds.  A turn's chat request and its cancels reach the formation over
connections of their own.  Who a turn is remembered for is decided from the
text of its prompt, where other people's messages are quoted.

What is hard.  Handlers, turns, cancels, timers, the writer and shutdown
interleave; a turn captured its session id long before it uses it, and the
session may have been closed, reopened and prompted again meanwhile; several
arms of a select are ready at once; stdin may close, a signal arrive or a send
fail between any two steps; the formation may fall silent, break off or send
frames in an order nobody tested; a cancel may overtake the request it is to
cancel; a quoted line may look like a header; two functions read the endpoint's
URL in their own ways.  `PROJECT.json` lists each hazard at its line.

## The modules

| Module | Models | How |
|---|---|---|
| `SessionRegistry` | the registry | one action per operation, `RegSpec`: any caller, any order |
| `AcpBridge` | agent and process on top of the registry (it extends `SessionRegistry`) | one action per handler, per arm of the select, per spawned task, per step of `main` |
| `TurnContract` | what the host is promised about turns | abstract specification; `AcpBridge` is shown to implement it |
| `RegistryRemoval` | the registry as threads see it: `remove` in two steps (it extends `SessionRegistry`) | `DropEntry`, then `FireToken`; `ImplementsRegistry` is `RegSpec` with the tokens about to fire counted as fired |
| `Southbound` | the chat POST and the cancel DELETEs of turns, and the network between | one action per way to make, deliver or lose a request |
| `Translator` | one turn's stream through the translator | one action per item of the stream, over arbitrary frames |
| `Endpoint` | the two readings of an endpoint's URL, `is_loopback_host` and `endpoint_origin` | pure operators on sequences of tokens |
| `ProfileConfig` | the checks of a profile, identity tiers, `build_state` (it extends `Endpoint`) | pure operators |
| `Doctor` | the eight checks (it extends `ProfileConfig`) | one action per check, probes answer anything |
| `BuzzPrompt` | `try_extract` and its helpers | pure operators on sequences of lines |
| `BuzzIdentity` | prompts, line by line, and `user_id_for_turn` (it extends `BuzzPrompt`, and takes the tiers from `ProfileConfig`) | one action per piece of a prompt, then `HandlePrompt` |
| `SessionRegistryProofs`, `RegistryRemovalProofs`, `AcpBridgeProofs`, `SouthboundProofs`, `TranslatorProofs`, `DoctorProofs`, `BuzzIdentityProofs` | theorems | see "What is proved" |
| `FoldLemmas` | lemmas on least and greatest positions, on `FoldLeft` and on recursive functions over a sequence | for searches, sums and passes over sequences |
| `MC*` | | instances for TLC: symmetry sets and input families |

**SessionRegistry.**  `registered`, `active`, `pending` and `buffered` are the
map and the fields of `TurnState`; `cancelled` holds the requests whose token
fired; `begun` and `finished` are history.  Operations that only report an error
change nothing and have no step.  An update's size is a member of `Sizes`.
Every operation holds the mutex throughout, with one exception: `remove` fires
the token after it let the lock go.  In `SessionRegistry`, and so in the
bridge, it is one step; `RegistryRemoval` makes it two with every other
operation of any thread between them, and implements the first.  `new_id` is
taken to be fresh among registered sessions and among requests.

**AcpBridge.**  `task[r]` is the future of a prompt turn: `unborn`, `spawned`
(never polled), `streaming`, `ended` (it called `end_turn`), `abandoned` (it saw
stdin EOF and left its slot for the shutdown path), `dropped` (with the
connection, or never spawned).  `owner` is the `session_id` it captured,
`answer` its one result (`undelivered` when the connection no longer sends),
`due` the deadlines that have passed, `outgoing` the lines queued for stdout
over all sessions, `deletes`/`deleted` the cancels outstanding and made,
`upstream` the formation's side.  The biased `select!` is in the guards: an arm
fires only if no arm above it is ready (`TurnCancelled`, `HostGone`,
`TurnTimeout`, `IdleTimeout`, then the stream under `Reading`).  An arm that
breaks ends the future and calls `end_turn` in the same action; `HostGone`
returns without it, as the code does.  A handler contains no await and is one
action.  `ConnectionFails` makes sends and spawns fail from then on, which is
when the error paths of `send_notification`, `respond` and `spawn` are taken;
a turn that `handle_prompt` cannot spawn keeps its slot, as in the code.
A cancel is one attempt (`CancelRequest`): the formation stops, or the request
fails, which the code logs and does not repeat, and the turn is `missed`
upstream.  No property of this module says that a cancel is delivered; what
becomes of it on the wire is the next module's subject.  A stream that ends or
breaks is taken for a formation that stopped (`FormationStops`).

**Southbound.**  `turn` is the future again, `slots` and `token` what the
registry knows of it, `post` and `dels` its requests on the wire, `formation`
the other side.  A turn makes its POST when the biased select first reaches the
stream.  A DELETE is spawned by `session/cancel` (any number of times), close,
timeouts, overflow, and the sweep; one that arrives before the POST finds
nothing and is not remembered, as the end-to-end tests' formation answers it.
`overtaken`, `lost` and `broken` record the ways a cancel can come to nothing.

**Translator.**  A frame is what the code tells apart after JSON parsing: its
kind, whether it has text, the fields that name a tool, the status, the
discontinuity flag.  `emitted` is the sequence of notifications, `of` carries
the tool and its status or the text.  A second completed frame repeats the text
of the first in the code and in the model; no property excludes it.  `FrameShapes` is the link to `AcpBridge`,
whose stream actions assume just those shapes: nothing, one update,
`Completed` after at most one update, or one terminal event.

**Doctor**, **ProfileConfig** and **Endpoint.**  A URL is its scheme class and
the tokens after `://`: separators, pieces of host names, digits that fit a
port and digits that do not.  A key reference is what becomes of it.
`firstAddr`, `originHttpOk` are the locals of `collect` the later checks read.

**BuzzPrompt** and **BuzzIdentity.**  A line is its form (header of either
kind, separator, `Channel:` or `From:` line, other), whether trimming changes
it, the count of a header, and the parenthesised captures in it, each a valid
id or `Malformed`.  `Sender`, `ChannelCapture` and the rest search by position
as the code does.  `BuzzIdentity` composes prompts: batches as Buzz renders them,
whose contexts, messages and names quote anything, and prompts of no known
origin; `HandlePrompt` resolves all of them, read or not; `Glue`
is the joining of two text blocks without a line break.  The context in front of
the events is one of `Contexts`, any sequence of lines: headers, and whole blocks,
may be quoted in it too.

## The runs

| Run | Bounds | Shows |
|---|---|---|
| `registry` | 4 sessions against a limit of 3, 3 requests against 2 turns, sizes 1 and 2 against a cap of 3, `remove` in two steps | limits, byte accounting and slots hold under arbitrary callers on any threads; the atomic registry is implemented |
| `bridge` | 2 sessions, 2 requests, 1 turn, cap of one line | who owns a slot and how it is released, that cancellation wins and is propagated, that the sweep is complete, and `ImplementsContract` |
| `bridge_patient` | as above, 2 turns, cap of two lines, a host that reads before it prompts a session again | reservations are exactly the queued lines, and the cap bounds them |
| `bridge_pipelined` | the same with any host, sizes 1 and 2 | *violation*, finding 1 |
| `bridge_sweep` | 2 sessions, 2 requests, 2 turns | *violation*, finding 2 |
| `bridge_live` | 1 session, 2 requests, with fairness | prompts are resolved, the cancel of a turn is made, EOF ends the process |
| `southbound` | 2 requests, 2 DELETEs of one on the wire, with fairness of the network | what is left of a cancel when requests race and get lost |
| `translator` | 2 tool names and the default, one text, 3 updates | tools are announced once, text is not repeated, success is not guessed |
| `translator_reply` | the same | *violation*, finding 3 |
| `doctor` | 5945 inputs in three families, among them every URL text of up to four tokens; every answer of every probe | the report is complete, exit 0 means `connect` starts, and the host that is resolved is the one that was judged |
| `buzz` | batches of 1 or 2 events with 2 quoted lines behind 9 contexts, any other prompt of up to 5 lines; both units, with and without a default, with an empty flag and one that decides | whom a turn is remembered for, and that the parser agrees with one pass over the lines |

Why the bounds are enough to be interesting.  What goes wrong with slots needs
an old and a new turn of one session and another session to prompt in
between: two requests, two sessions.  With `MaxConcurrentTurns = 1` the second
turn starts only when the first has let its slot go, by any of the ways; with 2
both run.  A cap of one or two lines overflows at the next; in the registry's run,
sizes 1 and 2 let a wrong reservation be released, and it has one session and
one request more than its limits.  `bridge_live` has a patient host: what a host
that prompts early changes is whose reservations a written line releases, and
no action that liveness rests on reads those.  One session and two requests let
a second turn start while the first one's cancel is still to be made.

A DELETE that overtakes and one that arrives need two of one request
(`MaxDeletes`); a shutdown finds two turns in different states.  Three updates
suffice for announcement, update and a second announcement, or delta, text,
text; the bound `MaxUpdates` is in `ReceiveFrame`.  Four tokens hold a host, a
colon, a port and what follows, or a bracketed name; longer well-formed
addresses are added by name.  Two events and two quoted lines let a
message of either event quote a whole false section (separator, `From:`), and
the contexts hold nothing, a single line of a kind, either form of header alone
or with a `Channel:` or `From:` line, and half a header that the joining completes; five
free lines hold header, two sections and a `Channel:` or `From:` line in each.
`MaxEvents`, `MaxContent` and `MaxLines` bound the actions that add lines.  The
proofs about texts have none of these bounds.

No other counter is unbounded: each request begins once, so `RequestIds` bounds
the turns, and the byte cap bounds each turn's lines; lines written make room,
but only a turn that streams adds to `outgoing`, and its reservations are then
released by the lines of its own session.  With a host that pipelines, the
lines of several turns of a session queue up, at most one cap's worth for each
line an older turn left.  Every run is exhaustive.

Deadlock is checked except in `southbound`, where the network delivers what it
has and everything really stops; elsewhere `Exited`, `Resolved` and `Reported`
are the states where the system has stopped.  Symmetry in sessions, requests
and tool names is used in safety runs only.

### Fairness

`FairSpec` assumes weak fairness of what the runtime and the clock guarantee:
a turn whose token fired, whose host is gone, whose deadline has passed or
which was just spawned is polled (the arms are checked in a fixed order, so an
arm above never starves: it ends the turn); the wall-clock deadline of an open
turn passes (`DeadlinePasses(r, "turn")`; of the idle deadline nothing is
assumed, since frames may keep resetting it); a spawned cancel completes, with
an answer or an error, as the SDK's client has a request timeout (it need not
succeed: `CancelIsMade` is about the attempt); `main` goes on after the connection
ends, and `Exit` happens because the sweep runs under
`SHUTDOWN_CANCEL_WINDOW`.  Nothing is assumed of the host, of frames, of the
writer, or of the sweep's cancels.  So `PromptResolved` rests on the timers
alone.  Its exceptions (host gone, connection failing, process leaving) are the
cases where the code answers nobody, and `HangUpExits` says what happens then:
leaving the connection, by an error or a signal too, counts as stdin gone.

`Southbound`'s `FairSpec` assumes only that a request on the wire arrives or is
lost.  Turns need not be polled and a formation need never finish.

### Findings

1. **Reservations are released by session, not by turn** (`agent.rs:165`,
   run `bridge_pipelined`).  A line of a finished turn that is still queued
   pops, when it is written, a reservation of the session's next turn, and more
   than `max_buffered_bytes` of one turn can be queued.  Comments
   (`config.rs:82`, `agent.rs:151`) say the cap is exact.  `bridge_patient` shows
   that it is exact for a host that reads its queue before it prompts again.
2. **A cancel spawned by close can be lost at shutdown** (`main.rs:122`, run
   `bridge_sweep`).  The turn has left the registry, its `cancel_request` goes
   with the connection, the sweep does not know of it.  `SweepComplete` says
   that these are the only turns missed.
3. **An empty delta suppresses the reply** (`translate.rs:147`, run
   `translator_reply`): `streamed_content` is set although no chunk was sent, and
   the text of `completed` is then taken for a repetition.
4. A divergence without a run of its own: `config.rs:394` promises that a bare
   `::1` without a port counts as loopback, but `rsplit_once(':')` takes its last
   group for a port and compares the host `:`.  `CheckedHost` models it so.

Exceptions the properties name are behaviour, too.

* `OrphansExplained` has three: a DELETE overtaken, a DELETE lost, a stream that
  broke.
* `ResolvesCheckedHost` has one: after a colon with no port, the transport check
  drops the colon and doctor keeps it in the host's name.  It is about the dns
  and TCP probes, which use `endpoint_origin`.  `health`, the session request and
  the DELETE go where the HTTP client's own parser points, which is not modelled
  and may differ, for one where user information precedes the host.
* `ChannelFollowsSession`: `try_extract` starts from the first header of the whole
  prompt (`buzz.rs:91`), so one that the context quotes displaces the real one.
  It decides the channel if a `Channel:` line is quoted after it, or if it is of
  the multi-event form and the block is not, whose lines are then in no section
  (`ContextDecidesChannel`).  The turn then goes to a quoted channel, or falls back:
  `agent.rs:74`, the extracted id is stable for the session's lifetime, holds but
  for these (`buzz.rs:24` concedes that quoted content can mislead the parser).
* `SenderAttribution`: where such a header leaves the last event without a section
  of its own (`SectionPerEvent`) nothing is promised: the sender may be one that
  the context quotes, with nothing in the log.  Where it has one, a message may
  still quote a separator, which starts a section; the log then shows it.
* `AmbiguityReported` and `LostHeaderFallsBack` are about contexts without a
  header.  TLC finds each of the four violated if its condition is dropped.

## What is proved

TLAPS checks the theorems below for all values of the constants that satisfy the
named `ASSUME`s: in `SessionRegistry`, `NoTurn` is no request, the sets of ids
are finite, sizes and limits are naturals; in `AcpBridge`, `NoSession` is no
session and `PatientHost` is a Boolean; in `Southbound`, `MaxDeletes` is positive;
in `Endpoint`, `ProfileConfig` and `Doctor`, host names are no separators or
digits, `NoName` is no profile, and `Inputs` are commands; in `BuzzPrompt` and
`BuzzIdentity`, captures are of their types and the lines of messages and of
contexts (`ContextAssumption`) are lines, whichever.  The runs evaluate all of them.

**Registry.**  `RegistryInvariant`: `RegSpec` keeps `RegTypeOK`,
`ActiveTurnReal`, `CapsRespected`, `SlotHeld` and `BufferCapRespected`, whose
conjunction is inductive (`RegistryByteCap` states the last alone).
`CapsRespected` needs cardinalities of finite sets; `SlotHeld` is inductive only
with `ActiveTurnReal`, which keeps a fresh request out of every slot.
`RegistryReleases`: every step satisfies `SlotReleaseAccounted`.
`RegistryAccounting`: the counter of a turn is the sum of its reservations, so
the `saturating_sub` of `buffer_written` never saturates.

**Folds.**  Sums, filters and passes over sequences are `FoldLeft`s or recursive
functions, and what they compute for every sequence is an induction over data,
which the library states with operators as parameters.  `FoldLemmas` does
without: a set of naturals that is not empty has a least element (`MinOfNats`,
from the well-founded order on `Nat`), hence a set that holds 0 and with `k - 1`
also `k` holds every number up to a bound (`UpwardsTo`), and the step of a fold
is given as a function.  `FoldAppend` and `FoldFirst` say what one more element
does at either end, `FoldRelated` compares two folds step by step, and
`UnfoldsFold` ties them to the definition of `FoldLeft`, a recursive function over
sets of positions.  The proofs below cite these, or `UpwardsTo` itself.

**Removal in two steps.**  `RemovalImplementsRegistry`: `DropEntry` maps to the
atomic remove, `FireToken` to a stutter, every other operation to itself.
In this program handlers run on one task and nothing runs between the two steps;
these theorems are the registry's own contract, for callers on any threads.
`RemovalFiresItsOwn` and `RemovalKeepsTurns` follow from `FineInv`, which adds
that a turn holds one slot at most (`OneSlotEach`) and that a turn neither
ended nor fired is held or about to fire (`RunningHeld`).

**Bridge.**  `BridgeOwnsSlots`, `BridgeNoZombies`, `BridgeCancelWins`,
`BridgeStreamsWithinCap`, `BridgeTypeCorrect` state one property each of
`BridgeInvariant`.  `BridgeUsesRegistry`: every behaviour of the bridge is one
of the registry, although it calls it with captured, possibly outdated session
ids; `BridgeReleases` follows.  `BridgeImplementsContract`: every behaviour is
one of `TurnContract` under the mapping `Phase`, `owner`, `Result`.

The argument has three stages.  Stage one: each action of the bridge
is one of the registry's operations or leaves the registry alone
(`RegistryStep`), so the registry's lemmas apply.  Stage two: as far as slots,
tokens, futures and answers go, the two dozen actions have eight shapes
(`Shaped`: `Quiet`, `Prompts`, `Cancels`, `Closes`, `Breaks`, `LosesHost`,
`Leaves`, `Drains`).  Stage three: each shape preserves `Inv` and maps to a step
of the contract or to a stutter.

`Inv` strengthens the properties by what makes them inductive.  `SlotOwned`
says that a live uncancelled turn holds the slot of the session it captured;
to keep it over a prompt one must know that a turn in a slot was begun, hence is
another request.  Its converse `SlotBacked` (a turn in a slot has not ended, and
captured that session) gives `NoZombieSlot` together with `GoneForAReason`
(which futures may vanish, and when: a future is dropped in front of its slot
only by a connection that is failing).  `Unanswered` gives that the answer of a
breaking turn is its first, which `CancelWins` and the contract need;
`Captured` ties `begun` to the futures.  `StreamsWithinCap` follows from
`SlotOwned`: the live uncancelled turns inject into the slots in use.

**Queue.**  `BridgeReservations` and `BridgeQueueWithinCap`, for a host that reads
its queue before it prompts a session again (`PatientHost`, the hypothesis of
`bridge_patient`; finding 1 shows that neither holds without it).  Every action
has one of five effects on the queue (`QueueShaped`: it rests, a turn claims a
session, a line is added, a line is written, the queue is dropped) or is the
drain.  `Queue` adds to both properties what makes them inductive: while a
turn holds a session's slot, the queued lines of that session are exactly that
turn's (`QueueOwned`), so the line the writer takes stands for the oldest
reservation of the turn in the slot, or for none; and a turn that has not begun
has nothing queued.  The cap follows by `BufferAccounting`, which the bridge has
from the registry by refinement.

**Cancels.**  `BridgePropagatesCancel`, `BridgeReportsLoss` and
`BridgeSweepComplete`, on top of `Inv`.  Their invariant
`Custody` says who answers for a turn that runs upstream: a slot, a cancel task,
the sweep, or the cancel tasks dropped with the connection (`InCustody`).  It is
inductive only with the facts that a cancel task exists for cancelled or ended
turns alone (`CancelsMeant`), that a turn whose cancel was made is over upstream or
missed (`DeletedStopped`), and that a process exits within its window only when its
sweep is empty (`SweepSpent`).  Again each action has one of a few shapes.

**Southbound.**  `OrphansOnlyThreeWays` from `IInv`: the POST and the formation move
in step (`PostsInStep`), a turn that still owes a cancel is in the registry
(`SlotsKept`), and one that was cancelled or deserted is settled, has a DELETE
on the wire, or an explanation (`CancelledSettled`).  `EarlyCancelHarmless` is a
nested temporal formula: once the token fired before the POST was made, none
ever is.

**Doctor.**  All five properties of its run, from `Report`: what each line of the
report says, given the profile, and what the two locals then stand for
(`Expected`).  `DoctorResolvesCheckedHost` covers URL texts of any length: where
doctor gets an origin at all, both readings cut the text at the same places.

**Translator.**  All four invariants of its run, for all texts and tools and for
streams of any length.  `FrameYields` lists what a frame translates to and
`FrameSends` what `run_turn` then sends; `TranslatorShapes` is the first of
these.  `Told` is the inductive invariant: `seenTools` holds exactly the tools
announced, no delta was sent unless `streamedContent` is set (finding 3 is why
the converse fails), and each item of `emitted` is one of the known updates.
With it `TranslatorTools` and `TranslatorReply` follow for one more update at the
end of the history (`OneMore`), and `TranslatorSuccess` from the cases of
`StreamEndOutcome`.

**Buzz.**  `FirstChannelDecides` and `OnlySeparatorsDisplace`, for prompts of any
length, from `TextTyped` and lemmas on what one more line does to a search for
the first or the last of a kind.

`OnePassAgrees`: the parser's searches by position agree with one pass over the
lines, for every text.  `Summary` says in terms of the searches what the pass
must know of a text (form, count, sections, channel, the senders of the closed
sections and of the open one).  One more line takes the summary of a text to
that of the longer text: before the header (`HeaderStep`), with a new section
(`SectionAdded`) and within a section (`SectionGoesOn`), put together in
`BlockStep`; `ScanIsSummary` is the fold of these steps.

`TurnFollowsChannel`, `TurnFollowsSender`, `SendersReported` and
`LostHeaderMisses` are about whole prompts.  By `ScanIsSummary` the turn's
identity is a function of what the pass found, and the pass, unlike the
searches, can be followed while Buzz writes the prompt.  `FoundSoFar` is the
inductive invariant: within a visible block whose header is the first, the pass
found that header, the channel of the session, as many sections as events (at
least as many, if messages quote separators) and the senders of those
(`BlockFound`); behind a header that the context quotes it found that one, the
session's channel and the last event's sender under the conditions above
(`QuotedFound`); behind a lost header it found nothing (`NothingFound`).  A quoted
separator is noticed because the sender of a text is one of its senders, as the
last event's is (`SenderCounted`).  TLC found no state of the `buzz`
instance that breaks it before it was proved.

Only model-checked: liveness (`PromptResolved`, `CancelIsMade`,
`HangUpExits`, `CancelSettles`), as fairness and `ENABLED` are outside the
prover.  Every invariant, action property and refinement that a run checks is
stated by a theorem.

## Not modelled

* `chat_payload` in `src/mux.rs` beyond the ids it carries, the command line,
  logging and redaction, report formatting, TOML and duration parsing, the
  keychain, the wording of errors and diagnostics: no behaviour the properties
  are about.
* The characters of a line or of a host name: `is_uuid` and `is_hex64` are
  whether a capture is valid, and URLs are in lower case.
* What a formation does with the user a cancel names, which may differ from
  that of the chat request (`agent.rs:52` documents it).
* The identity tier doctor names: README calls it informational, and a turn's own
  prompt decides more than a profile can.
* The HTTP client's reading of the endpoint's URL.
* `new_id` repeating an id: twelve random characters.
* The final flush of stdout, and replies nothing depends on.

## Plan

Done: all modules and proofs above.  Left, in this order:

1. The composition of `Translator` with the turn, so that overflow and frames
   are one state, in place of the link through `FrameShapes`; `NoSilentLoss`
   and `SuccessIsReported` are then one statement.
2. The composition of `Southbound` with `AcpBridge`, whose cancels now stop the
   formation or miss it in one step, and with it `SweepComplete` and
   `OrphansExplained`.
3. The safety halves of the liveness properties as theorems: what a prompt that
   is not resolved is still waiting for (a deadline that has yet to pass, an
   arm of the select that is ready), so that fairness alone is left to TLC.
