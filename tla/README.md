# modpot / modlure: TLA+ models

`modlure` is a Modbus TCP honeypot with an offline capture analyser, an
authorization-gated active probe and a cache of threat-intelligence feeds. This
directory holds TLA+ models of its Python implementation (`src/modlure`), TLC
configurations that check them, and proofs checked by TLAPS.

## 1. The system

| component | code | state | operations | what makes it correct |
|---|---|---|---|---|
| frame codec and classifier | `core.py` 25-264 | none | `parse_frame`, `classify_event`, `frame_to_event`, `build_response` | every buffer is either refused or yields one event; the answer carries the request's transaction id; severity follows function code, quantity and decodability |
| honeypot server | `cli.py` `_cmd_serve`, `_recv_exact` | listening socket, current connection, partial buffer, `saw_high` | accept, receive, parse, answer, record, print, Ctrl-C | the log is the sequence of frames the peers sent, however the bytes are cut; exit status agrees with the log; nobody waits for ever |
| capture analysis | `core.py` 277-453, `cli.py` `_cmd_analyze` | list of events | parse a hex log, enrich, filter, summarise, emit | one event per frame; status 1 exactly when some event is high, shown or not |
| active probe | `probe.py`, `cli.py` `_cmd_probe` | `_tid`, `_last_send`, open connection, results | gate, connect, throttle, send, read, close | never outside the scope, never faster than the rate, one result per target, always ends |
| feed cache | `datafeeds.py` | a data and a meta file per feed, shared by processes | fetch with retries, update, get, snapshot export and import | meta never vouches for older data than there is; a get returns what it found fresh or newer; what was cached is served offline |
| scope of a probe | `probe.py` 70-121, `cli.py` `_cmd_probe` | list of texts, then targets | parse options and scope file, write keys, parse again, probe, report | what is probed is what was listed, all of it or nothing |
| feed commands | `feeds.py` `cmd_feeds`, `datafeeds.py` `main` | remaining ids, return code | list, update, get, snapshot | the status tells whether every feed asked for is there |
| live search | `livesearch.py` | links seen, items kept | fetch each source, drop, keep, sort | the first acceptable item of each link, newest first |
| enrichment | `feeds.py` | two indices | load both, score each event | all events scored against both feeds or none |
| connectors, MCP server, webhook, ports, polyglot | `connect.py`, `mcp_server.py`, `integrations/`, `ports/`, `polyglot/` | none | wrappers and re-implementations | see "Not modelled" |

Interactions: `serve` and `analyze` call the codec; `analyze --enrich` reads the
feed cache, which other processes (`modlure feeds update`) write; `probe` talks
to Modbus devices, among them possibly a `modlure serve`; the two then wait for
each other in lock step. There are no threads
in the package. Concurrency comes from the peers and the network around the
server, from devices, from the clock, from Ctrl-C, and from several processes
sharing one cache directory.

Hard behaviours: partial reads and resets in the middle of a frame; exceptions
that only some handlers catch; an interrupt between two statements; a rate
limit measured by stamps taken before the send; a 16-bit counter that wraps;
cache files rewritten in place; a target that is parsed, written and parsed
again; a list of which one entry fails. `PROJECT.json` lists each of them under
`hazards` at its line, with the properties that cover it.

## 2. Modules

| module | what it is |
|---|---|
| `ModbusFrame` | pure operators: `Malformed`, `parse_frame`, `Category`, `Severity`, `Unanswerable`, `build_response` on abstract buffers |
| `HoneypotServer` | `_cmd_serve` composed with its peers, some of them a `modlure probe` |
| `HoneypotLog` | what the server promises a reader of its stdout; `HoneypotServer` implements it (`ImplementsHoneypotLog`) |
| `ActiveProbe` | `Probe.run`/`probe_target`, the clock and the devices |
| `ProbeScope` | `Target.parse` and `Target.key` as operators |
| `CommandLine` | `_cmd_probe` around `Probe.run`, `cmd_feeds`, `main` of `datafeeds`; uses `ProbeScope` |
| `CaptureAnalysis` | `_cmd_analyze`: hex log, enrichment, filter, summary, SARIF, exit status; uses `ModbusFrame` |
| `FeedCache` | the two files of a feed and the calls of several processes on them |
| `FeedRegister` | what the cache promises when nobody interferes: a register per directory; `FeedCache` implements it (`ImplementsFeedRegister`) |
| `LiveSearch` | `harvest` and `fetch_feed` |
| `MCHoneypotServer`, `MCActiveProbe`, `MCCommandLine`, `MCCaptureAnalysis`, `MCFeedCache`, `MCLiveSearch` | instances for TLC |
| `HoneypotServer_proofs`, `ActiveProbe_proofs`, `ProbeScope_proofs`, `CommandLine_proofs`, `CaptureAnalysis_proofs`, `FeedCache_proofs`, `FeedRegister_proofs`, `LiveSearch_proofs` | theorems |

### ModbusFrame

A buffer is a record of what `struct.unpack` would find in it (size, header
fields, function code, the first two words of the body and the byte after). It
keeps every distinction the code makes: too short, wrong protocol, short
length, body clipped to the MBAP length, body too short for its code. Bytes
beyond that, the individual coil and register values, and message texts are
abstracted. `None` is -1. `Unanswerable` is the case in which
`bytes([fc, nbytes])` raises because the count exceeds 255.

### HoneypotServer

`pc` is the statement the thread is at: `bind`, `accept`, `head` and `rest`
(the two `_recv_exact` calls), `parse`, `answer`, `flag` (`saw_high = True`),
`print`, `exited`. `stream[c]` is what a peer sends, as frames tiled over byte
offsets; `arrived[c]` and `pos[c]` are byte counts, `got` is `len(buf)` inside
`_recv_exact`. So a miscounted read would really lose the frame boundaries
(`FrameAt` then yields garbage). A peer may connect, have bytes delivered in
pieces, close at any byte or reset. `recv` under a reset may first return bytes
that had arrived; `sendall` on a reset connection raises. `Exit` is every way
out: Ctrl-C, an exception other than `ParseError` (of `accept`, `recv`, `build_response`,
`sendall`), a failing `bind`, and `print` to a stdout that nobody reads any more
(`PrintFails`), after which the interpreter cannot flush stdout either and
exits with 120. `taken` is a history variable, read by no action.

No call of the server has a timeout. `accept` and `recv` wait in the guards of
`Accept` and `Recv`. `sendall` waits for a peer that reads, `print` for the reader
of stdout: `Answer` and `PrintEvent` are enabled as soon as the thread gets there,
but how long they are put off is not the scheduler's affair (see "Fairness"). A peer
that has shut down its sending side only and still reads is not told apart from one
that has closed.

A peer whose stream is in `ProbeStreams` is a `modlure probe`: it sends its next
request only when the answer to the one before has been sent (`SentFrames`), as
`probe_target` does, and takes part in the lock step that `ProbeCompletes` is
about. It may still close or be reset at any point, which stands for its timeout.
Answers are counted when `sendall` returns; their bytes reach the probe as a
whole.

Each of the actions is a block of `_cmd_serve`, see `map` in `PROJECT.json`.

### ActiveProbe

`pc` walks through `run` and `probe_target`: `next`, `connect`, `build`, then per
request `throttle`, `sleep`, `stamp`, `send`, `read`, and `close`. `now` is the
monotonic clock; `Tick` may fall between any two steps, also between the stamp of
`_throttle` and `sendall`. A device answers the requests in order, in full or too
short, may hand an answer over in pieces, each of which restarts the timer of
`recv`, may send an answer again (`Repeat`), which shifts every later one, may stay
silent, and may close at any time, also in the middle of an answer. An answer that
comes after its timeout finds the connection gone (`Raise`). `inbox` holds what has
arrived and was not read; `DropSocket` discards it with the connection. A timeout or
reset after the connection exists escapes from `run` (`Raise`), as in the code; a
failing connect is a result. `sent` is a history variable, and so is `repeats`,
which counts for each target how often its device has sent an answer again.
`Quantities` includes 126, which `probe_target` refuses (`probe.py` 270) before
anything is sent; that bound also keeps a probe from asking a honeypot for the 128
registers it cannot answer.

### ProbeScope and CommandLine

A target text is a sequence of tokens: the characters `:`, `[`, `]`, `#`, which the
parser looks at, blanks, and words between them, of which some are numerals. `Parse`
follows `Target.parse` branch by branch; `strip`, `partition`, `lstrip(":")` and
`count(":") == 1` are operators of their own, and `int` strips as well. `NoTarget` is
the `ValueError`. `Key` writes `host:port` without brackets, as the code does, so
`Parse(Key(t))` need not be `t`: an IPv6 host loses its brackets, and the host
of `[ plc]:502` its leading blank. `Plain` excludes both.

`CommandLine` starts from a command line and walks through the commands that work
through a list. For `probe`: `authorize`, `scope_file` (read, parse and write as
keys: `Specs`), `specs` (parse again), `run` (one target per step, with an outcome
that `ActiveProbe` details), and the status. For feeds: one feed per step, with
the outcome of `FeedCache`. `Escape` is an exception that nothing catches: a
refused entry, a scope file that is not UTF-8, a failing write. An empty
`--target ""` is dropped by `Scope.from_specs`; alone it makes an empty scope,
nothing is probed and the status is 0. `datafeeds.py update` reports each failure
and returns 0 all the same, `modlure feeds update` does not; `FeedsStatusTellsAll`
is about the latter. What the code selects from a list (the lines that are entries,
the texts that are not blank) is selected by position (`AtPositions`).

### LiveSearch

One source per `Fetch`, one item per `Drop` or `Keep`. An item is what decides
about it: its link and its date, taken from the last child with a fitting tag. A
source may fail (no items), be of no kind (`Skip`) or raise what nothing catches
(`FetchRaises`). Dates are compared as the strings the code sorts (`IsoBefore`):
within one second a fraction sorts before none, and the sort is described by the
place each item takes (`Ahead`, `Place`); so "newest-first"
(`livesearch.py` 17) holds to the second, which is what `NewestFirst` says.

### CaptureAnalysis

A capture is a sequence of lines; a line is a comment or a number of hex digits
after an optional source. `Raw` drops an odd last digit, as the code does, so a line
may be cut in the middle of a frame, and `ModbusFrame` decides what becomes of it.
`pc` walks through `_cmd_analyze`: `read`, `parse` (one line per step), `feodo` and
`threatfox` (the two loads), `score` (one event per step, in place, as
`enrich_events` does), `filter`, `emit` (one event shown per step, from which
`output` grows: the counts of `summarize_events`, the rules and results of
`to_sarif`, or the list). A load may succeed with any content, fail with one of the
two exceptions that are caught (`FeedUnavailable`) or with another (`Escape`).
Scoring may end in `Escape`, too, at an event whose source a feed knows, for a
family that is no string cannot be joined (`feeds.py` 152). An address is a record
of host, port and family: `norm_ip` strips the port of an IPv4 address only. The
text of reasons, tables and JSON is left out; a function name is represented by its
code.

The summary counts sources with their port, while enrichment strips it; both
are modelled as they are. An exception that escapes shares status 1 with a
high-severity event (`ExitStatus`).

### FeedCache

Feeds share nothing but the directory, so one feed is modelled, in several
directories (`Sites`) used by several processes. A file's content is abstracted
to its age: `data[s]` is the time its bytes were fetched, `meta[s].of` the time of
the download the meta file was written for and `meta[s].at` its `fetched_at`. A
file may also be absent, empty (opened for writing, which truncates it) or
garbled (cut, or two writers over each other). `call[p]` holds the locals of the
running call and where it stands: `fetch` (with its failed attempts), `open_data`,
`write_data`, `open_meta`, `write_meta`, `done` for `update` and for the second half
of `snapshot_import`; `age` and `read` for `get`; `list`, `tar_data`, `tar_meta` for
`snapshot_export`; `unpack` for `snapshot_import`. A download attempt succeeds, fails with one of the
exceptions that `fetch` retries, or raises another one (`FetchRaises`). Opening and writing a file are
two steps, because other processes can see the file in between; reading a file
is one, and so is adding a file to the archive. `Fault` ends a call anywhere: the
process is killed or the operating system refuses. `cached`, `known` and `result`
are history.

The code locks nothing, so which calls overlap is a condition of use, the
constant `Overlap`: `"nothing"` (one call at a time per directory), `"readers"`
(at most one of update, get and import, beside offline gets and exports) or
`"everything"`. Which promises hold under which condition:

| | one call at a time | one writer, readers beside it | two writers at once |
|---|---|---|---|
| `SettledCache`, `ImplementsFeedRegister` | yes, without faults | not stated | no |
| `NeverOverstated`, `GetReturnsFresh` | without imports | without imports | no |
| `CallEnds` | yes | yes | yes (not among the runs) |

An import replaces data and meta by those of an archive, which may be older, so
between its two writes older data stands beside newer meta.
The last column and the exclusion of imports are facts about the code, not about
the model: two overlapping updates may leave the older data beside the newer
meta, and an export beside an update may put older data and newer meta in one
archive. Neither the documentation nor the code promises anything there, so they
are listed as hazards and not as findings.

`FeedRegister` is the view of a caller: a directory holds the content of one
download or nothing, a snapshot carries it over, a get answers with it or refuses,
and offline it refuses only when there is none. Under the refinement mapping the
register of a directory is what the call that is filling it holds in memory, from
the return of `fetch` on, and otherwise what the data file contains; meta, retries
and truncated files do not show.

## 3. What is checked

| run | bounds | shows |
|---|---|---|
| `honeypot` | 2 peers, 3 streams (the three requests of a probe; a frame of a foreign protocol and an undecodable write; a bare header, an unanswerable read and a write), pieces of 5 bytes or the rest, queue of 1 | `LogFollowsStream`, `RepliesFollowLog`, `OnlyFrameInHandUnlogged`, `HighLoggedMeansStatus1`, types; the refinement of `HoneypotLog`; `ArrivedFrameGetsLogged`, `QueuedPeerGetsServed`, `ProbeCompletes` |
| `honeypot_every_request` | as `honeypot` | violated: see below |
| `probe` | batches of 2 targets, one of them with a target out of scope, quantities 1 and 126, rates -1 and 2 ticks, timeout 1, ids modulo 4, idle ticks up to 3, 2 odd answers (short, repeated, in pieces) | scope, rate, ids, results, `AnswersLagByRepeats`, types, `RunEnds` |
| `probe_exit_status` | as `probe`, no odd answers | violated: see below |
| `command` | every text of up to 4 tokens over 9 tokens as an option and as a line of a file; up to 2 of 11 sample texts as options, as lines, and beside each other; every outcome of reading; feed commands with up to 2 of 4 ids | `AllOrNothing`, `ProbesExactlyTheList`, `FeedsStatusTellsAll`, types |
| `command_ipv6` | scope files of up to 2 sample lines | violated: see below |
| `analyze_safety` | captures of up to 3 of 8 lines, 3 contents per feed, 3 filters, all outputs, recon threshold 2 | `EventsFollowCapture`, `EnrichAllOrNothing`, `StatusIgnoresFilter`, `SummaryMatchesEvents`, `SarifWellFormed`, types |
| `analyze_control` | as `analyze_safety` | violated: see below |
| `cache_settled` | 2 directories with one process each, an archive carried between them, 1 retry, clock up to 3, no faults, no overlap | `SettledCache`, `OfflineKeepsWorking`, types, the refinement of `FeedRegister` |
| `cache_readers` | 1 directory, 2 processes, one writer at a time, 1 retry, clock up to 2, 1 fault | `NeverOverstated`, `GetReturnsFresh`, `CallEnds` |
| `cache_offline_crash` | as `cache_settled` with 1 fault, no retry, clock up to 2 | violated: see below |
| `harvest` | 2 sources, documents of up to 2 of 9 nodes (and some of 3, of which 2 are looked at), a cutoff within a second, a year boundary | `HarvestIsFirstOfEach`, `NewestFirst` |

Why the bounds suffice. The server handles one frame at a time and keeps only
`saw_high` between frames and nothing between connections, so streams of two and
three frames and two peers contain every pair of consecutive frames and connections.
With a queue of one, the second peer meets it both full and empty, and a full one
only drains when the thread leaves its connection. Pieces of 5 bytes split both the
7-byte header and every body. The probe keeps `_tid` and `_last_send` between
targets, so two targets show every hand-over; six requests with ids modulo 4 wrap in
the first and in the second connection. The number of odd answers is shared among
repeated, short and dripped ones: an answer that is two places late needs two
repeats, an answer that is late without any repeat is a violation, and what is
repeated in the first connection would reach the second if anything did. Four tokens
contain every order of two marks and two words, the two colons that make an IPv6
address included; a list of two has an entry before and after each kind. `analyze`
treats each line and each event by itself, so three lines are enough for its
aggregates: two addresses of one source reach the threshold of 2, and an unrelated
event stands between or after. In the cache, two times of download tell older from
newer, `max_age` 1 within a clock of 2 or 3 makes a cache both fresh and stale. In
`harvest`, two sources with two items each hold an item, its duplicate, an outdated
one before it and a third link to be sorted. The proofs of section 4 lift the bounds
where they apply. `MaxOdd`, `Horizon`, `Backlog`, `Chunks`, `MaxTime` and
`MaxFaults` are the bounds; no state is cut off by a constraint.

`CHECK_DEADLOCK FALSE` because server, probe, analysis, commands and harvest end,
and because cache processes may stop calling when the clock has stopped.

Fairness. `honeypot` assumes that the thread is scheduled in the steps that wait for
nobody (`ThreadFairness` on `RunningStep`), that a probe is and that its bytes
arrive while its connection is up (`ProbeFairness`), and that `sendall` returns when
the peer is a probe, which reads each answer before it sends the next request, or
has closed (`AnswersRead`). Of other peers nothing is assumed: one that stays
connected and reads nothing may keep the thread in `sendall` for ever, which
`ArrivedFrameGetsLogged` names as an outcome (`Blocked`). That the small answers to
such a peer usually fit the buffers of the kernel is not relied on. Nothing is
assumed of stdout either: the three properties have the antecedent that it is read
(`StdoutRead`). `QueuedPeerGetsServed` has the further antecedent that no peer stays
connected for ever (`PeersLeave`), because the code has no timeout and a single peer
that is idle, or takes no answers, keeps everybody else waiting. `probe` assumes
that the thread is scheduled and the clock runs; devices owe nothing.
`cache_readers` assumes that each process that is in a call is scheduled. That a
download attempt ends, well or not, is part of that: every socket operation of
`fetch` has a timeout, and a feed server is taken to send a finite response. The
other runs check safety only.

### Disagreements with the documentation

* `EveryRequestLogged`: a peer that resets before its answer is sent, which is
  what the run's trace shows, or a request for 128 or more registers ends the server
  before the event is printed (`cli.py` 161 and 318). The property leaves out the
  endings nobody would blame on the server: Ctrl-C and the loss of stdout.
* `AnyUnreachableIsNonZero`: one unreachable target of several gives status 0
  (`cli.py` 234, 236).
* `ControlMeansStatus1`: function 0x17 has the category control but at most the
  severity medium, so a capture that contains it can end with status 0
  (`core.py` 215, `cli.py` 27).
* `EveryProbedIsListed`: a scope-file line `[::1]:502` is written back as `::1:502`
  and parsed again as the host `::1:502`; that one is probed and the listed one is
  not (`cli.py` 202, `probe.py` 14).
* `OfflineKeepsWorking` under a fault: `update` truncates the cached file before
  it writes it, so an update that is cut off leaves a cache that `--offline`
  cannot serve any more (`datafeeds.py` 116, `README.md` 183).

Two more things the models show, for which no run is kept. The stamp of
`_throttle` precedes the send, so two consecutive sends can be closer than
`--rate` when the process pauses in between (`probe.py` 245, 252); the long-run
limit `RateLimit` does hold, and is proved. And the order of two items within one
second follows the spelling of their dates (`livesearch.py` 169).

## 4. What is proved

Every safety property that a passing run checks, and both refinements, hold for
every value of the constants under the stated assumptions.

`HoneypotServer_proofs`, for any peers, streams, pieces and queue:

* `TypeCorrect`. `TInv` adds to `TypeOK` that the frame in hand is one of a stream
  (or what is read where none begins) and that log and history are sequences.
* `OnlyFrameInHandUnloggedHolds` and `HighLoggedMeansStatus1Holds`. `HandInv` says
  for each place of the thread whether the frame taken last is already in the log:
  it is not in `parse`, `answer`, `flag` and `print`, it is everywhere else, and the
  exit may come from either. `HighInv` adds that a high event about to be printed has
  been noted, which is what makes the printed log imply `saw_high`.
* `LogFollowsStreamHolds` and `RepliesFollowLogHolds`. Neither is inductive, because
  nothing in them says where in the stream the thread is. `PlaceInv` does: with n
  events of a connection printed, the bytes taken from it are the first n frames
  and `got` (`HeldBy`), so the next header is read where a frame begins; the answers
  are those of n frames, or of n + 1 between answer and print; a waiting connection
  is untouched, and one that was left stays as it was left (`Settled`).
* `ImplementsHoneypotLogHolds`: taking a connection from the queue is `Begin`, the
  print is `Publish`, which needs `PlaceInv` to know that the event is that of the next
  frame, closing the connection is `Leave`, every exit is `Stop`, and all other steps
  leave stdout alone.

`ActiveProbe_proofs`, for every batch, scope, rate, timeout, clock and device:

* `TypeCorrect` and `ScopeEnforced`. Their conjunction `GateInv` is inductive;
  the type of `conn` and of results needs the index to lie within the batch,
  which `OnlyAuthorizedScope` records for the whole of a target's turn.
* `RateLimitHolds`. `RateLimit` speaks of requests already sent; `PaceInv`
  strengthens it with the distance between the last stamp and every earlier
  one, which grows by a period in `Stamp` and is spent in `Send`. `Tick` may
  happen anywhere, so no assumption on scheduling is needed.
* `TidsDiffer`. From `NextTidWraps`: the counter is a cycle of at least three
  values.
* `ResultsFollowBatchHolds`, `EverySentReportedHolds` and
  `AnswersLagByRepeatsHolds`, from one invariant, `AnswerInv`: how many requests
  the thread has asked at each place (`TalkInv`), which results there are
  (`BatchInv`), and what is on the wire (`WireInv`): the device got the requests of
  this connection and no others, what has arrived exceeds what was answered by no
  more than it has repeated itself on this connection (`Surplus`, with `repeats` of the
  target in hand), and every answer, read or not, is no more places late than that
  (`Late`). `AnswersLagByRepeats` is about results only;
  it is `Late` at the moment the result is appended.

`ProbeScope_proofs`, for any words and numerals: `KeyInjective` and `PlainSurvives`.
Both rest on `KeyShape`: a key is the host, a colon and one numeral, so its last
colon is known. What `Strip` leaves is a piece of the text with no blank at its ends
(`StripShape`), so it leaves the key of a plain host alone (`StripNothing`).
`ParseAccepts`: what is accepted is a target; the `CHOOSE` of `FirstAt` has a value
because a set of numbers has a least element.

`CommandLine_proofs`, for any command lines, lists, feeds and catalogue: `TypeCorrect`,
`AllOrNothingHolds`, `ProbesExactlyTheListHolds` and `FeedsStatusTellsAllHolds`, from
`CommandInv`. Its part `PcInv` says which places belong to which command. `ProbeInv`
follows `probe`: once the scope is built, everything it was given was accepted, and
what is probed and what is still to be probed make up the plan, the targets parsed
from it (`RunInv`). `PlanIsListed` then shows that the plan is the list: a text
behind others is kept when it is not blank (`NonBlankBehind`, which counts
positions), keys are not blank, and a plain target survives (`PlainSurvives`).
`FeedInv` follows `feeds update`: the feeds tried are those asked for less those
still to be tried, and the status tells what came of them (`Tried`).

`CaptureAnalysis_proofs`, for any captures, feed contents and filters:

* `TypeCorrect`. `CInv` strengthens `TypeOK` with the place (`Counted`: no more
  events than lines read, which bounds the index of the scoring loop) and with what
  the filter has let through (`ShownPass`).
* `StatusIgnoresFilterHolds`, from `ShownPass` and `HighPasses`: the rank of high is
  the greatest there is.
* `EventsFollowCaptureHolds` and `EnrichAllOrNothingHolds`. `LineInv` says which event
  is which line's: the l-th line, if it is a frame, has the event at the place
  counted by the frames up to l (`ParseInv`), and the events looked up so far, all or
  none of them in the end, carry the feeds that know their source (`ScoreInv`).
* `SummaryMatchesEventsHolds`. The summary is a loop over the events shown;
  `SummaryInv` says that after n of them the counts are those of the set of these n
  (`CountsOf`), which is where bags and cardinalities meet.
* `SarifWellFormedHolds`. `SarifInv`: the log of the first n events has each at its
  place among those shown, under a rule that is in the log once (`LogOf`).

`FeedCache_proofs`, for any number of processes and directories, every retry
count, age limit, clock and number of faults:

* `TypeCorrect`, whatever calls overlap.
* `NeverOverstatedHolds` and `GetReturnsFreshHolds`, under `OneWriterAtATime`
  (`Overlap` is not `"everything"`, nobody imports). Neither is inductive: why data
  is not older than meta depends on where the writer of the directory stands, and
  why a reader is safe depends on both. `FreshInv` adds these: one process at most
  writes in a directory (`OneWriter`, `Roles`); from its download to its return it
  holds content no older than the files, has emptied the file it is filling, and
  has completed data before it opens meta (`FreshWriter`); and what a reader
  relies on is no newer than the data, when readable, and than what the writer
  holds (`FreshReaders`). `WriterStep` shows that any step of the one writer that
  replaces data or meta by empty or by its own content keeps this, `PrivateStep`
  that any step outside a download does, and `FreshStep` reduces every action to
  one of the two, to the clock or to a fault.

`FeedRegister_proofs`, for any number of processes and directories, under
`Undisturbed` (no overlap within a directory, no faults):

* `SettledCacheHolds` and `OfflineKeepsWorkingHolds`. `SettledInv` adds what a
  running call knows of its files at each place (`CallsSettled`), that it is alone in
  its directory (`Solo`), that a complete archive holds a whole copy
  (`ArchiveWhole`), and that a directory once filled stays filled (`StaysFilled`).
* `ImplementsFeedRegisterHolds`: under the mapping described in section 2 the
  initial states are initial states of `FeedRegister`, and every step of `FeedCache`
  is one of its steps or leaves its variables alone. `FetchOk` is `Download`,
  `ExportList` and `ExportMeta` are `Discard` and `Export`, `Unpack` is `Import`, and
  the end of a get is `GetAnswers` or `GetRefuses`; the four writing steps stutter,
  which needs `CallsSettled` to know that the file then holds what the call held.

`LiveSearch_proofs`, for any sources, documents, limits and cutoff, from
`HarvestInv`:

* `HarvestIsFirstOfEachHolds`. `SeenInv`: while items come in, `seen` is both the set of
  links in `out` and that of the acceptable items looked at. So the next item is
  kept exactly when it is a new member of `Kept` (`DropKeepsKept`, `KeepAddsKept`). The
  sort loses and doubles nothing because `Place` is a bijection (`PlacesAreAll`), as
  the number of those that go ahead of each item in a total order.
* `NewestFirstHolds`. `IsoBefore` is a weak order (`IsoAsymmetric`, `IsoBetween`), so
  `Ahead` is a total one, and neighbours in the result are in it.

Assumptions: the `ASSUME`s of the modules (types of the constants, frames that tile
their stream, a positive timeout, at least three ids, numerals that are written as
they are read, addresses that are records of their three parts, lists that are
sequences, dates that are no `Undated`) and the condition stated in a theorem.

How the proofs deal with data. The properties count positions (`Cardinality` of a
set of indices) and do not select with `SelectSeq` or a fold, which are recursive
and which the provers cannot expand; so no induction over sequences is needed,
and a step of a loop adds one position to a set (`FS_AddElement`). Where an induction
over numbers is needed it is taken in the form of sets (a subset of `Nat` that is
closed contains everything) or of least elements.

Only model-checked. Liveness (`ArrivedFrameGetsLogged`, `QueuedPeerGetsServed`,
`ProbeCompletes`, `RunEnds`, `CallEnds`): temporal reasoning under fairness is
outside what the provers used here can do. The five properties of the runs that
expect a violation are false of the code, as section 3 tells.

## 5. Plan

1. Theorems on `ModbusFrame`: every decodable write is high, `Unanswerable` only
   for oversized counts, the answer fits its request.
2. What an import does to `NeverOverstated`: the weaker bound that holds between its
   two writes.
3. An abstract specification of the analysis (one report per capture) and the
   proof that `CaptureAnalysis` implements it.

## 6. Not modelled

* Ports (`ports/`, in four languages): demonstrations that read one hex frame,
  decode and print it; they keep no state and nothing in the package calls them.
* Polyglot sketches: cut off in mid-statement or failing as soon as they are
  loaded (`ics_honeypot_server.py` ends inside an expression,
  `modbus_dnp3_parser.py` raises `TypeError` in a dataclass), so they have no
  behaviour to model; nothing uses them.
* The MCP server imports names that do not exist in the package and fails at
  import. Connectors and the webhook pass findings to external services in one
  call; those services are not in the repository.
* `ddg_search` and the output of `livesearch.py`: one request, and printing.
* Argument parsing, table layout, JSON text and messages, which have no state.
