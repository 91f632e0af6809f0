---------------------------- MODULE CaptureAnalysis ----------------------------
(***************************************************************************)
(* `modlure analyze`: _cmd_analyze of modlure/cli.py with analyze_capture, *)
(* summarize_events and to_sarif of modlure/core.py and the enrichment of  *)
(* modlure/feeds.py.                                                       *)
(*                                                                         *)
(* A capture is a sequence of lines.  A line is a comment or holds hex     *)
(* digits after an optional source; `buf` is the buffer (see ModbusFrame)  *)
(* its digits spell, `digits` how many of them there are.  An address is a *)
(* record of host, port and family, the string before it is taken apart.   *)
(***************************************************************************)
EXTENDS ModbusFrame, Sequences, FiniteSets, BagsExt

CONSTANTS
  Captures,        \* the captures that may be analysed
  FeedBodies,      \* what either feed may hold: sets of [addr, ioc_type]
  Floors,          \* values of --min-severity, "any" where it is not given
  ReconAddresses   \* 8 in summarize_events

Severities == {"info", "low", "medium", "high"}

ASSUME CapturesAssumption ==
  \A c \in Captures : c \in Seq(UNION {{c[i] : i \in DOMAIN c}})
ASSUME SourcesAssumption ==
  \A c \in Captures : \A i \in DOMAIN c :
    LET a == c[i].src IN a = [host |-> a.host, port |-> a.port, family |-> a.family]
ASSUME FloorsAssumption == Floors \subseteq Severities \cup {"any"}
ASSUME ReconAssumption  == ReconAddresses \in Nat

VARIABLES
  args,          \* enrich, min_severity and out
  capture,       \* the lines
  pc,            \* where the command is
  n,             \* the line or the event that the loop at hand takes next
  events,        \* the list of events, of which enrichment changes members
  threat_intel,  \* per event the feeds that flagged its source
  feodo,         \* the index load_feodo_c2 returned
  threatfox,     \* the index load_threatfox_ips returned
  shown,         \* indices of the events that pass the severity filter
  output,        \* what is made of the events shown: summary, log or list
  outcome,       \* "running", "unreadable", "escaped" (an exception) or "done"
  warned         \* "enrichment skipped" was written to stderr

vars == <<args, capture, pc, n, events, threat_intel, feodo, threatfox, shown,
          output, outcome, warned>>

SEV_RANK == [info |-> 0, low |-> 1, medium |-> 2, high |-> 3]

Blank == [host |-> "", port |-> None, family |-> "none"]
Dash  == [host |-> "-", port |-> None, family |-> "none"]

-----------------------------------------------------------------------------
(* core.py: the hex log *)

\* Comments, empty lines and lines with less than a byte are not frames.
IsFrame(line) == ~line.comment /\ line.digits >= 2

\* An odd last digit is dropped, so the buffer may be cut.
Raw(line) == [line.buf EXCEPT !.size = line.digits \div 2]

FrameEvent(line) == EventOf(Raw(line), line.src)

-----------------------------------------------------------------------------
(* feeds.py *)

\* "1.2.3.4:5" loses its port; anything with more colons, or no dot, does not.
norm_ip(addr) == IF addr.family = "v4" THEN [addr EXCEPT !.port = None] ELSE addr

load_feodo_c2(body) == {norm_ip(rec.addr) : rec \in body} \ {Blank}

load_threatfox_ips(body) ==
  {norm_ip(rec.addr) : rec \in {r \in body : r.ioc_type = "ip:port"}} \ {Blank}

\* ti_source of the hit; no source, no hit.
score_ip(addr) ==
  LET ip == norm_ip(addr)
  IN  IF ip = Blank THEN {}
      ELSE (IF ip \in feodo THEN {"feodo-c2"} ELSE {})
             \cup (IF ip \in threatfox THEN {"threatfox"} ELSE {})

-----------------------------------------------------------------------------
(* core.py: summarize_events and to_sarif *)

IsHigh(i) == events[i].severity = "high"

SourceOf(event) == IF event.src = Blank THEN Dash ELSE event.src

Touched(sources, s) == IF s \in DOMAIN sources THEN sources[s] ELSE {}

\* Slip: setdefault(src, {addr}) without the add.
AddFirstAddress(sources, event) ==
  IF SourceOf(event) \in DOMAIN sources THEN sources
  ELSE [s \in DOMAIN sources \cup {SourceOf(event)} |->
          IF s = SourceOf(event) THEN {event.address} \ {None} ELSE sources[s]]

\* sources.setdefault(src, set()), then add the address unless it is None.
AddAddress(sources, event) ==
  LET src  == SourceOf(event)
      addr == IF event.address = None THEN {} ELSE {event.address}
  IN  [s \in DOMAIN sources \cup {src} |->
         Touched(sources, s) \cup (IF s = src THEN addr ELSE {})]

CountEvent(sum, event) ==
  [ by_severity |-> BagAdd(sum.by_severity, event.severity),
    by_category |-> BagAdd(sum.by_category, event.category),
    by_function |-> BagAdd(sum.by_function, event.function_code),
    sources     |-> AddAddress(sum.sources, event) ]

NoEntries == [x \in {} |-> 0]

EmptyCounts == [by_severity |-> NoEntries, by_category |-> NoEntries,
                by_function |-> NoEntries, sources |-> NoEntries]

summarize_events(sum) ==
  [ total       |-> Cardinality(shown),
    by_severity |-> sum.by_severity,
    by_category |-> sum.by_category,
    by_function |-> sum.by_function,
    distinct_sources |-> DOMAIN sum.sources \ {Dash},
    recon_sources    |-> {s \in DOMAIN sum.sources \ {Dash} :
                            Cardinality(sum.sources[s]) >= ReconAddresses},
    has_high         |-> \E i \in shown : IsHigh(i) ]

SARIF_LEVEL == [high |-> "error", medium |-> "warning", low |-> "note", info |-> "none"]

\* Slip: only the previous rule is compared.
HasLastRule(rules, id) == rules # << >> /\ rules[Len(rules)].id = id

HasRule(rules, id) == \E i \in DOMAIN rules : rules[i].id = id

\* The function name is the rule; the code (None: unparsed_frame) stands for it.
\* A rule keeps the level of the first event it was made for.
AddResult(log, event) ==
  LET id    == event.function_code
      level == SARIF_LEVEL[event.severity]
  IN  [ rules   |-> IF HasRule(log.rules, id) THEN log.rules
                    ELSE Append(log.rules, [id |-> id, level |-> level]),
        results |-> Append(log.results, [ruleId |-> id, level |-> level]) ]

EmptyLog == [rules |-> << >>, results |-> << >>]

-----------------------------------------------------------------------------
(* cli.py: _cmd_analyze *)

End(how) == pc' = "exited" /\ outcome' = how

ReadLines ==
  /\ pc = "read"
  /\ pc' = "parse"
  /\ UNCHANGED <<args, capture, n, events, threat_intel, feodo, threatfox,
                 shown, output, outcome, warned>>

\* OSError of open or read.
ReadFails ==
  /\ pc = "read"
  /\ End("unreadable")
  /\ UNCHANGED <<args, capture, n, events, threat_intel, feodo, threatfox,
                 shown, output, warned>>

\* Slip: `continue` where the event of an unparseable frame is appended.
ParseLineSilently ==
  /\ pc = "parse" /\ n <= Len(capture)
  /\ n' = n + 1
  /\ events' = IF IsFrame(capture[n]) /\ ~Malformed(Raw(capture[n]))
                 THEN Append(events, FrameEvent(capture[n])) ELSE events
  /\ UNCHANGED <<args, capture, pc, threat_intel, feodo, threatfox, shown,
                 output, outcome, warned>>

\* One turn of the loops of iter_frames_from_hexlog and analyze_capture.
ParseLine ==
  /\ pc = "parse" /\ n <= Len(capture)
  /\ n' = n + 1
  /\ events' = IF IsFrame(capture[n]) THEN Append(events, FrameEvent(capture[n]))
               ELSE events
  /\ UNCHANGED <<args, capture, pc, threat_intel, feodo, threatfox, shown,
                 output, outcome, warned>>

ParsedAll ==
  /\ pc = "parse" /\ n > Len(capture)
  /\ pc' = IF args.enrich THEN "feodo" ELSE "filter"
  /\ n' = 1
  /\ threat_intel' = [i \in DOMAIN events |-> {}]
  /\ UNCHANGED <<args, capture, events, feodo, threatfox, shown, output,
                 outcome, warned>>

LoadFeodo ==
  /\ pc = "feodo"
  /\ \E body \in FeedBodies : feodo' = load_feodo_c2(body)
  /\ pc' = "threatfox"
  /\ UNCHANGED <<args, capture, n, events, threat_intel, threatfox, shown,
                 output, outcome, warned>>

LoadThreatfox ==
  /\ pc = "threatfox"
  /\ \E body \in FeedBodies : threatfox' = load_threatfox_ips(body)
  /\ pc' = "score"
  /\ UNCHANGED <<args, capture, n, events, threat_intel, feodo, shown, output,
                 outcome, warned>>

\* Slip: a feed that cannot be had counts as an empty one.
FeedUnavailableIgnored ==
  /\ pc \in {"feodo", "threatfox"}
  /\ pc' = IF pc = "feodo" THEN "threatfox" ELSE "score"
  /\ warned' = TRUE
  /\ UNCHANGED <<args, capture, n, events, threat_intel, feodo, threatfox,
                 shown, output, outcome>>

\* FileNotFoundError or ConnectionError of either load: a warning, no scoring.
FeedUnavailable ==
  /\ pc \in {"feodo", "threatfox"}
  /\ pc' = "filter"
  /\ warned' = TRUE
  /\ UNCHANGED <<args, capture, n, events, threat_intel, feodo, threatfox,
                 shown, output, outcome>>

\* Any other exception leaves _cmd_analyze: a capture that is not UTF-8, a
\* cached feed that is not JSON, a hit whose family is not a string (the join in
\* enrich_event raises TypeError), a closed stdout.
Escape ==
  /\ \/ pc \in {"read", "feodo", "threatfox", "emit"}
     \/ /\ pc = "score" /\ n <= Len(events)
        /\ score_ip(norm_ip(events[n].src)) # {}
  /\ End("escaped")
  /\ UNCHANGED <<args, capture, n, events, threat_intel, feodo, threatfox,
                 shown, output, warned>>

\* Slip: a severity the rest of the code does not know.
ScoreEventCritical ==
  /\ pc = "score" /\ n <= Len(events)
  /\ LET hit == score_ip(norm_ip(events[n].src))
     IN  /\ threat_intel' = [threat_intel EXCEPT ![n] = hit]
         /\ events' = IF hit = {} THEN events
                      ELSE [events EXCEPT ![n].severity = "critical"]
  /\ n' = n + 1
  /\ UNCHANGED <<args, capture, pc, feodo, threatfox, shown, output, outcome,
                 warned>>

\* enrich_event, in place.
ScoreEvent ==
  /\ pc = "score" /\ n <= Len(events)
  /\ LET hit == score_ip(norm_ip(events[n].src))
     IN  /\ threat_intel' = [threat_intel EXCEPT ![n] = hit]
         /\ events' = IF hit = {} THEN events
                      ELSE [events EXCEPT ![n].severity = "high"]
  /\ n' = n + 1
  /\ UNCHANGED <<args, capture, pc, feodo, threatfox, shown, output, outcome,
                 warned>>

ScoredAll ==
  /\ pc = "score" /\ n > Len(events)
  /\ pc' = "filter"
  /\ UNCHANGED <<args, capture, n, events, threat_intel, feodo, threatfox,
                 shown, output, outcome, warned>>

\* Slip: > for >=.
PassesStrictly(event) == \/ args.min_severity = "any"
                         \/ SEV_RANK[event.severity] > SEV_RANK[args.min_severity]

Passes(event) == \/ args.min_severity = "any"
                 \/ SEV_RANK[event.severity] >= SEV_RANK[args.min_severity]

Filter ==
  /\ pc = "filter"
  /\ shown' = {i \in DOMAIN events : Passes(events[i])}
  /\ output' = CASE args.out = "summary" -> EmptyCounts
                 [] args.out = "sarif"   -> EmptyLog
                 [] args.out = "events"  -> << >>
  /\ n' = 1
  /\ pc' = "emit"
  /\ UNCHANGED <<args, capture, events, threat_intel, feodo, threatfox, outcome,
                 warned>>

\* One turn of the loop of summarize_events (--summary), of to_sarif (--format
\* sarif) or of the printing of the events themselves (json and table).
EmitEvent ==
  /\ pc = "emit" /\ n <= Len(events)
  /\ n' = n + 1
  /\ \/ n \notin shown /\ output' = output
     \/ /\ n \in shown
        /\ output' = CASE args.out = "summary" -> CountEvent(output, events[n])
                       [] args.out = "sarif"   -> AddResult(output, events[n])
                       [] args.out = "events"  -> Append(output, events[n])
  /\ UNCHANGED <<args, capture, pc, events, threat_intel, feodo, threatfox, shown,
                 outcome, warned>>

Emit ==
  /\ pc = "emit" /\ n > Len(events)
  /\ output' = IF args.out = "summary" THEN summarize_events(output) ELSE output
  /\ End("done")
  /\ UNCHANGED <<args, capture, n, events, threat_intel, feodo, threatfox,
                 shown, warned>>

\* The exit status; an exception that escapes makes the interpreter exit with 1.
ExitStatus == CASE outcome = "unreadable" -> 2
                [] outcome = "escaped"    -> 1
                [] outcome = "done"       -> IF \E i \in shown : IsHigh(i) THEN 1 ELSE 0

Init ==
  /\ args \in [enrich : BOOLEAN, min_severity : Floors,
               out : {"summary", "sarif", "events"}]
  /\ capture \in Captures
  /\ pc = "read"
  /\ n = 1
  /\ events = << >> /\ threat_intel = << >>
  /\ feodo = {} /\ threatfox = {}
  /\ shown = {} /\ output = << >> /\ outcome = "running" /\ warned = FALSE

Next == \/ ReadLines \/ ReadFails \/ ParseLine \/ ParsedAll
        \/ LoadFeodo \/ LoadThreatfox \/ FeedUnavailable \/ Escape
        \/ ScoreEvent \/ ScoredAll \/ Filter \/ EmitEvent \/ Emit

Spec == Init /\ [][Next]_vars

-----------------------------------------------------------------------------
(* Properties *)

\* How many of the first m lines are frames.  The last of them is a frame's place
\* among the frames.
NumFrames(m) == Cardinality({l \in 1..m : IsFrame(capture[l])})

FrameLines == {l \in DOMAIN capture : IsFrame(capture[l])}

Parsed == pc \notin {"read", "parse", "exited"} \/ outcome = "done"

\* Types, and that the parallel lists have one length.
TypeOK ==
  /\ pc \in {"read", "parse", "feodo", "threatfox", "score", "filter", "emit",
             "exited"}
  /\ n \in 1..(Len(capture) + 1)
  /\ \A i \in DOMAIN events : events[i].severity \in Severities
  /\ Parsed => /\ DOMAIN threat_intel = DOMAIN events
               /\ shown \subseteq DOMAIN events
  /\ outcome \in {"running", "unreadable", "escaped", "done"}
  /\ (pc = "exited") <=> (outcome # "running")

\* Nothing silently disappears (docstring of analyze_capture): every frame of
\* the capture, malformed ones included, has its one event, in order, and
\* enrichment changes nothing of it but the severity.
EventsFollowCapture ==
  Parsed =>
    /\ Len(events) = NumFrames(Len(capture))
    /\ \A l \in FrameLines :
         LET was == FrameEvent(capture[l])
         IN  events[NumFrames(l)] \in {was, [was EXCEPT !.severity = "high"]}

\* The feeds that know the source of an event.
KnownTo(addr) == {f \in {"feodo-c2", "threatfox"} :
                    /\ addr # Blank
                    /\ norm_ip(addr) \in (IF f = "feodo-c2" THEN feodo ELSE threatfox)}

\* Enrichment takes both feeds or none: either a warning was given and no event
\* was touched, or each event carries exactly the feeds that know its source.
\* An event is raised to high exactly when some feed does.
EnrichAllOrNothing ==
  Parsed /\ pc \notin {"feodo", "threatfox", "score"} =>
    \A l \in FrameLines :
      LET i    == NumFrames(l)
          hits == IF args.enrich /\ ~warned THEN KnownTo(capture[l].src) ELSE {}
      IN  /\ threat_intel[i] = hits
          /\ events[i].severity = IF hits # {} THEN "high"
                                  ELSE FrameEvent(capture[l]).severity

\* The gate does not depend on what is displayed: whatever --min-severity hides,
\* the exit status is 1 exactly when some enriched event is high.
StatusIgnoresFilter ==
  outcome = "done" => (ExitStatus = 1 <=> \E i \in DOMAIN events : IsHigh(i))

\* How many of the shown events have each value of a field.
Tally(field, I) == [x \in {events[i][field] : i \in I} |->
                      Cardinality({i \in I : events[i][field] = x})]

\* The addresses that a source touched.
AddressesOf(s, I) == {events[i].address : i \in {j \in I : SourceOf(events[j]) = s}} \ {None}

\* The summary says of the shown events what looking at all of them at once says,
\* in particular which sources touched ReconAddresses distinct addresses, and
\* agrees with the exit status.
SummaryMatchesEvents ==
  outcome = "done" /\ args.out = "summary" =>
    LET named == {SourceOf(events[i]) : i \in shown} \ {Dash}
    IN  /\ output.by_severity = Tally("severity", shown)
        /\ output.by_category = Tally("category", shown)
        /\ output.by_function = Tally("function_code", shown)
        /\ output.distinct_sources = named
        /\ output.recon_sources =
             {s \in named : Cardinality(AddressesOf(s, shown)) >= ReconAddresses}
        /\ output.has_high <=> ExitStatus = 1

\* How many of the shown events come no later than event i: its place among them.
Place(i) == Cardinality({j \in shown : j <= i})

\* The SARIF log is well formed: its results are the shown events in order, each
\* naming one of its rules, and no two rules share an id.
SarifWellFormed ==
  outcome = "done" /\ args.out = "sarif" =>
    /\ Len(output.results) = Cardinality(shown)
    /\ \A i \in shown :
         LET result == output.results[Place(i)]
         IN  /\ result.ruleId = events[i].function_code
             /\ result.level = SARIF_LEVEL[events[i].severity]
             /\ Cardinality({r \in DOMAIN output.rules :
                               output.rules[r].id = result.ruleId}) = 1

\* The doc's claim (cli.py, exit codes; README): a control frame is a
\* high-severity event and makes the status 1.
ControlMeansStatus1 ==
  outcome = "done" /\ (\E i \in DOMAIN events : events[i].category = "control")
    => ExitStatus = 1
=============================================================================
