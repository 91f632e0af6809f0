------------------------- MODULE CaptureAnalysis_proofs -------------------------
(***************************************************************************)
(* Theorems about CaptureAnalysis, for any captures, feeds and severities   *)
(* to filter by.                                                           *)
(***************************************************************************)
EXTENDS CaptureAnalysis, FiniteSetTheorems, TLAPS

\* The lines of all captures, and the events that can be made of them.
AllLines   == UNION {{c[i] : i \in DOMAIN c} : c \in Captures}
Categories == {"write", "read", "control", "unknown"}
EventType  ==
  [ src            : {l.src : l \in AllLines},
    category       : Categories,
    severity       : Severities,
    function_code  : {parse_frame(Raw(l)).function_code : l \in AllLines} \cup {None},
    address        : {parse_frame(Raw(l)).address : l \in AllLines} \cup {None},
    transaction_id : {parse_frame(Raw(l)).transaction_id : l \in AllLines} \cup {None} ]

LEMMA CategoryTyped == ASSUME NEW f PROVE Category(f) \in Categories
BY DEF Category, Categories

LEMMA SeverityTyped == ASSUME NEW f PROVE Severity(f) \in Severities
<1>1. BaseSeverity(f) \in Severities
  BY DEF BaseSeverity, Severities
<1> QED
  BY <1>1 DEF Severity, Severities

LEMMA EventTyped ==
  ASSUME NEW l \in AllLines PROVE FrameEvent(l) \in EventType
<1> DEFINE f == parse_frame(Raw(l))
<1>1. /\ f.function_code \in {parse_frame(Raw(k)).function_code : k \in AllLines}
      /\ f.address \in {parse_frame(Raw(k)).address : k \in AllLines}
      /\ f.transaction_id \in {parse_frame(Raw(k)).transaction_id : k \in AllLines}
  OBVIOUS
<1>2. Category(f) \in Categories /\ Severity(f) \in Severities
  BY CategoryTyped, SeverityTyped
<1>3. FrameEvent(l) = IF Malformed(Raw(l)) THEN unparseable_event(l.src)
                      ELSE frame_to_event(f, l.src)
  BY DEF FrameEvent, EventOf
<1> HIDE DEF f
<1>4. frame_to_event(f, l.src) \in EventType
  BY <1>1, <1>2 DEF frame_to_event, EventType
<1>5. unparseable_event(l.src) \in EventType
  BY DEF unparseable_event, EventType, Categories, Severities
<1> QED
  BY <1>3, <1>4, <1>5

Labels == {"read", "parse", "feodo", "threatfox", "score", "filter", "emit", "exited"}
ArgsType ==
  [enrich : BOOLEAN, min_severity : Floors, out : {"summary", "sarif", "events"}]

\* While lines are parsed there are no more events than lines, and the next line is
\* one of the capture.
Counted ==
  /\ Len(events) <= Len(capture)
  /\ n \in 1..(Len(capture) + 1)
  /\ pc \in {"read", "parse"} => Len(events) <= n - 1

\* What is shown is what passes the filter, once that has run.
ShownPass ==
  /\ pc \notin {"emit", "exited"} => shown = {}
  /\ pc = "emit" \/ outcome = "done" => shown = {i \in DOMAIN events : Passes(events[i])}

CInv ==
  /\ pc \in Labels
  /\ outcome \in {"running", "unreadable", "escaped", "done"}
  /\ pc = "exited" <=> outcome # "running"
  /\ capture \in Captures
  /\ args \in ArgsType
  /\ events \in Seq(EventType)
  /\ Parsed => DOMAIN threat_intel = DOMAIN events
  /\ Counted
  /\ ShownPass

LEMMA CaptureIsSeq ==
  ASSUME capture \in Captures
  PROVE  Len(capture) \in Nat /\ DOMAIN capture = 1..Len(capture)
         /\ \A i \in 1..Len(capture) : capture[i] \in AllLines
<1>1. capture \in Seq(UNION {{capture[i] : i \in DOMAIN capture}})
  BY CapturesAssumption
<1>2. Len(capture) \in Nat /\ DOMAIN capture = 1..Len(capture)
  BY <1>1
<1> QED
  BY <1>2 DEF AllLines

\* Lists of events: what they are made of, and the ways a step changes them.
LEMMA EventsLemma ==
  ASSUME NEW T, NEW s \in Seq(T)
  PROVE  /\ Len(s) \in Nat /\ DOMAIN s = 1..Len(s)
         /\ \A i \in DOMAIN s : s[i] \in T
OBVIOUS

LEMMA EmptyLemma == ASSUME NEW T PROVE <<>> \in Seq(T) /\ Len(<<>>) = 0
OBVIOUS

LEMMA AppendLemma ==
  ASSUME NEW T, NEW s \in Seq(T), NEW x \in T
  PROVE  Append(s, x) \in Seq(T) /\ Len(Append(s, x)) = Len(s) + 1
OBVIOUS

LEMMA ReplaceLemma ==
  ASSUME NEW T, NEW s \in Seq(T), NEW i \in 1..Len(s), NEW x \in T
  PROVE  /\ [s EXCEPT ![i] = x] \in Seq(T) /\ Len([s EXCEPT ![i] = x]) = Len(s)
         /\ DOMAIN [s EXCEPT ![i] = x] = DOMAIN s
OBVIOUS

\* The invariant gives the types.
LEMMA CInvTyped == ASSUME CInv PROVE TypeOK
<1>1. Len(capture) \in Nat /\ events \in Seq(EventType)
  BY CaptureIsSeq DEF CInv
<1>2. \A i \in DOMAIN events : events[i] \in EventType
  BY <1>1, EventsLemma
<1>3. \A i \in DOMAIN events : events[i].severity \in Severities
  BY <1>2 DEF EventType
<1>4. shown \subseteq DOMAIN events \/ outcome \in {"unreadable", "escaped"}
  BY DEF CInv, ShownPass, Labels
<1>5. Parsed => shown \subseteq DOMAIN events
  <2>1. Parsed /\ pc = "exited" => outcome = "done"
    BY DEF Parsed
  <2>2. outcome \in {"unreadable", "escaped"} => pc = "exited" /\ outcome # "done"
    BY DEF CInv
  <2> QED
    BY <1>4, <2>1, <2>2
<1>6. /\ n \in 1..(Len(capture) + 1)
      /\ pc \in Labels /\ outcome \in {"running", "unreadable", "escaped", "done"}
      /\ pc = "exited" <=> outcome # "running"
      /\ Parsed => DOMAIN threat_intel = DOMAIN events
  BY DEF CInv, Counted
<1> QED
  BY <1>3, <1>5, <1>6 DEF TypeOK, Labels

\* A step that only moves pc on, between places where nothing is shown yet.
LEMMA MoveKeeps ==
  ASSUME CInv, pc \in Labels \ {"emit", "exited"}, pc' \in Labels \ {"emit", "exited"},
         Parsed' => Parsed, pc' \in {"read", "parse"} => pc \in {"read", "parse"},
         UNCHANGED <<args, capture, n, events, threat_intel, shown, outcome>>
  PROVE  CInv'
<1>1. Counted' /\ ShownPass'
  BY DEF CInv, Counted, ShownPass
<1>2. pc' # "exited" /\ outcome' = "running"
  BY DEF CInv
<1> QED
  BY <1>1, <1>2 DEF CInv

\* A step that ends the command without output.
LEMMA EndKeeps ==
  ASSUME CInv, pc # "exited", NEW how \in {"unreadable", "escaped"}, End(how),
         UNCHANGED <<args, capture, n, events, threat_intel, shown>>
  PROVE  CInv'
<1>1. pc' = "exited" /\ outcome' = how /\ ~Parsed'
  BY DEF End, Parsed
<1>2. Counted' /\ ShownPass'
  BY <1>1 DEF CInv, Counted, ShownPass
<1> QED
  BY <1>1, <1>2 DEF CInv, Labels

LEMMA ReadLinesKeeps == ASSUME CInv, ReadLines PROVE CInv'
<1>1. pc = "read" /\ pc' = "parse"
      /\ UNCHANGED <<args, capture, n, events, threat_intel, shown, outcome>>
  BY DEF ReadLines
<1>2. ~Parsed'
  <2>1. outcome' = "running"
    BY <1>1 DEF CInv
  <2> QED
    BY <1>1, <2>1 DEF Parsed
<1> QED
  BY <1>1, <1>2, MoveKeeps DEF Labels

LEMMA ParseLineKeeps == ASSUME CInv, ParseLine PROVE CInv'
<1>1. /\ pc = "parse" /\ pc' = "parse" /\ n' = n + 1 /\ n <= Len(capture)
      /\ UNCHANGED <<args, capture, threat_intel, shown, outcome>>
      /\ events' = events \/ events' = Append(events, FrameEvent(capture[n]))
  BY DEF ParseLine
<1>2. /\ capture \in Captures /\ events \in Seq(EventType)
      /\ Len(events) <= n - 1 /\ n \in 1..(Len(capture) + 1) /\ outcome = "running" /\ shown = {}
  BY <1>1 DEF CInv, Counted, ShownPass
<1>3. Len(capture) \in Nat /\ Len(events) \in Nat /\ capture[n] \in AllLines
  BY <1>1, <1>2, CaptureIsSeq, EventsLemma
<1>4. FrameEvent(capture[n]) \in EventType
  BY <1>3, EventTyped
<1>5. events' \in Seq(EventType) /\ Len(events') \in {Len(events), Len(events) + 1}
  BY <1>1, <1>2, <1>4, AppendLemma
<1>6. Counted'
  BY <1>1, <1>2, <1>3, <1>5 DEF Counted
<1>7. ShownPass' /\ ~Parsed'
  BY <1>1, <1>2 DEF ShownPass, Parsed
<1> QED
  BY <1>1, <1>2, <1>5, <1>6, <1>7 DEF CInv, Labels

LEMMA ParsedAllKeeps == ASSUME CInv, ParsedAll PROVE CInv'
<1>1. /\ pc = "parse" /\ pc' \in {"feodo", "filter"} /\ n' = 1
      /\ DOMAIN threat_intel' = DOMAIN events
      /\ UNCHANGED <<args, capture, events, shown, outcome>>
  BY DEF ParsedAll
<1>2. Len(capture) \in Nat
  BY CaptureIsSeq DEF CInv
<1>3. Counted'
  BY <1>1, <1>2 DEF CInv, Counted
<1>4. ShownPass' /\ outcome' = "running"
  BY <1>1 DEF CInv, ShownPass
<1> QED
  BY <1>1, <1>3, <1>4 DEF CInv, Labels

LEMMA FeedsKeep ==
  ASSUME CInv, LoadFeodo \/ LoadThreatfox \/ FeedUnavailable \/ ScoredAll PROVE CInv'
<1>1. /\ pc \in {"feodo", "threatfox", "score"} /\ pc' \in {"threatfox", "score", "filter"}
      /\ UNCHANGED <<args, capture, n, events, threat_intel, shown, outcome>>
  BY DEF LoadFeodo, LoadThreatfox, FeedUnavailable, ScoredAll
<1>2. Parsed
  BY <1>1 DEF Parsed
<1> QED
  BY <1>1, <1>2, MoveKeeps DEF Labels

LEMMA ScoreEventKeeps == ASSUME CInv, ScoreEvent PROVE CInv'
<1> DEFINE e == [events[n] EXCEPT !.severity = "high"]
<1>1. /\ pc = "score" /\ pc' = "score" /\ n' = n + 1 /\ n <= Len(events)
      /\ UNCHANGED <<args, capture, shown, outcome>>
      /\ events' = events \/ events' = [events EXCEPT ![n] = e]
      /\ DOMAIN threat_intel' = DOMAIN threat_intel
  BY DEF ScoreEvent
<1>2. /\ capture \in Captures /\ events \in Seq(EventType)
      /\ Len(events) <= Len(capture) /\ n \in 1..(Len(capture) + 1)
      /\ outcome = "running" /\ shown = {} /\ DOMAIN threat_intel = DOMAIN events
  BY <1>1 DEF CInv, Counted, ShownPass, Parsed
<1>3. Len(capture) \in Nat /\ Len(events) \in Nat /\ DOMAIN events = 1..Len(events)
  BY <1>2, CaptureIsSeq, EventsLemma
<1>4. n \in 1..Len(events)
  BY <1>1, <1>2, <1>3
<1>5. e \in EventType
  <2>1. events[n] \in EventType
    BY <1>2, <1>4
  <2> QED
    BY <2>1 DEF EventType, Severities
<1> HIDE DEF e
<1>6. events' \in Seq(EventType) /\ Len(events') = Len(events)
      /\ DOMAIN events' = DOMAIN events
  BY <1>1, <1>2, <1>4, <1>5, ReplaceLemma
<1>7. Counted'
  BY <1>1, <1>2, <1>3, <1>4, <1>6 DEF Counted
<1>8. ShownPass'
  BY <1>1, <1>2 DEF ShownPass
<1> QED
  BY <1>1, <1>2, <1>6, <1>7, <1>8 DEF CInv, Labels

LEMMA FilterKeeps == ASSUME CInv, Filter PROVE CInv'
<1>1. /\ pc = "filter" /\ pc' = "emit" /\ n' = 1
      /\ shown' = {i \in DOMAIN events : Passes(events[i])}
      /\ UNCHANGED <<args, capture, events, threat_intel, outcome>>
  BY DEF Filter
<1>2. Len(capture) \in Nat
  BY CaptureIsSeq DEF CInv
<1>3. Counted' /\ Parsed /\ outcome = "running"
  BY <1>1, <1>2 DEF CInv, Counted, Parsed
<1>4. ShownPass'
  BY <1>1 DEF ShownPass, Passes
<1> QED
  BY <1>1, <1>3, <1>4 DEF CInv, Labels

LEMMA EmitEventKeeps == ASSUME CInv, EmitEvent PROVE CInv'
<1>1. /\ pc = "emit" /\ pc' = "emit" /\ n <= Len(events) /\ n' = n + 1
      /\ UNCHANGED <<args, capture, events, threat_intel, shown, outcome>>
  BY DEF EmitEvent
<1>2. Len(capture) \in Nat /\ Len(events) \in Nat
  BY CaptureIsSeq, EventsLemma DEF CInv
<1>3. Counted' /\ Parsed /\ outcome = "running"
  BY <1>1, <1>2 DEF CInv, Counted, Parsed
<1>4. ShownPass'
  BY <1>1 DEF CInv, ShownPass, Passes
<1> QED
  BY <1>1, <1>3, <1>4 DEF CInv, Labels

LEMMA EmitKeeps == ASSUME CInv, Emit PROVE CInv'
<1>1. /\ pc = "emit" /\ pc' = "exited" /\ outcome' = "done"
      /\ UNCHANGED <<args, capture, n, events, threat_intel, shown>>
  BY DEF Emit, End
<1>2. Counted' /\ Parsed
  BY <1>1 DEF CInv, Counted, Parsed
<1>3. ShownPass'
  BY <1>1 DEF CInv, ShownPass, Passes
<1> QED
  BY <1>1, <1>2, <1>3 DEF CInv, Labels

LEMMA StutterKeeps == ASSUME CInv, UNCHANGED vars PROVE CInv'
<1>1. UNCHANGED <<args, capture, pc, n, events, threat_intel, shown, outcome>>
  BY DEF vars
<1>2. Counted' /\ ShownPass' /\ (Parsed' => Parsed)
  BY <1>1 DEF CInv, Counted, ShownPass, Passes, Parsed
<1> QED
  BY <1>1, <1>2 DEF CInv

LEMMA InitCInv == ASSUME Init PROVE CInv
<1>1. /\ args \in ArgsType /\ capture \in Captures /\ pc = "read" /\ n = 1
      /\ events = <<>> /\ shown = {} /\ outcome = "running"
  BY DEF Init, ArgsType
<1>2. events \in Seq(EventType) /\ Len(events) = 0 /\ Len(capture) \in Nat
  BY <1>1, EmptyLemma, CaptureIsSeq
<1>3. Counted
  BY <1>1, <1>2 DEF Counted
<1>4. ShownPass /\ ~Parsed
  BY <1>1 DEF ShownPass, Parsed
<1> QED
  BY <1>1, <1>2, <1>3, <1>4 DEF CInv, Labels

LEMMA CInvHolds == Spec => []CInv
<1>1. CInv /\ [Next]_vars => CInv'
  <2> SUFFICES ASSUME CInv, [Next]_vars PROVE CInv'
    OBVIOUS
  <2>1. CASE ReadFails
    BY <2>1, EndKeeps DEF ReadFails
  <2>2. CASE Escape
    BY <2>2, EndKeeps DEF Escape
  <2> QED
    BY <2>1, <2>2, StutterKeeps, ReadLinesKeeps, ParseLineKeeps, ParsedAllKeeps,
       FeedsKeep, ScoreEventKeeps, FilterKeeps, EmitEventKeeps, EmitKeeps DEF Next
<1> QED
  BY <1>1, InitCInv, PTL DEF Spec

\* The variables keep their types, and the events and what the feeds say of them stay
\* in step.
THEOREM TypeCorrect == Spec => []TypeOK
<1>1. CInv => TypeOK
  BY CInvTyped
<1> QED
  BY <1>1, CInvHolds, PTL

\* High passes every filter there is.
LEMMA HighPasses ==
  ASSUME NEW e, e.severity = "high", args.min_severity \in Severities \cup {"any"}
  PROVE  Passes(e)
<1>1. SEV_RANK["high"] = 3
  BY DEF SEV_RANK
<1>2. /\ SEV_RANK["info"] = 0 /\ SEV_RANK["low"] = 1 /\ SEV_RANK["medium"] = 2
  BY DEF SEV_RANK
<1>3. CASE args.min_severity = "any"
  BY <1>3 DEF Passes
<1>4. CASE args.min_severity \in Severities
  <2>1. SEV_RANK[args.min_severity] \in 0..3
    BY <1>1, <1>2, <1>4 DEF Severities
  <2> QED
    BY <1>1, <2>1 DEF Passes
<1> QED
  BY <1>3, <1>4

\* Whatever --min-severity hides, the status is 1 exactly when some event is high.
THEOREM StatusIgnoresFilterHolds == Spec => []StatusIgnoresFilter
<1>1. CInv => StatusIgnoresFilter
  <2> SUFFICES ASSUME CInv, outcome = "done"
               PROVE  ExitStatus = 1 <=> \E i \in DOMAIN events : IsHigh(i)
    BY DEF StatusIgnoresFilter
  <2>1. args.min_severity \in Severities \cup {"any"}
    BY FloorsAssumption DEF CInv, ArgsType
  <2>2. shown = {i \in DOMAIN events : Passes(events[i])}
    BY DEF CInv, ShownPass
  <2>3. \A i \in DOMAIN events : IsHigh(i) => i \in shown
    BY <2>1, <2>2, HighPasses DEF IsHigh
  <2>4. ExitStatus = 1 <=> \E i \in shown : IsHigh(i)
    BY DEF ExitStatus
  <2> QED
    BY <2>2, <2>3, <2>4
<1> QED
  BY <1>1, CInvHolds, PTL

-----------------------------------------------------------------------------
(* Which event is which line's, and what the feeds make of it.              *)

\* The events at hand are those of the lines taken, each at the place of its
\* line among the frames; until the feeds are read they are as parsed.
ParseInv ==
  /\ pc = "read" => n = 1 /\ events = <<>>
  /\ pc = "parse" =>
       /\ Len(events) = NumFrames(n - 1)
       /\ \A l \in FrameLines : l < n => events[NumFrames(l)] = FrameEvent(capture[l])

\* The events that were looked up in both feeds: those before n while that goes
\* on, then all of them, or none when a feed is missing.
Scored(i) == \/ pc = "score" /\ i < n
             \/ pc \in {"filter", "emit", "exited"} /\ args.enrich /\ ~warned

Hits(l) == IF Scored(NumFrames(l)) THEN KnownTo(capture[l].src) ELSE {}

Enriched(l) == IF Hits(l) # {} THEN [FrameEvent(capture[l]) EXCEPT !.severity = "high"]
               ELSE FrameEvent(capture[l])

ScoreInv ==
  /\ warned => pc \in {"filter", "emit", "exited"}
  /\ pc \in {"feodo", "threatfox", "score"} => args.enrich
  /\ pc \in {"feodo", "threatfox"} => n = 1
  /\ Parsed => /\ Len(events) = NumFrames(Len(capture))
               /\ \A l \in FrameLines : /\ threat_intel[NumFrames(l)] = Hits(l)
                                        /\ events[NumFrames(l)] = Enriched(l)

LineInv == ParseInv /\ ScoreInv

(* Counting frames *)

UpToLine(m) == {l \in 1..m : IsFrame(capture[l])}

LEMMA PositionsCounted ==
  ASSUME NEW m \in Nat, NEW T \in SUBSET (1..m)
  PROVE  IsFiniteSet(T) /\ Cardinality(T) \in Nat
<1>1. IsFiniteSet(1..m)
  BY FS_Interval
<1>2. IsFiniteSet(T)
  BY <1>1, FS_Subset
<1> QED
  BY <1>2, FS_CardinalityType

LEMMA OnePositionMore ==
  ASSUME NEW m \in Nat, NEW T \in SUBSET (1..m)
  PROVE  Cardinality(T \cup {m + 1}) = Cardinality(T) + 1
BY PositionsCounted, FS_AddElement

LEMMA FramesAreCounted ==
  ASSUME NEW m \in Nat
  PROVE  /\ NumFrames(m) \in Nat
         /\ IsFrame(capture[m + 1]) => NumFrames(m + 1) = NumFrames(m) + 1
         /\ ~IsFrame(capture[m + 1]) => NumFrames(m + 1) = NumFrames(m)
<1>1. UpToLine(m) \in SUBSET (1..m) /\ Cardinality(UpToLine(m)) \in Nat
  BY PositionsCounted DEF UpToLine
<1>2. IsFrame(capture[m + 1]) => UpToLine(m + 1) = UpToLine(m) \cup {m + 1}
  BY DEF UpToLine
<1>3. ~IsFrame(capture[m + 1]) => UpToLine(m + 1) = UpToLine(m)
  BY DEF UpToLine
<1>4. /\ NumFrames(m) = Cardinality(UpToLine(m))
      /\ NumFrames(m + 1) = Cardinality(UpToLine(m + 1))
  BY Zenon DEF NumFrames, UpToLine
<1> QED
  BY <1>1, <1>2, <1>3, <1>4, OnePositionMore

LEMMA NoFrameYet == NumFrames(0) = 0
<1>1. {l \in 1..0 : IsFrame(capture[l])} = {}
  OBVIOUS
<1> QED
  BY <1>1, FS_EmptySet DEF NumFrames

LEMMA FramesGrow ==
  ASSUME NEW m \in Nat, NEW k \in Nat, k <= m
  PROVE  NumFrames(k) <= NumFrames(m)
<1>1. UpToLine(k) \subseteq UpToLine(m) /\ UpToLine(m) \in SUBSET (1..m)
  BY DEF UpToLine
<1>2. IsFiniteSet(UpToLine(m))
  BY <1>1, PositionsCounted
<1>3. Cardinality(UpToLine(k)) <= Cardinality(UpToLine(m))
  BY <1>1, <1>2, FS_Subset
<1>4. /\ NumFrames(m) = Cardinality(UpToLine(m))
      /\ NumFrames(k) = Cardinality(UpToLine(k))
  BY Zenon DEF NumFrames, UpToLine
<1> QED
  BY <1>3, <1>4

\* A frame has a place of its own among the frames of the lines taken.
LEMMA PlaceOfFrame ==
  ASSUME capture \in Captures, NEW l \in FrameLines
  PROVE  /\ l \in Nat /\ l >= 1 /\ l <= Len(capture) /\ NumFrames(l) \in Nat
         /\ NumFrames(l) >= 1
         /\ NumFrames(l) = NumFrames(l - 1) + 1
         /\ \A m \in Nat : l <= m => NumFrames(l) <= NumFrames(m)
<1>1. l \in 1..Len(capture) /\ IsFrame(capture[l])
  BY CaptureIsSeq DEF FrameLines
<1>2. l \in Nat /\ l - 1 \in Nat /\ (l - 1) + 1 = l
  BY <1>1, CaptureIsSeq
<1>3. NumFrames(l) = NumFrames(l - 1) + 1 /\ NumFrames(l - 1) \in Nat
  BY <1>1, <1>2, FramesAreCounted
<1> QED
  BY <1>1, <1>2, <1>3, FramesGrow, CaptureIsSeq

LEMMA PlacesDiffer ==
  ASSUME capture \in Captures, NEW k \in FrameLines, NEW l \in FrameLines, k # l
  PROVE  NumFrames(k) # NumFrames(l)
<1>1. ASSUME NEW a \in FrameLines, NEW b \in FrameLines, a < b
      PROVE  NumFrames(a) < NumFrames(b)
  <2>1. a \in Nat /\ b \in Nat /\ a <= b - 1 /\ b - 1 \in Nat
    BY <1>1, PlaceOfFrame
  <2>2. NumFrames(a) <= NumFrames(b - 1) /\ NumFrames(b) = NumFrames(b - 1) + 1
        /\ NumFrames(a) \in Nat /\ NumFrames(b - 1) \in Nat
    BY <2>1, PlaceOfFrame, FramesAreCounted
  <2> QED
    BY <2>2
<1>2. k \in Nat /\ l \in Nat /\ NumFrames(k) \in Nat /\ NumFrames(l) \in Nat
  BY PlaceOfFrame
<1>3. k < l \/ l < k
  BY <1>2
<1>4. NumFrames(k) < NumFrames(l) \/ NumFrames(l) < NumFrames(k)
  BY <1>1, <1>3
<1> QED
  BY <1>2, <1>4

LEMMA SameCapture ==
  ASSUME capture' = capture
  PROVE  /\ FrameLines' = FrameLines
         /\ \A m : NumFrames(m)' = NumFrames(m)
BY Zenon DEF FrameLines, NumFrames

(* What the feeds say of a source *)

LEMMA BlankHasNoFamily == Blank.family = "none" /\ norm_ip(Blank) = Blank
<1>1. Blank.family = "none"
  BY Zenon DEF Blank
<1>2. "none" # "v4"
  OBVIOUS
<1> QED
  BY <1>1, <1>2, Zenon DEF norm_ip

LEMMA NormTwice ==
  ASSUME NEW a, a = [host |-> a.host, port |-> a.port, family |-> a.family]
  PROVE  /\ norm_ip(norm_ip(a)) = norm_ip(a)
         /\ norm_ip(a) = Blank <=> a = Blank
<1>1. CASE a.family = "v4"
  <2>1. norm_ip(a) = [a EXCEPT !.port = None]
    BY <1>1 DEF norm_ip
  <2>2. PICK b : b = [a EXCEPT !.port = None]
    OBVIOUS
  <2>3. b.family = "v4"
    BY <1>1, <2>2
  <2>4. [b EXCEPT !.port = None] = b
    BY <2>2
  <2>5. norm_ip(b) = b
    BY <2>3, <2>4 DEF norm_ip
  <2>6. b # Blank /\ a # Blank
    BY <1>1, <2>3, BlankHasNoFamily
  <2> QED
    BY <2>1, <2>2, <2>5, <2>6
<1>2. CASE a.family # "v4"
  <2>1. norm_ip(a) = a
    BY <1>2 DEF norm_ip
  <2> QED
    BY <2>1
<1> QED
  BY <1>1, <1>2

LEMMA SourceIsAddress ==
  ASSUME capture \in Captures, NEW l \in FrameLines
  PROVE  LET a == capture[l].src
         IN  a = [host |-> a.host, port |-> a.port, family |-> a.family]
BY SourcesAssumption DEF FrameLines

LEMMA ScoreIsKnown ==
  ASSUME capture \in Captures, NEW l \in FrameLines
  PROVE  score_ip(norm_ip(capture[l].src)) = KnownTo(capture[l].src)
<1>1. PICK a : a = capture[l].src
  OBVIOUS
<1>2. /\ norm_ip(norm_ip(a)) = norm_ip(a)
      /\ norm_ip(a) = Blank <=> a = Blank
  BY <1>1, SourceIsAddress, NormTwice
<1>3. CASE a = Blank
  <2>1. score_ip(norm_ip(a)) = {}
    BY <1>2, <1>3 DEF score_ip
  <2>2. KnownTo(a) = {}
    BY <1>3 DEF KnownTo
  <2> QED
    BY <1>1, <2>1, <2>2
<1>4. CASE a # Blank
  <2>1. score_ip(norm_ip(a)) = (IF norm_ip(a) \in feodo THEN {"feodo-c2"} ELSE {})
                               \cup (IF norm_ip(a) \in threatfox THEN {"threatfox"} ELSE {})
    BY <1>2, <1>4 DEF score_ip
  <2>2. KnownTo(a) = {f \in {"feodo-c2", "threatfox"} :
                        norm_ip(a) \in (IF f = "feodo-c2" THEN feodo ELSE threatfox)}
    BY <1>4 DEF KnownTo
  <2>3. score_ip(norm_ip(a)) = KnownTo(a)
    BY <2>1, <2>2
  <2> QED
    BY <1>1, <2>3
<1> QED
  BY <1>3, <1>4

LEMMA SourceKept == \A l : FrameEvent(l).src = l.src
BY DEF FrameEvent, EventOf, unparseable_event, frame_to_event

LEMMA LineTypes ==
  ASSUME CInv
  PROVE  /\ capture \in Captures /\ Len(capture) \in Nat /\ Len(events) \in Nat
         /\ DOMAIN events = 1..Len(events) /\ n \in Nat
BY CaptureIsSeq, EventsLemma DEF CInv, Counted

LEMMA PlaceInEvents ==
  ASSUME CInv, Parsed, ScoreInv, NEW l \in FrameLines
  PROVE  NumFrames(l) \in 1..Len(events)
<1>1. Len(events) = NumFrames(Len(capture)) /\ Len(capture) \in Nat /\ capture \in Captures
  BY LineTypes DEF ScoreInv
<1>2. /\ l <= Len(capture) /\ NumFrames(l) >= 1 /\ NumFrames(l) \in Nat
      /\ NumFrames(l) <= NumFrames(Len(capture))
  BY <1>1, PlaceOfFrame
<1> QED
  BY <1>1, <1>2, FramesAreCounted

LEMMA ParseLineKeepsLines == ASSUME CInv, LineInv, ParseLine PROVE LineInv'
<1>1. /\ pc = "parse" /\ pc' = "parse" /\ n <= Len(capture) /\ n' = n + 1
      /\ UNCHANGED <<args, capture, threat_intel, outcome, warned>>
      /\ events' = IF IsFrame(capture[n]) THEN Append(events, FrameEvent(capture[n]))
                   ELSE events
  BY DEF ParseLine
<1>2. /\ capture \in Captures /\ events \in Seq(EventType) /\ outcome = "running"
      /\ n \in Nat /\ n - 1 \in Nat /\ (n - 1) + 1 = n /\ n \in 1..Len(capture)
      /\ Len(events) \in Nat /\ DOMAIN events = 1..Len(events)
  BY <1>1, LineTypes DEF CInv, Counted
<1>3. /\ Len(events) = NumFrames(n - 1)
      /\ \A l \in FrameLines : l < n => events[NumFrames(l)] = FrameEvent(capture[l])
  BY <1>1 DEF LineInv, ParseInv
<1>4. \A l \in FrameLines : l < n => NumFrames(l) \in 1..Len(events)
  <2>1. ASSUME NEW l \in FrameLines, l < n PROVE NumFrames(l) \in 1..Len(events)
    <3>1. l \in Nat /\ l <= n - 1 /\ NumFrames(l) >= 1 /\ NumFrames(l) \in Nat
          /\ NumFrames(l) <= NumFrames(n - 1)
      BY <1>2, <2>1, PlaceOfFrame
    <3> QED
      BY <1>2, <1>3, <3>1
  <2> QED
    BY <2>1
<1>5. /\ Len(events') = NumFrames(n)
      /\ \A l \in FrameLines : l < n + 1 => events'[NumFrames(l)] = FrameEvent(capture[l])
  <2>1. CASE IsFrame(capture[n])
    <3>1. FrameEvent(capture[n]) \in EventType
      BY <1>2, CaptureIsSeq, EventTyped
    <3>2. PICK e \in EventType : e = FrameEvent(capture[n]) /\ events' = Append(events, e)
      BY <1>1, <2>1, <3>1
    <3>3. /\ Len(events') = Len(events) + 1
          /\ \A i \in 1..Len(events) : events'[i] = events[i]
          /\ events'[Len(events) + 1] = e
      BY <1>2, <3>2
    <3>4. NumFrames(n) = Len(events) + 1
      BY <1>2, <1>3, <2>1, FramesAreCounted
    <3>5. ASSUME NEW l \in FrameLines, l < n + 1
          PROVE  events'[NumFrames(l)] = FrameEvent(capture[l])
      <4>1. l \in Nat
        BY <1>2, PlaceOfFrame
      <4>2. CASE l = n
        BY <3>2, <3>3, <3>4, <4>2
      <4>3. CASE l < n
        BY <1>3, <1>4, <3>3, <4>3
      <4> QED
        BY <1>2, <3>5, <4>1, <4>2, <4>3
    <3> QED
      BY <3>3, <3>4, <3>5
  <2>2. CASE ~IsFrame(capture[n])
    <3>1. NumFrames(n) = Len(events) /\ events' = events
      BY <1>1, <1>2, <1>3, <2>2, FramesAreCounted
    <3>2. \A l \in FrameLines : l # n /\ l \in Nat
      BY <1>2, <2>2, PlaceOfFrame DEF FrameLines
    <3>3. \A l \in FrameLines : l < n + 1 => l < n
      BY <1>2, <3>2
    <3> QED
      BY <1>3, <3>1, <3>3
  <2> QED
    BY <2>1, <2>2
<1>6. ParseInv'
  <2>1. n' - 1 = n
    BY <1>1, <1>2
  <2> QED
    BY <1>1, <1>5, <2>1, SameCapture DEF ParseInv
<1>7. ScoreInv'
  BY <1>1, <1>2 DEF LineInv, ScoreInv, Parsed
<1> QED
  BY <1>6, <1>7 DEF LineInv

LEMMA ParsedAllKeepsLines == ASSUME CInv, LineInv, ParsedAll PROVE LineInv'
<1>1. /\ pc = "parse" /\ n > Len(capture) /\ n' = 1
      /\ pc' = IF args.enrich THEN "feodo" ELSE "filter"
      /\ threat_intel' = [i \in DOMAIN events |-> {}]
      /\ UNCHANGED <<args, capture, events, warned, outcome>>
  BY DEF ParsedAll
<1>2. /\ capture \in Captures /\ Len(capture) \in Nat /\ Len(events) \in Nat
      /\ DOMAIN events = 1..Len(events) /\ n = Len(capture) + 1
  BY <1>1, LineTypes DEF CInv, Counted
<1>3. n - 1 = Len(capture)
  BY <1>2
<1>4. /\ Len(events) = NumFrames(Len(capture))
      /\ \A l \in FrameLines : l < n => events[NumFrames(l)] = FrameEvent(capture[l])
  BY <1>1, <1>3 DEF LineInv, ParseInv
<1>5. \A l \in FrameLines : l < n /\ NumFrames(l) \in DOMAIN events
  <2>1. ASSUME NEW l \in FrameLines PROVE l < n /\ NumFrames(l) \in DOMAIN events
    <3>1. /\ l \in Nat /\ l <= Len(capture) /\ NumFrames(l) >= 1 /\ NumFrames(l) \in Nat
          /\ NumFrames(l) <= NumFrames(Len(capture))
      BY <1>2, PlaceOfFrame
    <3> QED
      BY <1>2, <1>4, <3>1
  <2> QED
    BY <2>1
<1>6. ~warned'
  BY <1>1 DEF LineInv, ScoreInv
<1>7. \A l : ~Scored(NumFrames(l))'
  BY <1>1 DEF Scored
<1>8. \A l : Hits(l)' = {} /\ Enriched(l)' = FrameEvent(capture[l])
  BY <1>1, <1>7 DEF Hits, Enriched
<1>9. \A l \in FrameLines : /\ threat_intel'[NumFrames(l)] = Hits(l)'
                            /\ events'[NumFrames(l)] = Enriched(l)'
  BY <1>1, <1>4, <1>5, <1>8
<1>10. ScoreInv'
  <2>1. \A l \in FrameLines' : /\ threat_intel'[NumFrames(l)'] = Hits(l)'
                               /\ events'[NumFrames(l)'] = Enriched(l)'
    BY <1>1, <1>9, SameCapture
  <2>2. Len(events') = NumFrames(Len(capture))'
    BY <1>1, <1>4, SameCapture
  <2> QED
    BY <1>1, <1>6, <2>1, <2>2 DEF ScoreInv
<1> QED
  BY <1>1, <1>10 DEF LineInv, ParseInv

\* A step that leaves the events alone, and every event as scored as it was.
LEMMA SettledKeepsLines ==
  ASSUME CInv, LineInv, Parsed, pc' \notin {"read", "parse"},
         UNCHANGED <<args, capture, events, threat_intel>>,
         warned' => pc' \in {"filter", "emit", "exited"},
         pc' \in {"feodo", "threatfox", "score"} => args.enrich,
         pc' \in {"feodo", "threatfox"} => n' = 1,
         \A i \in 1..Len(events) : Scored(i)' <=> Scored(i),
         \A i \in 1..Len(events) : Scored(i) => UNCHANGED <<feodo, threatfox>>
  PROVE  LineInv'
<1>1. ScoreInv
  BY DEF LineInv
<1>2. ASSUME NEW l \in FrameLines
      PROVE  Hits(l)' = Hits(l) /\ Enriched(l)' = Enriched(l)
  <2>1. NumFrames(l) \in 1..Len(events) /\ NumFrames(l)' = NumFrames(l)
    BY <1>1, PlaceInEvents, SameCapture
  <2>2. PICK i \in 1..Len(events) : i = NumFrames(l)
    BY <2>1
  <2>3. Scored(NumFrames(l))' <=> Scored(NumFrames(l))
    BY <2>1, <2>2 DEF Scored
  <2>4. CASE Scored(NumFrames(l))
    <3>1. UNCHANGED <<feodo, threatfox>>
      BY <2>2, <2>4
    <3>2. KnownTo(capture[l].src)' = KnownTo(capture[l].src)
      BY <3>1 DEF KnownTo
    <3> QED
      BY <2>3, <2>4, <3>2 DEF Hits, Enriched
  <2>5. CASE ~Scored(NumFrames(l))
    BY <2>3, <2>5 DEF Hits, Enriched
  <2> QED
    BY <2>4, <2>5
<1>3. /\ Len(events) = NumFrames(Len(capture))
      /\ \A l \in FrameLines : /\ threat_intel[NumFrames(l)] = Hits(l)
                               /\ events[NumFrames(l)] = Enriched(l)
  BY <1>1 DEF ScoreInv
<1>4. /\ Len(events') = NumFrames(Len(capture))'
      /\ \A l \in FrameLines' : /\ threat_intel'[NumFrames(l)'] = Hits(l)'
                                /\ events'[NumFrames(l)'] = Enriched(l)'
  BY <1>2, <1>3, SameCapture
<1> QED
  BY <1>4 DEF LineInv, ParseInv, ScoreInv

LEMMA ScoreEventKeepsLines == ASSUME CInv, LineInv, ScoreEvent PROVE LineInv'
<1>1. /\ pc = "score" /\ pc' = "score" /\ n <= Len(events) /\ n' = n + 1
      /\ UNCHANGED <<args, capture, feodo, threatfox, warned, outcome>>
      /\ Parsed
  BY DEF ScoreEvent, Parsed
<1>2. PICK hit : hit = score_ip(norm_ip(events[n].src))
  OBVIOUS
<1>3. /\ threat_intel' = [threat_intel EXCEPT ![n] = hit]
      /\ events' = IF hit = {} THEN events ELSE [events EXCEPT ![n].severity = "high"]
  BY <1>2 DEF ScoreEvent
<1>4. /\ capture \in Captures /\ Len(events) \in Nat /\ n \in 1..Len(events)
      /\ DOMAIN events = 1..Len(events) /\ DOMAIN threat_intel = 1..Len(events)
      /\ n \in Nat /\ events \in Seq(EventType)
  BY <1>1, LineTypes DEF CInv, Counted
<1>5. /\ ScoreInv /\ ~warned /\ args.enrich
      /\ Len(events) = NumFrames(Len(capture))
      /\ \A l \in FrameLines : /\ threat_intel[NumFrames(l)] = Hits(l)
                               /\ events[NumFrames(l)] = Enriched(l)
  BY <1>1 DEF LineInv, ScoreInv
<1>6. ASSUME NEW l \in FrameLines
      PROVE  threat_intel'[NumFrames(l)] = Hits(l)' /\ events'[NumFrames(l)] = Enriched(l)'
  <2>1. PICK i \in 1..Len(events) : i = NumFrames(l) /\ NumFrames(l)' = i
    BY <1>1, <1>5, PlaceInEvents, SameCapture
  <2>2. KnownTo(capture[l].src)' = KnownTo(capture[l].src)
    BY <1>1 DEF KnownTo
  <2>3. CASE i = n
    <3>1. ~Scored(NumFrames(l)) /\ Scored(NumFrames(l))'
      BY <1>1, <1>4, <2>1, <2>3 DEF Scored
    <3>2. /\ threat_intel[n] = {} /\ events[n] = FrameEvent(capture[l])
          /\ Hits(l)' = KnownTo(capture[l].src)
      BY <1>5, <2>1, <2>2, <2>3, <3>1 DEF Hits, Enriched
    <3>3. hit = KnownTo(capture[l].src)
      BY <1>2, <1>4, <3>2, SourceKept, ScoreIsKnown
    <3>4. threat_intel'[n] = hit
      BY <1>3, <1>4
    <3>5. events'[n] = IF hit = {} THEN FrameEvent(capture[l])
                       ELSE [FrameEvent(capture[l]) EXCEPT !.severity = "high"]
      BY <1>3, <1>4, <3>2
    <3>6. Enriched(l)' = IF hit = {} THEN FrameEvent(capture[l])
                         ELSE [FrameEvent(capture[l]) EXCEPT !.severity = "high"]
      BY <1>1, <3>2, <3>3 DEF Enriched
    <3> QED
      BY <2>1, <2>3, <3>2, <3>3, <3>4, <3>5, <3>6
  <2>4. CASE i # n
    <3>1. Scored(NumFrames(l))' <=> Scored(NumFrames(l))
      BY <1>1, <1>4, <2>1, <2>4 DEF Scored
    <3>2. Hits(l)' = Hits(l)
      BY <2>2, <3>1 DEF Hits
    <3>3. Enriched(l)' = Enriched(l)
      BY <1>1, <3>2 DEF Enriched
    <3>4. threat_intel'[i] = threat_intel[i] /\ events'[i] = events[i]
      BY <1>3, <1>4, <2>4
    <3> QED
      BY <1>5, <2>1, <3>2, <3>3, <3>4
  <2> QED
    BY <2>3, <2>4
<1>7. Len(events') = Len(events)
  BY <1>3, <1>4
<1>8. \A l \in FrameLines' : /\ threat_intel'[NumFrames(l)'] = Hits(l)'
                             /\ events'[NumFrames(l)'] = Enriched(l)'
  BY <1>1, <1>6, SameCapture
<1>9. Len(events') = NumFrames(Len(capture))'
  BY <1>1, <1>5, <1>7, SameCapture
<1> QED
  BY <1>1, <1>5, <1>8, <1>9 DEF LineInv, ParseInv, ScoreInv

LEMMA FeedStepsKeepLines ==
  ASSUME CInv, LineInv, LoadFeodo \/ LoadThreatfox \/ FeedUnavailable
  PROVE  LineInv'
<1>1. /\ pc \in {"feodo", "threatfox"} /\ pc' \in {"threatfox", "score", "filter"}
      /\ UNCHANGED <<args, capture, n, events, threat_intel>>
      /\ pc' = "filter" => warned'
      /\ pc' # "filter" => warned' = warned
      /\ Parsed
  BY DEF LoadFeodo, LoadThreatfox, FeedUnavailable, Parsed
<1>2. n = 1 /\ args.enrich /\ ~warned
  BY <1>1 DEF LineInv, ScoreInv
<1>3. \A i \in 1..Len(events) : ~Scored(i) /\ ~Scored(i)'
  BY <1>1, <1>2, LineTypes DEF Scored
<1> QED
  BY <1>1, <1>2, <1>3, SettledKeepsLines

LEMMA ScoredAllKeepsLines == ASSUME CInv, LineInv, ScoredAll PROVE LineInv'
<1>1. /\ pc = "score" /\ pc' = "filter" /\ n > Len(events)
      /\ UNCHANGED <<args, capture, n, events, threat_intel, feodo, threatfox, warned>>
      /\ Parsed
  BY DEF ScoredAll, Parsed
<1>2. args.enrich /\ ~warned /\ n \in Nat /\ Len(events) \in Nat
  BY <1>1, LineTypes DEF LineInv, ScoreInv
<1>3. \A i \in 1..Len(events) : Scored(i) /\ Scored(i)'
  BY <1>1, <1>2 DEF Scored
<1> QED
  BY <1>1, <1>2, <1>3, SettledKeepsLines

LEMMA OutputStepsKeepLines ==
  ASSUME CInv, LineInv, Filter \/ EmitEvent \/ Emit
  PROVE  LineInv'
<1>1. /\ pc \in {"filter", "emit"} /\ pc' \in {"emit", "exited"}
      /\ UNCHANGED <<args, capture, events, threat_intel, feodo, threatfox, warned>>
      /\ Parsed
  BY DEF Filter, EmitEvent, Emit, End, Parsed
<1>2. \A i \in 1..Len(events) : Scored(i)' <=> Scored(i)
  BY <1>1 DEF Scored
<1> QED
  BY <1>1, <1>2, SettledKeepsLines

\* An exit without output leaves nothing to be said of the events.
LEMMA EarlyExitKeepsLines ==
  ASSUME LineInv, NEW how \in {"unreadable", "escaped"}, End(how)
  PROVE  LineInv'
<1>1. pc' = "exited" /\ ~Parsed'
  BY DEF End, Parsed
<1> QED
  BY <1>1 DEF LineInv, ParseInv, ScoreInv

LEMMA ReadLinesKeepsLines == ASSUME CInv, LineInv, ReadLines PROVE LineInv'
<1>1. /\ pc = "read" /\ pc' = "parse"
      /\ UNCHANGED <<args, capture, n, events, threat_intel, outcome, warned>>
  BY DEF ReadLines
<1>2. n = 1 /\ events = <<>> /\ capture \in Captures /\ outcome = "running"
  BY <1>1 DEF LineInv, ParseInv, CInv
<1>3. Len(events) = NumFrames(0) /\ Len(events') = Len(events)
  BY <1>1, <1>2, NoFrameYet, EmptyLemma
<1>4. \A l \in FrameLines : ~(l < 1)
  <2>1. \A l \in FrameLines : l \in Nat /\ l >= 1
    BY <1>2, PlaceOfFrame
  <2> QED
    BY <2>1
<1>5. ParseInv'
  <2>1. n' = 1 /\ n' - 1 = 0
    BY <1>1, <1>2
  <2>2. NumFrames(n - 1)' = NumFrames(0)
    BY <1>1, <2>1, SameCapture
  <2> QED
    BY <1>1, <1>3, <1>4, <2>1, <2>2, SameCapture DEF ParseInv
<1>6. ScoreInv'
  BY <1>1, <1>2 DEF LineInv, ScoreInv, Parsed
<1> QED
  BY <1>5, <1>6 DEF LineInv

LEMMA StutterKeepsLines == ASSUME LineInv, UNCHANGED vars PROVE LineInv'
<1>1. UNCHANGED <<args, capture, pc, n, events, threat_intel, feodo, threatfox, outcome,
                  warned>>
  BY DEF vars
<1>2. \A m : NumFrames(m)' = NumFrames(m)
  BY <1>1, SameCapture
<1>3. FrameLines' = FrameLines /\ (Parsed' <=> Parsed)
  BY <1>1, SameCapture DEF Parsed
<1>4. NumFrames(n - 1)' = NumFrames(n - 1)
      /\ NumFrames(Len(capture))' = NumFrames(Len(capture))
  BY <1>1, SameCapture
<1>5. ParseInv'
  BY <1>1, <1>2, <1>3, <1>4 DEF LineInv, ParseInv
<1>6. ASSUME NEW l PROVE Hits(l)' = Hits(l) /\ Enriched(l)' = Enriched(l)
  <2>1. KnownTo(capture[l].src)' = KnownTo(capture[l].src)
    BY <1>1 DEF KnownTo
  <2>2. Scored(NumFrames(l))' <=> Scored(NumFrames(l))
    BY <1>1, <1>2 DEF Scored
  <2> QED
    BY <1>1, <2>1, <2>2 DEF Hits, Enriched
<1>7. ScoreInv'
  BY <1>1, <1>2, <1>3, <1>4, <1>6 DEF LineInv, ScoreInv
<1> QED
  BY <1>5, <1>7 DEF LineInv

LEMMA LineInvHolds == Spec => []LineInv
<1>1. Init => LineInv
  BY DEF Init, LineInv, ParseInv, ScoreInv, Parsed
<1>2. CInv /\ LineInv /\ [Next]_vars => LineInv'
  <2> SUFFICES ASSUME CInv, LineInv, [Next]_vars PROVE LineInv'
    OBVIOUS
  <2>1. CASE ReadFails
    BY <2>1, EarlyExitKeepsLines DEF ReadFails
  <2>2. CASE Escape
    BY <2>2, EarlyExitKeepsLines DEF Escape
  <2> QED
    BY <2>1, <2>2, StutterKeepsLines, ReadLinesKeepsLines, ParseLineKeepsLines,
       ParsedAllKeepsLines, FeedStepsKeepLines, ScoreEventKeepsLines,
       ScoredAllKeepsLines, OutputStepsKeepLines DEF Next
<1> QED
  BY <1>1, <1>2, CInvHolds, PTL DEF Spec

\* Nothing disappears: every frame of a capture of any length, a malformed one
\* included, has its event at its place, changed in nothing but the severity.
THEOREM EventsFollowCaptureHolds == Spec => []EventsFollowCapture
<1>1. LineInv => EventsFollowCapture
  <2> SUFFICES ASSUME LineInv, Parsed
               PROVE  /\ Len(events) = NumFrames(Len(capture))
                      /\ \A l \in FrameLines :
                           events[NumFrames(l)] \in
                             {FrameEvent(capture[l]),
                              [FrameEvent(capture[l]) EXCEPT !.severity = "high"]}
    BY DEF EventsFollowCapture
  <2> QED
    BY DEF LineInv, ScoreInv, Enriched
<1> QED
  BY <1>1, LineInvHolds, PTL

\* Enrichment takes both feeds or none, for any feeds and however many events: the
\* feeds an event carries are those that know its source, and those alone raise it.
THEOREM EnrichAllOrNothingHolds == Spec => []EnrichAllOrNothing
<1>1. CInv /\ LineInv => EnrichAllOrNothing
  <2> SUFFICES ASSUME CInv, LineInv, Parsed, pc \notin {"feodo", "threatfox", "score"},
                      NEW l \in FrameLines,
                      NEW hits,
                      hits = IF args.enrich /\ ~warned THEN KnownTo(capture[l].src) ELSE {}
               PROVE  /\ threat_intel[NumFrames(l)] = hits
                      /\ events[NumFrames(l)].severity =
                           IF hits # {} THEN "high" ELSE FrameEvent(capture[l]).severity
    BY DEF EnrichAllOrNothing
  <2>1. pc \in {"filter", "emit", "exited"}
    BY DEF CInv, Labels, Parsed
  <2>2. Hits(l) = hits
    BY <2>1 DEF Hits, Scored
  <2>3. threat_intel[NumFrames(l)] = hits /\ events[NumFrames(l)] = Enriched(l)
    BY <2>2 DEF LineInv, ScoreInv
  <2>4. CASE hits # {}
    <3>1. events[NumFrames(l)] = [FrameEvent(capture[l]) EXCEPT !.severity = "high"]
      BY <2>2, <2>3, <2>4 DEF Enriched
    <3>2. capture[l] \in AllLines
      BY CaptureIsSeq DEF CInv, FrameLines
    <3>3. FrameEvent(capture[l]) \in EventType
      BY <3>2, EventTyped
    <3>4. events[NumFrames(l)].severity = "high"
      BY <3>1, <3>3 DEF EventType
    <3> QED
      BY <2>3, <2>4, <3>4
  <2>5. CASE hits = {}
    BY <2>2, <2>3, <2>5 DEF Enriched
  <2> QED
    BY <2>4, <2>5
<1> QED
  BY <1>1, CInvHolds, LineInvHolds, PTL

-----------------------------------------------------------------------------
(* The summary                                                             *)

\* How many of the events in I have the value x in a field.
CountOf(field, I, x) == Cardinality({i \in I : events[i][field] = x})

TouchedBy(I) == [s \in {SourceOf(events[i]) : i \in I} |-> AddressesOf(s, I)]

\* What the loop of summarize_events has counted after the events in I.
CountsOf(I) == [ by_severity |-> Tally("severity", I),
                 by_category |-> Tally("category", I),
                 by_function |-> Tally("function_code", I),
                 sources     |-> TouchedBy(I) ]

LEMMA TallyIs ==
  ASSUME NEW field, NEW I
  PROVE  Tally(field, I) = [x \in {events[i][field] : i \in I} |-> CountOf(field, I, x)]
BY Zenon DEF Tally, CountOf

LEMMA OneMoreCounted ==
  ASSUME NEW field, NEW m \in Nat, NEW I \in SUBSET (1..m), NEW x
  PROVE  /\ CountOf(field, I, x) \in Nat
         /\ CountOf(field, I \cup {m + 1}, x) =
              IF events[m + 1][field] = x THEN CountOf(field, I, x) + 1
              ELSE CountOf(field, I, x)
         /\ x \notin {events[i][field] : i \in I} => CountOf(field, I, x) = 0
<1> DEFINE T == {i \in I : events[i][field] = x}
           U == {i \in I \cup {m + 1} : events[i][field] = x}
<1>1. T \in SUBSET (1..m)
  OBVIOUS
<1>2. events[m + 1][field] = x => U = T \cup {m + 1}
  OBVIOUS
<1>3. events[m + 1][field] # x => U = T
  OBVIOUS
<1>4. x \notin {events[i][field] : i \in I} => T = {}
  OBVIOUS
<1>5. CountOf(field, I, x) = Cardinality(T) /\ CountOf(field, I \cup {m + 1}, x) = Cardinality(U)
  BY Zenon DEF CountOf
<1> HIDE DEF T, U
<1>6. Cardinality(T) \in Nat /\ Cardinality(T \cup {m + 1}) = Cardinality(T) + 1
  BY <1>1, PositionsCounted, OnePositionMore
<1>7. x \notin {events[i][field] : i \in I} => Cardinality(T) = 0
  BY <1>4, FS_EmptySet
<1> QED
  BY <1>2, <1>3, <1>5, <1>6, <1>7

LEMMA TallyAdds ==
  ASSUME NEW field, NEW m \in Nat, NEW I \in SUBSET (1..m)
  PROVE  BagAdd(Tally(field, I), events[m + 1][field]) = Tally(field, I \cup {m + 1})
<1> DEFINE v == events[m + 1][field]
           D == {events[i][field] : i \in I}
           B == Tally(field, I)
<1>1. {events[i][field] : i \in I \cup {m + 1}} = D \cup {v}
  OBVIOUS
<1>2. DOMAIN B = D /\ \A x \in D : B[x] = CountOf(field, I, x)
  BY TallyIs
<1>3. Tally(field, I \cup {m + 1}) =
        [x \in D \cup {v} |-> IF x = v THEN CountOf(field, I, x) + 1 ELSE CountOf(field, I, x)]
  <2>1. Tally(field, I \cup {m + 1}) = [x \in D \cup {v} |-> CountOf(field, I \cup {m + 1}, x)]
    BY <1>1, TallyIs
  <2>2. \A x : CountOf(field, I \cup {m + 1}, x) =
                 IF x = v THEN CountOf(field, I, x) + 1 ELSE CountOf(field, I, x)
    BY OneMoreCounted
  <2> HIDE DEF v, D
  <2> QED
    BY <2>1, <2>2
<1>4. v \notin D => CountOf(field, I, v) + 1 = 1
  <2>1. \A x : x \notin D => CountOf(field, I, x) = 0
    BY OneMoreCounted
  <2>2. v \notin D => CountOf(field, I, v) = 0
    <3> HIDE DEF v, D
    <3> QED
      BY <2>1
  <2> HIDE DEF v, D
  <2> QED
    BY <2>2
<1> HIDE DEF v, D, B
<1>5. BagAdd(B, v) =
        [x \in D \cup {v} |-> IF x = v THEN CountOf(field, I, x) + 1 ELSE CountOf(field, I, x)]
  <2>1. CASE v \in D
    <3>1. BagAdd(B, v) = [x \in D |-> IF x = v THEN B[x] + 1 ELSE B[x]]
      BY <1>2, <2>1 DEF BagAdd
    <3>2. D \cup {v} = D
      BY <2>1
    <3> QED
      BY <1>2, <3>1, <3>2
  <2>2. CASE v \notin D
    <3>1. BagAdd(B, v) = [x \in D \cup {v} |-> IF x = v THEN 1 ELSE B[x]]
      BY <1>2, <2>2 DEF BagAdd
    <3> QED
      BY <1>2, <1>4, <2>2, <3>1
  <2> QED
    BY <2>1, <2>2
<1> QED
  BY <1>3, <1>5 DEF v, B

LEMMA SourcesAdd ==
  ASSUME NEW I, NEW j
  PROVE  AddAddress(TouchedBy(I), events[j]) = TouchedBy(I \cup {j})
<1> DEFINE S    == {SourceOf(events[i]) : i \in I}
           src  == SourceOf(events[j])
           addr == IF events[j].address = None THEN {} ELSE {events[j].address}
<1>1. {SourceOf(events[i]) : i \in I \cup {j}} = S \cup {src}
  OBVIOUS
<1>2. ASSUME NEW s
      PROVE  AddressesOf(s, I \cup {j}) = AddressesOf(s, I) \cup (IF s = src THEN addr ELSE {})
  BY DEF AddressesOf
<1>3. ASSUME NEW s PROVE Touched(TouchedBy(I), s) = AddressesOf(s, I)
  <2>1. DOMAIN TouchedBy(I) = S /\ \A t \in S : TouchedBy(I)[t] = AddressesOf(t, I)
    BY DEF TouchedBy
  <2>2. s \notin S => AddressesOf(s, I) = {}
    BY DEF AddressesOf
  <2> QED
    BY <2>1, <2>2 DEF Touched
<1>4. AddAddress(TouchedBy(I), events[j]) =
        [s \in DOMAIN TouchedBy(I) \cup {src} |->
           Touched(TouchedBy(I), s) \cup (IF s = src THEN addr ELSE {})]
  BY Zenon DEF AddAddress
<1>5. DOMAIN TouchedBy(I) = S
  BY DEF TouchedBy
<1>6. TouchedBy(I \cup {j}) = [s \in S \cup {src} |-> AddressesOf(s, I \cup {j})]
  BY <1>1, Zenon DEF TouchedBy
<1> HIDE DEF S, src, addr
<1>7. \A s : Touched(TouchedBy(I), s) \cup (IF s = src THEN addr ELSE {})
              = AddressesOf(s, I \cup {j})
  BY <1>2, <1>3
<1> QED
  BY <1>4, <1>5, <1>6, <1>7

LEMMA CountsAdd ==
  ASSUME NEW m \in Nat, NEW I \in SUBSET (1..m)
  PROVE  CountEvent(CountsOf(I), events[m + 1]) = CountsOf(I \cup {m + 1})
<1>1. /\ BagAdd(Tally("severity", I), events[m + 1].severity) = Tally("severity", I \cup {m + 1})
      /\ BagAdd(Tally("category", I), events[m + 1].category) = Tally("category", I \cup {m + 1})
      /\ BagAdd(Tally("function_code", I), events[m + 1].function_code)
           = Tally("function_code", I \cup {m + 1})
  BY TallyAdds
<1> QED
  BY <1>1, SourcesAdd DEF CountEvent, CountsOf

LEMMA CountsStart == CountsOf({}) = EmptyCounts
<1>1. ASSUME NEW field PROVE Tally(field, {}) = NoEntries
  BY DEF Tally, NoEntries
<1>2. TouchedBy({}) = NoEntries
  BY DEF TouchedBy, NoEntries
<1> QED
  BY <1>1, <1>2 DEF CountsOf, EmptyCounts

\* The events shown among the first m.
ShownUpTo(m) == {i \in shown : i <= m}

\* While the loop runs, the counts are those of the events shown so far.
SummaryInv ==
  args.out = "summary" =>
    \A I \in SUBSET shown :
      /\ pc = "emit" /\ I = ShownUpTo(n - 1) => output = CountsOf(I)
      /\ outcome = "done" /\ I = shown => output = summarize_events(CountsOf(I))

LEMMA ShownAre ==
  ASSUME CInv, pc = "emit" \/ outcome = "done"
  PROVE  shown \in SUBSET (1..Len(events)) /\ Len(events) \in Nat
BY LineTypes DEF CInv, ShownPass

LEMMA ShownCounted ==
  ASSUME shown \in SUBSET (1..Len(events)), Len(events) \in Nat
  PROVE  /\ ShownUpTo(0) = {}
         /\ ShownUpTo(Len(events)) = shown
         /\ \A m \in Nat :
              /\ ShownUpTo(m) \in SUBSET (1..m)
              /\ m + 1 \in shown => ShownUpTo(m + 1) = ShownUpTo(m) \cup {m + 1}
              /\ m + 1 \notin shown => ShownUpTo(m + 1) = ShownUpTo(m)
<1>0. \A i \in shown : i \in Nat /\ 1 <= i /\ i <= Len(events)
  OBVIOUS
<1>1. ShownUpTo(0) = {}
  <2>1. \A i \in shown : ~(i <= 0)
    BY <1>0
  <2> QED
    BY <2>1 DEF ShownUpTo
<1>3. ShownUpTo(Len(events)) = shown
  BY <1>0 DEF ShownUpTo
<1>2. ASSUME NEW m \in Nat
      PROVE  /\ ShownUpTo(m) \in SUBSET (1..m)
             /\ m + 1 \in shown => ShownUpTo(m + 1) = ShownUpTo(m) \cup {m + 1}
             /\ m + 1 \notin shown => ShownUpTo(m + 1) = ShownUpTo(m)
  <2>1. ShownUpTo(m) \in SUBSET (1..m)
    <3>1. \A i \in ShownUpTo(m) : i \in Nat /\ 1 <= i /\ i <= m
      BY <1>0 DEF ShownUpTo
    <3> QED
      BY <3>1
  <2>2. \A i \in shown : i <= m + 1 <=> i <= m \/ i = m + 1
    BY <1>0
  <2> QED
    BY <2>1, <2>2 DEF ShownUpTo
<1> QED
  BY <1>1, <1>2, <1>3

LEMMA SummaryKept ==
  ASSUME UNCHANGED <<events, shown>>
  PROVE  /\ \A I : CountsOf(I)' = CountsOf(I)
         /\ \A I : summarize_events(CountsOf(I))' = summarize_events(CountsOf(I))
         /\ \A m : ShownUpTo(m)' = ShownUpTo(m)
<1>1. \A I : CountsOf(I)' = CountsOf(I)
  BY Zenon DEF CountsOf, Tally, TouchedBy, AddressesOf
<1>2. ASSUME NEW I PROVE summarize_events(CountsOf(I))' = summarize_events(CountsOf(I))
  <2>1. PICK sum : sum = CountsOf(I)
    OBVIOUS
  <2>2. CountsOf(I)' = sum
    BY <1>1, <2>1
  <2>3. (\E i \in shown : IsHigh(i))' <=> \E i \in shown : IsHigh(i)
    BY DEF IsHigh
  <2>4. summarize_events(sum)' = summarize_events(sum)
    BY <2>3, Zenon DEF summarize_events
  <2>5. summarize_events(CountsOf(I))' = summarize_events(sum)'
    BY <2>2, SMT DEF summarize_events
  <2> QED
    BY <2>1, <2>4, <2>5
<1>3. \A m : ShownUpTo(m)' = ShownUpTo(m)
  BY DEF ShownUpTo
<1> QED
  BY <1>1, <1>2, <1>3

LEMMA FilterKeepsSummary == ASSUME CInv, Filter PROVE SummaryInv'
<1>1. pc' = "emit" /\ outcome' # "done" /\ n' - 1 = 0 /\ UNCHANGED <<args, events>>
  BY DEF Filter, CInv
<1>2. SUFFICES ASSUME args.out = "summary", NEW I, I = ShownUpTo(n - 1)'
               PROVE  output' = CountsOf(I)'
  BY <1>1 DEF SummaryInv
<1>3. shown' \in SUBSET (1..Len(events)) /\ Len(events) \in Nat
  BY LineTypes DEF Filter
<1>4. I = {}
  <2>1. \A i \in shown' : i \in Nat /\ 1 <= i /\ ~(i <= 0)
    BY <1>3
  <2> QED
    BY <1>1, <1>2, <2>1 DEF ShownUpTo
<1>5. output' = EmptyCounts
  BY <1>2 DEF Filter
<1>6. CountsOf(I)' = CountsOf(I)
  BY <1>1, Zenon DEF CountsOf, Tally, TouchedBy, AddressesOf
<1> QED
  BY <1>4, <1>5, <1>6, CountsStart

LEMMA EmitEventKeepsSummary == ASSUME CInv, SummaryInv, EmitEvent PROVE SummaryInv'
<1>1. /\ pc = "emit" /\ pc' = "emit" /\ n \in Nat /\ n - 1 \in Nat /\ (n - 1) + 1 = n
      /\ n' - 1 = n /\ UNCHANGED <<args, events, shown>> /\ outcome' # "done"
  BY DEF EmitEvent, CInv, Counted
<1>2. SUFFICES ASSUME args.out = "summary" PROVE output' = CountsOf(ShownUpTo(n))
  <2> SUFFICES ASSUME args.out = "summary", NEW I, I = ShownUpTo(n - 1)'
             PROVE  output' = CountsOf(I)'
    BY <1>1, <1>2 DEF SummaryInv
  <2>1. I = ShownUpTo(n)
    BY <1>1 DEF ShownUpTo
  <2>2. CountsOf(I)' = CountsOf(I)
    BY <1>1, SummaryKept
  <2> QED
    BY <1>2, <2>1, <2>2
<1>3. PICK m \in Nat : m = n - 1 /\ n = m + 1
  BY <1>1
<1>4. output = CountsOf(ShownUpTo(m))
  <2>1. ShownUpTo(m) \in SUBSET shown
    BY DEF ShownUpTo
  <2> QED
    BY <1>1, <1>2, <1>3, <2>1 DEF SummaryInv
<1>5. shown \in SUBSET (1..Len(events)) /\ Len(events) \in Nat
  BY <1>1, ShownAre
<1>6. CASE n \in shown
  <2>1. output' = CountEvent(output, events[n])
    BY <1>2, <1>6 DEF EmitEvent
  <2>2. ShownUpTo(m) \in SUBSET (1..m) /\ ShownUpTo(n) = ShownUpTo(m) \cup {m + 1}
    BY <1>3, <1>5, <1>6, ShownCounted
  <2>3. CountEvent(CountsOf(ShownUpTo(m)), events[m + 1])
          = CountsOf(ShownUpTo(m) \cup {m + 1})
    BY <2>2, CountsAdd
  <2> QED
    BY <1>3, <1>4, <2>1, <2>2, <2>3
<1>7. CASE n \notin shown
  <2>1. output' = output
    BY <1>7 DEF EmitEvent
  <2>2. ShownUpTo(n) = ShownUpTo(m)
    BY <1>3, <1>5, <1>7, ShownCounted
  <2> QED
    BY <1>4, <2>1, <2>2
<1> QED
  BY <1>6, <1>7

LEMMA EmitKeepsSummary == ASSUME CInv, SummaryInv, Emit PROVE SummaryInv'
<1>1. /\ pc = "emit" /\ pc' = "exited" /\ outcome' = "done" /\ n > Len(events)
      /\ UNCHANGED <<args, events, shown>>
      /\ output' = IF args.out = "summary" THEN summarize_events(output) ELSE output
  BY DEF Emit, End
<1>2. SUFFICES ASSUME args.out = "summary" PROVE output' = summarize_events(CountsOf(shown))
  <2> SUFFICES ASSUME args.out = "summary", NEW I, I = shown
             PROVE  output' = summarize_events(CountsOf(I))'
    BY <1>1, <1>2 DEF SummaryInv
  <2> QED
    BY <1>1, <1>2, SummaryKept
<1>3. shown \in SUBSET (1..Len(events)) /\ Len(events) \in Nat /\ n \in Nat
  BY <1>1, ShownAre, LineTypes
<1>4. ShownUpTo(n - 1) = shown
  <2>1. \A i \in shown : i <= n - 1
    BY <1>1, <1>3
  <2> QED
    BY <2>1 DEF ShownUpTo
<1>5. output = CountsOf(shown)
  BY <1>1, <1>2, <1>4, shown \in SUBSET shown DEF SummaryInv
<1> QED
  BY <1>1, <1>2, <1>5

\* Before the filter has run and after an early end there is no output to speak of.
LEMMA NothingShownYet ==
  ASSUME CInv, CInv', ~Filter, ~EmitEvent, ~Emit, [Next]_vars
  PROVE  \/ pc' # "emit" /\ outcome' # "done"
         \/ UNCHANGED vars
<1>1. CASE ReadLines \/ ParseLine \/ ParsedAll \/ LoadFeodo \/ LoadThreatfox
           \/ FeedUnavailable \/ ScoreEvent \/ ScoredAll
  <2>1. pc' \notin {"emit", "exited"}
    BY <1>1 DEF ReadLines, ParseLine, ParsedAll, LoadFeodo, LoadThreatfox,
                FeedUnavailable, ScoreEvent, ScoredAll
  <2> QED
    BY <2>1 DEF CInv
<1>2. CASE ReadFails \/ Escape
  BY <1>2 DEF ReadFails, Escape, End
<1> QED
  BY <1>1, <1>2 DEF Next

LEMMA SummaryInvHolds == Spec => []SummaryInv
<1>1. Init => SummaryInv
  BY DEF Init, SummaryInv
<1>2. CInv /\ CInv' /\ SummaryInv /\ [Next]_vars => SummaryInv'
  <2> SUFFICES ASSUME CInv, CInv', SummaryInv, [Next]_vars PROVE SummaryInv'
    OBVIOUS
  <2>1. CASE UNCHANGED vars
    <3>1. UNCHANGED <<args, pc, n, events, shown, output, outcome>>
      BY <2>1 DEF vars
    <3>2. ASSUME NEW I
          PROVE  /\ CountsOf(I)' = CountsOf(I)
                 /\ summarize_events(CountsOf(I))' = summarize_events(CountsOf(I))
      BY <3>1, SummaryKept
    <3>3. ShownUpTo(n - 1)' = ShownUpTo(n - 1)
      BY <3>1 DEF ShownUpTo
    <3> QED
      BY <3>1, <3>2, <3>3 DEF SummaryInv
  <2>2. CASE pc' # "emit" /\ outcome' # "done"
    BY <2>2 DEF SummaryInv
  <2> QED
    BY <2>1, <2>2, NothingShownYet, FilterKeepsSummary, EmitEventKeepsSummary,
       EmitKeepsSummary
<1> QED
  BY <1>1, <1>2, CInvHolds, PTL DEF Spec

\* The summary, counted event by event, is that of all events shown at once, for any
\* number of them, and agrees with the exit status.
THEOREM SummaryMatchesEventsHolds == Spec => []SummaryMatchesEvents
<1>1. SummaryInv => SummaryMatchesEvents
  <2> SUFFICES ASSUME SummaryInv, outcome = "done", args.out = "summary",
                      NEW named, named = {SourceOf(events[i]) : i \in shown} \ {Dash}
               PROVE  /\ output.by_severity = Tally("severity", shown)
                      /\ output.by_category = Tally("category", shown)
                      /\ output.by_function = Tally("function_code", shown)
                      /\ output.distinct_sources = named
                      /\ output.recon_sources =
                           {s \in named :
                              Cardinality(AddressesOf(s, shown)) >= ReconAddresses}
                      /\ output.has_high <=> ExitStatus = 1
    BY DEF SummaryMatchesEvents
  <2>1. output = summarize_events(CountsOf(shown))
    BY shown \in SUBSET shown DEF SummaryInv
  <2>2. /\ CountsOf(shown).by_severity = Tally("severity", shown)
        /\ CountsOf(shown).by_category = Tally("category", shown)
        /\ CountsOf(shown).by_function = Tally("function_code", shown)
        /\ CountsOf(shown).sources = TouchedBy(shown)
    BY DEF CountsOf
  <2>3. /\ DOMAIN TouchedBy(shown) \ {Dash} = named
        /\ \A s \in named : TouchedBy(shown)[s] = AddressesOf(s, shown)
    BY DEF TouchedBy
  <2>4. /\ output.by_severity = Tally("severity", shown)
        /\ output.by_category = Tally("category", shown)
        /\ output.by_function = Tally("function_code", shown)
        /\ output.distinct_sources = named
    BY <2>1, <2>2, <2>3 DEF summarize_events
  <2>5. output.recon_sources =
          {s \in named : Cardinality(AddressesOf(s, shown)) >= ReconAddresses}
    <3>1. output.recon_sources =
            {s \in named : Cardinality(TouchedBy(shown)[s]) >= ReconAddresses}
      BY <2>1, <2>2, <2>3 DEF summarize_events
    <3> QED
      BY <2>3, <3>1
  <2>6. output.has_high <=> \E i \in shown : IsHigh(i)
    BY <2>1 DEF summarize_events
  <2>7. ExitStatus = 1 <=> \E i \in shown : IsHigh(i)
    BY DEF ExitStatus
  <2> QED
    BY <2>4, <2>5, <2>6, <2>7
<1> QED
  BY <1>1, SummaryInvHolds, PTL

-----------------------------------------------------------------------------
(* The SARIF log                                                            *)

RuleIds == {e.function_code : e \in EventType}
Levels  == {"error", "warning", "note", "none"}
Rule    == [id : RuleIds, level : Levels]
Result  == [ruleId : RuleIds, level : Levels]
LogType == [rules : Seq(Rule), results : Seq(Result)]

RulesDiffer(rules) == \A r, s \in DOMAIN rules : rules[r].id = rules[s].id => r = s

ResultOf(event) == [ruleId |-> event.function_code, level |-> SARIF_LEVEL[event.severity]]

\* A log of the events in I: each at its place, under a rule of the log, and every
\* rule is there once.
LogOf(log, I) ==
  /\ log \in LogType
  /\ RulesDiffer(log.rules)
  /\ Len(log.results) = Cardinality(I)
  /\ \A i \in I : /\ log.results[Place(i)] = ResultOf(events[i])
                  /\ HasRule(log.rules, events[i].function_code)

SarifInv ==
  args.out = "sarif" =>
    \A I \in SUBSET shown :
      \/ pc = "emit" /\ I = ShownUpTo(n - 1)
      \/ outcome = "done" /\ I = shown
      => LogOf(output, I)

LEMMA LevelTyped == \A e \in EventType : ResultOf(e) \in Result
<1>1. ASSUME NEW e \in EventType PROVE ResultOf(e) \in Result
  <2>1. e.severity \in Severities /\ e.function_code \in RuleIds
    BY DEF EventType, RuleIds
  <2>2. SARIF_LEVEL[e.severity] \in Levels
    BY <2>1 DEF SARIF_LEVEL, Levels, Severities
  <2> QED
    BY <2>1, <2>2 DEF ResultOf, Result
<1> QED
  BY <1>1

\* Adding a rule for id, unless there is one, leaves one for id and for each id that
\* had one, and none twice.
LEMMA RuleAdded ==
  ASSUME NEW rules \in Seq(Rule), RulesDiffer(rules), NEW rule \in Rule,
         NEW new, new = IF HasRule(rules, rule.id) THEN rules ELSE Append(rules, rule)
  PROVE  /\ new \in Seq(Rule) /\ RulesDiffer(new) /\ HasRule(new, rule.id)
         /\ \A id : HasRule(rules, id) => HasRule(new, id)
<1>1. CASE HasRule(rules, rule.id)
  BY <1>1
<1>2. CASE ~HasRule(rules, rule.id)
  <2>1. /\ new \in Seq(Rule) /\ Len(rules) \in Nat
        /\ DOMAIN rules = 1..Len(rules) /\ DOMAIN new = 1..(Len(rules) + 1)
        /\ \A r \in 1..Len(rules) : new[r] = rules[r]
        /\ new[Len(rules) + 1] = rule
    BY <1>2
  <2>2. \A r \in 1..Len(rules) : rules[r].id # rule.id
    BY <1>2, <2>1 DEF HasRule
  <2>3. \A r \in DOMAIN new : r \in 1..Len(rules) \/ r = Len(rules) + 1
    BY <2>1
  <2>4. RulesDiffer(new)
    <3> SUFFICES ASSUME NEW r \in DOMAIN new, NEW s \in DOMAIN new, new[r].id = new[s].id
                 PROVE  r = s
      BY DEF RulesDiffer
    <3>1. CASE r \in 1..Len(rules) /\ s \in 1..Len(rules)
      BY <2>1, <3>1 DEF RulesDiffer
    <3>2. CASE r = Len(rules) + 1 \/ s = Len(rules) + 1
      BY <2>1, <2>2, <2>3, <3>2
    <3> QED
      BY <2>3, <3>1, <3>2
  <2>5. HasRule(new, rule.id)
    BY <2>1 DEF HasRule
  <2>6. ASSUME NEW id, HasRule(rules, id) PROVE HasRule(new, id)
    BY <2>1, <2>6 DEF HasRule
  <2> QED
    BY <2>1, <2>4, <2>5, <2>6
<1> QED
  BY <1>1, <1>2

\* A shown event's place is its rank among those shown.
LEMMA PlaceOfShown ==
  ASSUME shown \in SUBSET (1..Len(events)), Len(events) \in Nat,
         NEW m \in Nat, NEW i \in ShownUpTo(m)
  PROVE  Place(i) \in 1..Cardinality(ShownUpTo(m)) /\ Cardinality(ShownUpTo(m)) \in Nat
<1>1. i \in shown /\ i \in Nat /\ i <= m
  BY DEF ShownUpTo
<1>2. \A j \in shown : j \in Nat
  OBVIOUS
<1>3. ShownUpTo(i) \subseteq ShownUpTo(m) /\ i \in ShownUpTo(i)
  <2>1. \A j \in shown : j <= i => j <= m
    BY <1>1, <1>2
  <2>2. i <= i
    BY <1>1
  <2> QED
    BY <1>1, <2>1, <2>2 DEF ShownUpTo
<1>4. ShownUpTo(m) \in SUBSET (1..m)
  BY ShownCounted
<1>5. IsFiniteSet(ShownUpTo(m)) /\ Cardinality(ShownUpTo(m)) \in Nat
  BY <1>4, PositionsCounted
<1>6. /\ IsFiniteSet(ShownUpTo(i)) /\ Cardinality(ShownUpTo(i)) \in Nat
      /\ Cardinality(ShownUpTo(i)) <= Cardinality(ShownUpTo(m))
  BY <1>3, <1>5, FS_Subset, FS_CardinalityType
<1>7. Cardinality(ShownUpTo(i)) # 0
  BY <1>3, <1>6, FS_EmptySet
<1>8. Place(i) = Cardinality(ShownUpTo(i))
  BY Zenon DEF Place, ShownUpTo
<1> QED
  BY <1>5, <1>6, <1>7, <1>8

LEMMA LogStarts == LogOf(EmptyLog, {})
<1>1. EmptyLog \in LogType /\ EmptyLog.rules = <<>> /\ Len(EmptyLog.results) = 0
  BY DEF EmptyLog, LogType
<1> QED
  BY <1>1, FS_EmptySet DEF LogOf, RulesDiffer

LEMMA LogAdds ==
  ASSUME shown \in SUBSET (1..Len(events)), events \in Seq(EventType),
         NEW m \in Nat, m + 1 \in shown, NEW log, LogOf(log, ShownUpTo(m))
  PROVE  LogOf(AddResult(log, events[m + 1]), ShownUpTo(m + 1))
<1>1. Len(events) \in Nat
  BY EventsLemma
<1>2. PICK e \in EventType : e = events[m + 1]
  OBVIOUS
<1>3. /\ ShownUpTo(m) \in SUBSET (1..m)
      /\ ShownUpTo(m + 1) = ShownUpTo(m) \cup {m + 1}
  BY <1>1, ShownCounted
<1>4. /\ Cardinality(ShownUpTo(m)) \in Nat
      /\ Cardinality(ShownUpTo(m + 1)) = Cardinality(ShownUpTo(m)) + 1
  BY <1>3, PositionsCounted, OnePositionMore
<1>5. Place(m + 1) = Cardinality(ShownUpTo(m + 1))
  BY Zenon DEF Place, ShownUpTo
<1>6. PICK new : new = AddResult(log, events[m + 1])
  OBVIOUS
<1>7. PICK rule : rule = [id |-> e.function_code, level |-> SARIF_LEVEL[e.severity]]
  OBVIOUS
<1>8. /\ new.rules = IF HasRule(log.rules, e.function_code) THEN log.rules
                     ELSE Append(log.rules, rule)
      /\ new.results = Append(log.results, ResultOf(e))
      /\ new = [rules |-> new.rules, results |-> new.results]
  BY <1>2, <1>6, <1>7 DEF AddResult, ResultOf
<1>9. /\ ResultOf(e) \in Result /\ rule \in Rule /\ rule.id = e.function_code
  <2>1. ResultOf(e) \in Result
    BY LevelTyped
  <2> QED
    BY <1>7, <2>1 DEF ResultOf, Result, Rule
<1>10. /\ log.rules \in Seq(Rule) /\ log.results \in Seq(Result) /\ RulesDiffer(log.rules)
       /\ Len(log.results) = Cardinality(ShownUpTo(m))
       /\ \A i \in ShownUpTo(m) : /\ log.results[Place(i)] = ResultOf(events[i])
                                  /\ HasRule(log.rules, events[i].function_code)
  BY DEF LogOf, LogType
<1>11. /\ new.rules \in Seq(Rule) /\ RulesDiffer(new.rules)
       /\ HasRule(new.rules, e.function_code)
       /\ \A id : HasRule(log.rules, id) => HasRule(new.rules, id)
  BY <1>8, <1>9, <1>10, RuleAdded
<1>12. /\ new.results \in Seq(Result)
       /\ Len(new.results) = Cardinality(ShownUpTo(m)) + 1
       /\ \A k \in 1..Cardinality(ShownUpTo(m)) : new.results[k] = log.results[k]
       /\ new.results[Cardinality(ShownUpTo(m)) + 1] = ResultOf(e)
  BY <1>4, <1>8, <1>9, <1>10
<1>13. ASSUME NEW i \in ShownUpTo(m + 1)
       PROVE  /\ new.results[Place(i)] = ResultOf(events[i])
              /\ HasRule(new.rules, events[i].function_code)
  <2>1. CASE i = m + 1
    BY <1>2, <1>4, <1>5, <1>11, <1>12, <2>1
  <2>2. CASE i \in ShownUpTo(m)
    <3>1. Place(i) \in 1..Cardinality(ShownUpTo(m))
      BY <1>1, <2>2, PlaceOfShown
    <3> QED
      BY <1>10, <1>11, <1>12, <2>2, <3>1
  <2> QED
    BY <1>3, <2>1, <2>2
<1>14. new \in LogType
  BY <1>8, <1>11, <1>12 DEF LogType
<1> QED
  BY <1>4, <1>6, <1>11, <1>12, <1>13, <1>14 DEF LogOf

LEMMA LogKept ==
  ASSUME UNCHANGED <<events, shown>>, NEW log, NEW I, LogOf(log, I)
  PROVE  LogOf(log, I)'
<1>1. \A i : Place(i)' = Place(i)
  BY Zenon DEF Place
<1> QED
  BY <1>1 DEF LogOf, RulesDiffer, HasRule

LEMMA FilterKeepsSarif == ASSUME CInv, Filter PROVE SarifInv'
<1>1. pc' = "emit" /\ outcome' # "done" /\ n' - 1 = 0 /\ UNCHANGED <<args, events>>
  BY DEF Filter, CInv
<1>2. SUFFICES ASSUME args.out = "sarif", NEW I, I = ShownUpTo(n - 1)'
               PROVE  LogOf(output, I)'
  BY <1>1 DEF SarifInv
<1>3. shown' \in SUBSET (1..Len(events)) /\ Len(events) \in Nat
  BY LineTypes DEF Filter
<1>4. I = {}
  <2>1. \A i \in shown' : i \in Nat /\ 1 <= i /\ ~(i <= 0)
    BY <1>3
  <2> QED
    BY <1>1, <1>2, <2>1 DEF ShownUpTo
<1>5. output' = EmptyLog
  BY <1>2 DEF Filter
<1>6. EmptyLog \in LogType /\ RulesDiffer(EmptyLog.rules) /\ Len(EmptyLog.results) = Cardinality({})
  BY LogStarts DEF LogOf
<1> QED
  BY <1>4, <1>5, <1>6 DEF LogOf, RulesDiffer

LEMMA EmitEventKeepsSarif == ASSUME CInv, SarifInv, EmitEvent PROVE SarifInv'
<1>1. /\ pc = "emit" /\ pc' = "emit" /\ n \in Nat /\ n - 1 \in Nat /\ (n - 1) + 1 = n
      /\ n' - 1 = n /\ UNCHANGED <<args, events, shown>> /\ outcome' # "done"
  BY DEF EmitEvent, CInv, Counted
<1>2. SUFFICES ASSUME args.out = "sarif", NEW log, log = output'
               PROVE  LogOf(log, ShownUpTo(n))
  <2> SUFFICES ASSUME args.out = "sarif", NEW I, I = ShownUpTo(n - 1)'
               PROVE  LogOf(output, I)'
    BY <1>1 DEF SarifInv
  <2>1. I = ShownUpTo(n)
    BY <1>1 DEF ShownUpTo
  <2>2. PICK log : log = output'
    OBVIOUS
  <2>3. LogOf(log, I)
    BY <1>2, <2>1, <2>2
  <2>4. LogOf(log, I)'
    BY <1>1, <2>3, LogKept
  <2> QED
    BY <2>2, <2>4 DEF LogOf
<1>3. PICK m \in Nat : m = n - 1 /\ n = m + 1
  BY <1>1
<1>4. LogOf(output, ShownUpTo(m))
  <2>1. ShownUpTo(m) \in SUBSET shown
    BY DEF ShownUpTo
  <2> QED
    BY <1>1, <1>2, <1>3, <2>1 DEF SarifInv
<1>5. shown \in SUBSET (1..Len(events)) /\ Len(events) \in Nat
  BY <1>1, ShownAre
<1>6. CASE n \in shown
  <2>1. log = AddResult(output, events[n])
    BY <1>2, <1>6 DEF EmitEvent
  <2> QED
    BY <1>3, <1>4, <1>5, <1>6, <2>1, LogAdds DEF CInv
<1>7. CASE n \notin shown
  <2>1. log = output
    BY <1>2, <1>7 DEF EmitEvent
  <2>2. ShownUpTo(n) = ShownUpTo(m)
    BY <1>3, <1>5, <1>7, ShownCounted
  <2> QED
    BY <1>4, <2>1, <2>2
<1> QED
  BY <1>6, <1>7

LEMMA EmitKeepsSarif == ASSUME CInv, SarifInv, Emit PROVE SarifInv'
<1>1. /\ pc = "emit" /\ pc' = "exited" /\ outcome' = "done" /\ n > Len(events)
      /\ UNCHANGED <<args, events, shown>>
      /\ args.out = "sarif" => output' = output
  BY DEF Emit, End
<1>2. SUFFICES ASSUME args.out = "sarif", NEW I, I = shown PROVE LogOf(output, I)'
  BY <1>1 DEF SarifInv
<1>3. shown \in SUBSET (1..Len(events)) /\ Len(events) \in Nat /\ n \in Nat
  BY <1>1, ShownAre, LineTypes
<1>4. ShownUpTo(n - 1) = shown
  <2>1. \A i \in shown : i <= n - 1
    BY <1>1, <1>3
  <2> QED
    BY <2>1 DEF ShownUpTo
<1>5. PICK log : log = output
  OBVIOUS
<1>6. LogOf(log, I)
  BY <1>1, <1>2, <1>4, <1>5, shown \in SUBSET shown DEF SarifInv
<1>7. LogOf(log, I)'
  BY <1>1, <1>6, LogKept
<1> QED
  BY <1>1, <1>2, <1>5, <1>7 DEF LogOf

LEMMA SarifInvHolds == Spec => []SarifInv
<1>1. Init => SarifInv
  BY DEF Init, SarifInv
<1>2. CInv /\ CInv' /\ SarifInv /\ [Next]_vars => SarifInv'
  <2> SUFFICES ASSUME CInv, CInv', SarifInv, [Next]_vars PROVE SarifInv'
    OBVIOUS
  <2>1. CASE UNCHANGED vars
    <3>1. UNCHANGED <<args, pc, n, events, shown, output, outcome>>
      BY <2>1 DEF vars
    <3>2. ShownUpTo(n - 1)' = ShownUpTo(n - 1)
      BY <3>1 DEF ShownUpTo
    <3> SUFFICES ASSUME args.out = "sarif", NEW I \in SUBSET shown,
                        \/ pc = "emit" /\ I = ShownUpTo(n - 1)
                        \/ outcome = "done" /\ I = shown
                 PROVE  LogOf(output, I)'
      BY <3>1, <3>2 DEF SarifInv
    <3>3. PICK log : log = output
      OBVIOUS
    <3>4. LogOf(log, I)
      BY <3>3 DEF SarifInv
    <3>5. LogOf(log, I)'
      BY <3>1, <3>4, LogKept
    <3> QED
      BY <3>1, <3>3, <3>5 DEF LogOf
  <2>2. CASE pc' # "emit" /\ outcome' # "done"
    BY <2>2 DEF SarifInv
  <2> QED
    BY <2>1, <2>2, NothingShownYet, FilterKeepsSarif, EmitEventKeepsSarif, EmitKeepsSarif
<1> QED
  BY <1>1, <1>2, CInvHolds, PTL DEF Spec

\* The SARIF log is well formed, however many events and rules it has: the shown events
\* in order, each under the one rule of its function code.
THEOREM SarifWellFormedHolds == Spec => []SarifWellFormed
<1>1. SarifInv => SarifWellFormed
  <2> SUFFICES ASSUME SarifInv, outcome = "done", args.out = "sarif"
               PROVE  /\ Len(output.results) = Cardinality(shown)
                      /\ \A i \in shown :
                           /\ output.results[Place(i)].ruleId = events[i].function_code
                           /\ output.results[Place(i)].level = SARIF_LEVEL[events[i].severity]
                           /\ Cardinality({r \in DOMAIN output.rules :
                                output.rules[r].id = output.results[Place(i)].ruleId}) = 1
    BY DEF SarifWellFormed
  <2>1. LogOf(output, shown)
    BY shown \in SUBSET shown DEF SarifInv
  <2>2. ASSUME NEW i \in shown
        PROVE  /\ output.results[Place(i)].ruleId = events[i].function_code
               /\ output.results[Place(i)].level = SARIF_LEVEL[events[i].severity]
               /\ Cardinality({r \in DOMAIN output.rules :
                    output.rules[r].id = output.results[Place(i)].ruleId}) = 1
    <3>1. output.results[Place(i)] = ResultOf(events[i])
      BY <2>1 DEF LogOf
    <3>2. /\ output.results[Place(i)].ruleId = events[i].function_code
          /\ output.results[Place(i)].level = SARIF_LEVEL[events[i].severity]
      BY <3>1 DEF ResultOf
    <3>3. PICK r \in DOMAIN output.rules : output.rules[r].id = events[i].function_code
      BY <2>1 DEF LogOf, HasRule
    <3>4. {s \in DOMAIN output.rules :
             output.rules[s].id = output.results[Place(i)].ruleId} = {r}
      BY <2>1, <3>2, <3>3 DEF LogOf, RulesDiffer
    <3>5. Cardinality({r}) = 1
      BY FS_Singleton
    <3>6. Cardinality({s \in DOMAIN output.rules :
                         output.rules[s].id = output.results[Place(i)].ruleId}) = 1
      BY <3>4, <3>5, Zenon
    <3> QED
      BY <3>2, <3>6, Zenon
  <2> QED
    BY <2>1, <2>2 DEF LogOf
<1> QED
  BY <1>1, SarifInvHolds, PTL
=============================================================================
