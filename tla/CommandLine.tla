------------------------------ MODULE CommandLine ------------------------------
(***************************************************************************)
(* The commands of modlure that work through a list given to them:         *)
(*                                                                         *)
(*   modlure probe       _cmd_probe of modlure/cli.py, which builds the    *)
(*                       scope and has Probe.run probe it;                 *)
(*   modlure feeds       cmd_feeds of modlure/feeds.py;                    *)
(*   python datafeeds.py main of modlure/datafeeds.py.                     *)
(*                                                                         *)
(* What happens inside one probe or one download is in ActiveProbe and     *)
(* FeedCache; here it has an outcome.  A command returns a status or lets  *)
(* an exception escape, and then the interpreter's status is 1.            *)
(***************************************************************************)
EXTENDS ProbeScope, FiniteSets

CONSTANTS
  Invocations,   \* the command lines
  FEED_IDS,      \* the feeds `modlure feeds` handles, in order
  Catalog        \* the feeds of data_feeds_2026.json

\* A target option is a text; so is a line of a scope file.
IsProbe(a) == /\ a.sub = "probe" /\ a.authorized \in BOOLEAN
              /\ a.file \in {"none", "unreadable", "undecodable", "read"}
              /\ a.target \in Seq(Seq(Tokens)) /\ a.lines \in Seq(Seq(Tokens))
IsFeeds(a) == /\ a.sub \in {"feeds", "datafeeds"}
              /\ a.action \in {"none", "list", "update", "get", "snapshot"}
              /\ a.ids \in Seq({a.ids[n] : n \in DOMAIN a.ids})

ASSUME InvocationsAssumption ==
  \A a \in Invocations : a.sub = "none" \/ IsProbe(a) \/ IsFeeds(a)
ASSUME FeedIdsAssumption == FEED_IDS \in Seq({FEED_IDS[n] : n \in DOMAIN FEED_IDS})

VARIABLES
  args,      \* the command line
  pc,
  todo,      \* what is still to be worked through: texts, targets or feed ids
  status,    \* the status that will be returned
  ended,     \* "no" while it runs, then "returned" or "raised"
  probed,    \* the targets probed, in order, with what came of each
  stored,    \* history: the feeds whose update has returned
  failed     \* history: those whose update raised ConnectionError

vars == <<args, pc, todo, status, ended, probed, stored, failed>>

Outcomes == {"up", "down"}

Goto(where) == pc' = where /\ UNCHANGED <<args, status, ended>>

Return(s) == pc' = "end" /\ status' = s /\ ended' = "returned" /\ UNCHANGED args

\* An exception that nothing catches.
Escape == pc' = "end" /\ status' = 1 /\ ended' = "raised" /\ UNCHANGED args

-----------------------------------------------------------------------------
(* main and the dispatch of the subcommands *)

Dispatch ==
  /\ pc = "main"
  /\ CASE args.sub = "none"  -> Return(2)
       [] args.sub = "probe" -> Goto("authorize")
       [] OTHER              -> Goto(args.action)
  /\ UNCHANGED <<todo, probed, stored, failed>>

-----------------------------------------------------------------------------
(* _cmd_probe *)

\* Mutant of Authorize: an allowlist is taken for an authorization.
AuthorizeByScope ==
  /\ pc = "authorize"
  /\ IF args.authorized \/ args.target # <<>>
       THEN Goto("scope_file") /\ todo' = args.target
       ELSE Return(2) /\ UNCHANGED todo
  /\ UNCHANGED <<probed, stored, failed>>

Authorize ==
  /\ pc = "authorize"
  /\ IF args.authorized THEN Goto("scope_file") /\ todo' = args.target
                        ELSE Return(2) /\ UNCHANGED todo
  /\ UNCHANGED <<probed, stored, failed>>

Comment(line) == line # <<>> /\ line[1] = "#"

\* The entries of s at the positions in I, in their order.
AtPositions(s, I) ==
  [k \in 1..Cardinality(I) |-> s[CHOOSE n \in I : Cardinality({m \in I : m <= n}) = k]]

Stripped(lines) == [n \in DOMAIN lines |-> Strip(lines[n])]

\* Blank lines and comments are passed over.
Entries(lines) ==
  LET s == Stripped(lines)
  IN  AtPositions(s, {n \in DOMAIN s : s[n] # <<>> /\ ~Comment(s[n])})

ParseAll(texts) == [n \in DOMAIN texts |-> Parse(texts[n])]

\* Scope.from_file parses every line; the targets are written as keys again.
Specs(lines) == [n \in DOMAIN Entries(lines) |-> Key(Parse(Entries(lines)[n]))]

\* A blank one is not parsed.
SomeRefused(texts) == \E n \in DOMAIN texts : ~Blank(texts[n]) /\ Parse(texts[n]) = NoTarget

\* Only OSError is caught: not a line that parse refuses, nor a file that is
\* not UTF-8.
ReadScopeFile ==
  /\ pc = "scope_file"
  /\ CASE args.file = "none"        -> Goto("specs") /\ UNCHANGED todo
       [] args.file = "unreadable"  -> Return(2) /\ UNCHANGED todo
       [] args.file = "undecodable" -> Escape /\ UNCHANGED todo
       [] args.file = "read" /\ SomeRefused(Entries(args.lines)) ->
            Escape /\ UNCHANGED todo
       [] OTHER -> Goto("specs") /\ todo' = todo \o Specs(args.lines)
  /\ UNCHANGED <<probed, stored, failed>>

NonBlank(texts) == AtPositions(texts, {n \in DOMAIN texts : ~Blank(texts[n])})

\* Mutants of BuildScope: a text that parse refuses is passed over; the texts
\* are left for run to parse.
BuildScopeLenient ==
  /\ pc = "specs"
  /\ IF todo = <<>> THEN Return(2) /\ UNCHANGED todo
     ELSE Goto("run") /\ todo' = LET parsed == ParseAll(NonBlank(todo))
                                 IN  AtPositions(parsed, {n \in DOMAIN parsed :
                                                            parsed[n] # NoTarget})
  /\ UNCHANGED <<probed, stored, failed>>

BuildScopeLazily ==
  /\ pc = "specs"
  /\ IF todo = <<>> THEN Return(2) /\ UNCHANGED todo
     ELSE Goto("run") /\ todo' = ParseAll(NonBlank(todo))
  /\ UNCHANGED <<probed, stored, failed>>

\* Scope.from_specs drops blank texts and parses the others.  What it accepts is
\* both the scope and the list of targets, so run skips none.
BuildScope ==
  /\ pc = "specs"
  /\ CASE todo = <<>> -> Return(2) /\ UNCHANGED todo
       [] todo # <<>> /\ SomeRefused(todo) -> Escape /\ UNCHANGED todo
       [] OTHER -> Goto("run") /\ todo' = ParseAll(NonBlank(todo))
  /\ UNCHANGED <<probed, stored, failed>>

ProbeNext ==
  /\ pc = "run" /\ todo # <<>>
  /\ \E outcome \in Outcomes :
       probed' = Append(probed, [target |-> Head(todo), outcome |-> outcome])
  /\ todo' = Tail(todo)
  /\ UNCHANGED <<args, pc, status, ended, stored, failed>>

\* A timeout, a reset, a quantity out of range: the results are lost.
ProbeRaises ==
  /\ pc = "run" /\ todo # <<>>
  /\ Escape
  /\ probed' = Append(probed, [target |-> Head(todo), outcome |-> "raised"])
  /\ UNCHANGED <<todo, stored, failed>>

Report ==
  /\ pc = "run" /\ todo = <<>>
  /\ Return(IF /\ probed # <<>>
               /\ \A n \in DOMAIN probed : probed[n].outcome = "down"
              THEN 1 ELSE 0)
  /\ UNCHANGED <<todo, probed, stored, failed>>

-----------------------------------------------------------------------------
(* cmd_feeds and main of datafeeds *)

Modlure == args.sub = "feeds"

\* A call without an action prints a usage line; without a catalog file there
\* are no feeds to list.
FeedsUsage ==
  /\ pc = "none"
  /\ Return(IF Modlure THEN 2 ELSE 1)
  /\ UNCHANGED <<todo, probed, stored, failed>>

FeedsList ==
  /\ pc \in {"list", "snapshot"}
  /\ Return(0) \/ Escape
  /\ UNCHANGED <<todo, probed, stored, failed>>

InSeq(x, s) == \E n \in DOMAIN s : s[n] = x

Known(fid) == fid \in Catalog /\ (Modlure => InSeq(fid, FEED_IDS))

Requested == IF Modlure /\ args.ids = <<>> THEN FEED_IDS ELSE args.ids

UpdateStart ==
  /\ pc = "update"
  /\ Goto("feeds") /\ todo' = Requested
  /\ UNCHANGED <<probed, stored, failed>>

\* What the rest of the loop makes of a feed that was not updated: datafeeds only
\* prints it.
Missed(code) == status' = IF Modlure THEN code ELSE status

NextFeed == /\ todo' = Tail(todo)
            /\ UNCHANGED <<args, pc, ended, probed>>

\* modlure refuses it, datafeeds.update raises KeyError.
FeedUnknown ==
  /\ pc = "feeds" /\ todo # <<>> /\ ~Known(Head(todo))
  /\ Missed(2)
  /\ NextFeed
  /\ UNCHANGED <<stored, failed>>

\* Mutant of FeedStored: the status is that of the last feed.
FeedStoredResets ==
  /\ pc = "feeds" /\ todo # <<>> /\ Known(Head(todo))
  /\ stored' = stored \cup {Head(todo)}
  /\ status' = 0
  /\ NextFeed
  /\ UNCHANGED failed

FeedStored ==
  /\ pc = "feeds" /\ todo # <<>> /\ Known(Head(todo))
  /\ stored' = stored \cup {Head(todo)}
  /\ NextFeed
  /\ UNCHANGED <<status, failed>>

\* update raised ConnectionError, or KeyError for a catalogue entry without a url.
FeedFails ==
  /\ pc = "feeds" /\ todo # <<>> /\ Known(Head(todo))
  /\ failed' = failed \cup {Head(todo)}
  /\ Missed(1)
  /\ NextFeed
  /\ UNCHANGED stored

\* Writing the files raised OSError, or fetch another exception than its own.
FeedRaises ==
  /\ pc = "feeds" /\ todo # <<>> /\ Known(Head(todo))
  /\ Escape
  /\ UNCHANGED <<todo, probed, stored, failed>>

FeedsDone ==
  /\ pc = "feeds" /\ todo = <<>>
  /\ Return(status)
  /\ UNCHANGED <<todo, probed, stored, failed>>

\* modlure refuses a feed it does not know; get of datafeeds looks into the cache
\* for any id.  FileNotFoundError and ConnectionError are reported, ValueError
\* of a file that is not JSON escapes.
FeedsGet ==
  /\ pc = "get"
  /\ IF Modlure /\ ~Known(args.ids[1]) THEN Return(2)
     ELSE Return(0) \/ Return(1) \/ Escape
  /\ UNCHANGED <<todo, probed, stored, failed>>

-----------------------------------------------------------------------------
Init == /\ args \in Invocations
        /\ pc = "main" /\ todo = <<>> /\ status = 0 /\ ended = "no"
        /\ probed = <<>> /\ stored = {} /\ failed = {}

Next == \/ Dispatch
        \/ Authorize \/ ReadScopeFile \/ BuildScope \/ ProbeNext \/ ProbeRaises \/ Report
        \/ FeedsUsage \/ FeedsList \/ UpdateStart \/ FeedUnknown \/ FeedStored \/ FeedFails
        \/ FeedRaises \/ FeedsDone \/ FeedsGet

Spec == Init /\ [][Next]_vars

-----------------------------------------------------------------------------
(* Properties *)

FileEntries == IF args.file = "read" THEN Entries(args.lines) ELSE <<>>

\* The targets that the options and the scope file name, in order.
Listed == ParseAll(NonBlank(args.target)) \o ParseAll(FileEntries)

Targets == [n \in DOMAIN probed |-> probed[n].target]

IsTarget(t) == t \in [host : Seq(Tokens), port : Ports]

Labels == {"main", "authorize", "scope_file", "specs", "run", "none", "list", "update",
           "get", "snapshot", "feeds", "end"}

\* Types.  What run works through are targets and never a refused text, and a
\* command has ended exactly when it has a final status.
TypeOK ==
  /\ pc \in Labels
  /\ status \in 0..2
  /\ ended \in {"no", "returned", "raised"}
  /\ ended = "no" <=> pc # "end"
  /\ pc = "run" => \A n \in DOMAIN todo : IsTarget(todo[n])
  /\ \A n \in DOMAIN probed : IsTarget(Targets[n])

\* One wrong entry anywhere, in the options or in the file, and no device is
\* probed at all, those listed before it neither; nor is any without
\* --authorized, with a scope file that cannot be read, or by a call that ends
\* with the status of a usage error.
AllOrNothing ==
  args.sub = "probe" /\ probed # <<>> =>
    /\ args.authorized
    /\ args.file \in {"none", "read"}
    /\ ~SomeRefused(args.target \o FileEntries)
    /\ ended = "returned" => status # 2

PlainFile == \A n \in DOMAIN FileEntries : Plain(Parse(FileEntries[n]).host)

IsPrefix(s, t) == Len(s) <= Len(t) /\ \A n \in DOMAIN s : s[n] = t[n]

\* As long as no host of the scope file has a colon or begins with a bracket or a
\* blank, writing its targets as keys and parsing them again changes nothing: the devices probed are
\* those listed, in that order, none left out by a run that returns ("The targets
\* to probe are exactly the authorized scope.").
ProbesExactlyTheList ==
  args.sub = "probe" /\ PlainFile =>
    /\ IsPrefix(Targets, Listed)
    /\ ended = "returned" /\ status # 2 => Len(Targets) = Len(Listed)

\* The doc's claim without that condition (probe.py: "Every target must appear in
\* an allowlist"; help of --scope-file: "file of authorized targets").
EveryProbedIsListed ==
  args.sub = "probe" => \A n \in DOMAIN Targets : InSeq(Targets[n], Listed)

\* A script that runs `modlure feeds update` may trust the status: 0 means that
\* every feed asked for is in the cache, anything else that one is unknown or
\* could not be had; a failing feed does not keep the others from being tried.
FeedsStatusTellsAll ==
  args.sub = "feeds" /\ args.action = "update" /\ ended = "returned" =>
    /\ \A n \in DOMAIN Requested : Known(Requested[n]) => Requested[n] \in stored \cup failed
    /\ status = 0 => \A n \in DOMAIN Requested : Requested[n] \in stored
    /\ status # 0 => failed # {} \/ \E n \in DOMAIN Requested : ~Known(Requested[n])
=============================================================================
