------------------------------- MODULE FeedCache -------------------------------
(***************************************************************************)
(* The feed cache of modlure/datafeeds.py: fetch, update, get and the      *)
(* snapshots, called by processes that share a cache directory.            *)
(*                                                                         *)
(* A feed has two files, data and meta, and feeds share nothing, so one    *)
(* feed is modelled.  A site is a cache directory; an archive carries one  *)
(* site's files to another.  Nothing in the code locks a directory: which  *)
(* calls may overlap is a condition of use, the constant Overlap.          *)
(*                                                                         *)
(* The content of a file is abstracted to its age: data to the time it was *)
(* fetched (of), meta to that time and to its fetched_at (at).  A file is  *)
(* otherwise absent, empty (opened for writing) or garbled (cut short, or  *)
(* two writers over each other), and then it is not JSON.                  *)
(***************************************************************************)
EXTENDS Integers, FiniteSets

CONSTANTS
  Procs,         \* processes
  Sites,         \* cache directories
  SiteOf,        \* the directory each process uses
  Ops,           \* the calls each process makes
  Overlap,       \* which calls on one directory overlap
  max_age,       \* max_age_hours of get, in ticks
  retries,       \* of fetch; 2 in the code
  MaxTime,       \* bound: the clock stops here
  MaxFaults      \* bound: crashes, failing writes

None    == -1    \* no such file
Empty   == -2
Garbled == -3

NoMeta == [of |-> None, at |-> None]

OpNames == {"update", "get", "get offline", "export", "import"}
Writers == {"update", "get", "import"}

ASSUME ProcsAssumption == /\ SiteOf \in [Procs -> Sites]
                          /\ Ops \in [Procs -> SUBSET OpNames]
ASSUME OverlapAssumption == Overlap \in {"nothing", "readers", "everything"}
ASSUME BoundsAssumption == /\ max_age \in Nat /\ retries \in Nat
                           /\ MaxTime \in Nat /\ MaxFaults \in Nat

VARIABLES
  data,      \* the data file of each site
  meta,      \* the meta file of each site
  archive,   \* the snapshot, once one has been exported
  call,      \* what each process is doing
  result,    \* how a get ended, until the process calls again
  now,       \* the clock
  faults,    \* crashes and failed writes so far
  cached     \* history: the sites an update or import has ended on

vars == <<data, meta, archive, call, result, now, faults, cached>>

\* A process between calls, and the locals of a call: the file contents it is
\* going to write (raw, text), the failed attempts of fetch, the files to export,
\* the meta that get relies on (none when it refreshes the cache), and whether the
\* directory had been filled when the call began (history).
Idle == [ op |-> "", at |-> "idle", raw |-> None, text |-> NoMeta, tries |-> 0,
          listed |-> {}, seen |-> NoMeta, known |-> FALSE ]

Data(p) == data[SiteOf[p]]
Meta(p) == meta[SiteOf[p]]
At(p, where) == call[p].at = where
Readable(content) == content >= 0

\* Both files of a directory or an archive agree: neither exists, or both are
\* whole and meta describes the data beside it.
Whole(d, m) == d = m.of /\ (d = None \/ Readable(d))

-----------------------------------------------------------------------------
(* Calls.  A call is a step sequence; Goto moves it on, Return ends it.     *)

Goto(p, where) == call' = [call EXCEPT ![p].at = where]

\* What a get gave, and what it had relied on (history).  Other calls have no
\* result that another step reads.
NoResult == [op |-> "", how |-> "", value |-> None, seen |-> None, known |-> FALSE]

Return(p, how, value) ==
  /\ call' = [call EXCEPT ![p] = Idle]
  /\ result' = IF call[p].op \in {"get", "get offline"}
                 THEN [result EXCEPT ![p] =
                        [ op |-> call[p].op, how |-> how, value |-> value,
                          seen |-> call[p].seen.of, known |-> call[p].known ]]
                 ELSE result

MayOverlap(op, other) == \/ Overlap = "everything"
                         \/ Overlap = "readers" /\ {op, other} \ Writers # {}

Begin(p, op, where) ==
  /\ At(p, "idle") /\ op \in Ops[p]
  /\ \A q \in Procs \ {p} :
       SiteOf[q] = SiteOf[p] => At(q, "idle") \/ MayOverlap(op, call[q].op)
  /\ call' = [call EXCEPT ![p] =
                [Idle EXCEPT !.op = op, !.at = where, !.known = SiteOf[p] \in cached]]
  /\ result' = [result EXCEPT ![p] = NoResult]
  /\ UNCHANGED <<data, meta, archive, now, faults, cached>>

Update(p) == Begin(p, "update", "fetch")
Get(p)    == Begin(p, "get", "age") \/ Begin(p, "get offline", "age")
Export(p) == Begin(p, "export", "list")
Import(p) == Begin(p, "import", "unpack")

-----------------------------------------------------------------------------
(* fetch *)

\* update and snapshot_import write the data file, then the meta file; each is
\* truncated by open and filled by one write.  Slip: meta first.
MetaFirst == [start |-> "open_meta", write_meta |-> "open_data", write_data |-> "done"]

\* What follows a step of that.
Then == [start |-> "open_data", write_data |-> "open_meta", write_meta |-> "done"]

FetchOk(p) ==
  /\ At(p, "fetch")
  /\ call' = [call EXCEPT ![p].raw = now, ![p].at = Then["start"]]
  /\ UNCHANGED <<data, meta, archive, result, now, faults, cached>>

\* Slip: the count of attempts starts over.
FetchRetriesForEver(p) ==
  /\ At(p, "fetch")
  /\ call' = [call EXCEPT ![p].tries = IF @ < retries THEN @ + 1 ELSE 0]
  /\ UNCHANGED <<data, meta, archive, result, now, faults, cached>>

\* Slip: one attempt too many.
FetchOnceMore(p) ==
  /\ At(p, "fetch")
  /\ IF call[p].tries <= retries
       THEN call' = [call EXCEPT ![p].tries = @ + 1] /\ UNCHANGED result
       ELSE Return(p, "ConnectionError", None)
  /\ UNCHANGED <<data, meta, archive, now, faults, cached>>

\* Slip: an answer that cannot be had is stored as an empty one.
FetchFailsSoft(p) ==
  /\ At(p, "fetch")
  /\ IF call[p].tries < retries
       THEN call' = [call EXCEPT ![p].tries = @ + 1]
       ELSE call' = [call EXCEPT ![p].raw = Empty, ![p].at = Then["start"]]
  /\ UNCHANGED <<data, meta, archive, result, now, faults, cached>>

\* retries + 1 attempts, then ConnectionError: nothing has been written.
FetchFails(p) ==
  /\ At(p, "fetch")
  /\ IF call[p].tries < retries
       THEN call' = [call EXCEPT ![p].tries = @ + 1] /\ UNCHANGED result
       ELSE Return(p, "ConnectionError", None)
  /\ UNCHANGED <<data, meta, archive, now, faults, cached>>

\* A response that breaks off or is not HTTP is no OSError: fetch does not retry.
FetchRaises(p) ==
  /\ At(p, "fetch")
  /\ Return(p, "HTTPException", None)
  /\ UNCHANGED <<data, meta, archive, now, faults, cached>>

-----------------------------------------------------------------------------
(* The rest of update and of snapshot_import *)

\* A file that another writer has filled since it was opened keeps that
\* writer's tail when its content is the longer one.
Overwrite(content, mine) == IF content = Empty THEN {mine} ELSE {mine, Garbled}

\* Slip: a file that exists is kept.
OpenDataKeeps(p) ==
  /\ At(p, "open_data")
  /\ IF call[p].raw = None \/ Data(p) # None
       THEN Goto(p, Then["write_data"]) /\ UNCHANGED data
       ELSE Goto(p, "write_data") /\ data' = [data EXCEPT ![SiteOf[p]] = Empty]
  /\ UNCHANGED <<meta, archive, result, now, faults, cached>>

\* An archive without the file leaves the directory's own alone.
OpenData(p) ==
  /\ At(p, "open_data")
  /\ IF call[p].raw = None
       THEN Goto(p, Then["write_data"]) /\ UNCHANGED data
       ELSE Goto(p, "write_data") /\ data' = [data EXCEPT ![SiteOf[p]] = Empty]
  /\ UNCHANGED <<meta, archive, result, now, faults, cached>>

WriteData(p) ==
  /\ At(p, "write_data")
  /\ \E d \in Overwrite(Data(p), call[p].raw) : data' = [data EXCEPT ![SiteOf[p]] = d]
  /\ Goto(p, Then["write_data"])
  /\ UNCHANGED <<meta, archive, result, now, faults, cached>>

\* update takes fetched_at before it opens the file.
OpenMeta(p) ==
  LET text == IF call[p].op = "import" THEN call[p].text
              ELSE [of |-> call[p].raw, at |-> now]
  IN  /\ At(p, "open_meta")
      /\ IF text.of = None
           THEN Goto(p, Then["write_meta"]) /\ UNCHANGED meta
           ELSE /\ call' = [call EXCEPT ![p].text = text, ![p].at = "write_meta"]
                /\ meta' = [meta EXCEPT ![SiteOf[p]] = [of |-> Empty, at |-> None]]
      /\ UNCHANGED <<data, archive, result, now, faults, cached>>

WriteMeta(p) ==
  /\ At(p, "write_meta")
  /\ \E of \in Overwrite(Meta(p).of, call[p].text.of) :
       meta' = [meta EXCEPT ![SiteOf[p]] =
                  IF of = Garbled THEN [of |-> Garbled, at |-> None] ELSE call[p].text]
  /\ Goto(p, Then["write_meta"])
  /\ UNCHANGED <<data, archive, result, now, faults, cached>>

\* update and import return; get goes on to read what it has refreshed.
Written(p) ==
  /\ At(p, "done")
  /\ cached' = cached \cup (IF call[p].raw = None THEN {} ELSE {SiteOf[p]})
  /\ IF call[p].op = "get" THEN Goto(p, "read") /\ UNCHANGED result
     ELSE Return(p, "ok", None)
  /\ UNCHANGED <<data, meta, archive, now, faults>>

-----------------------------------------------------------------------------
(* get *)

\* cached_age_hours is None for a meta file that is not there or not JSON.
AgeKnown(m) == Readable(m.of)
TooOld(m) == now - m.at > max_age

CheckAge(p) ==
  LET m == Meta(p)
  IN  /\ At(p, "age")
      /\ CASE call[p].op = "get offline" /\ ~AgeKnown(m) ->
                Return(p, "FileNotFoundError", None)
           [] call[p].op = "get" /\ (~AgeKnown(m) \/ TooOld(m)) ->
                Goto(p, "fetch") /\ UNCHANGED result
           [] OTHER ->
                /\ call' = [call EXCEPT ![p].seen = m, ![p].at = "read"]
                /\ UNCHANGED result
      /\ UNCHANGED <<data, meta, archive, now, faults, cached>>

\* read_bytes raises when there is no file, json.loads when it is not JSON.
ReadData(p) ==
  /\ At(p, "read")
  /\ CASE Data(p) = None     -> Return(p, "FileNotFoundError", None)
       [] Readable(Data(p))  -> Return(p, "ok", Data(p))
       [] OTHER              -> Return(p, "ValueError", None)
  /\ UNCHANGED <<data, meta, archive, now, faults, cached>>

-----------------------------------------------------------------------------
(* snapshot_export and the start of snapshot_import *)

NoArchive == [whole |-> FALSE, data |-> None, meta |-> NoMeta]

\* Both globs, and tarfile.open, which truncates the archive.  A file that is
\* not listed is not copied.
ExportList(p) ==
  /\ At(p, "list")
  /\ call' = [call EXCEPT ![p].at = "tar_data",
                ![p].listed = (IF Data(p) = None THEN {} ELSE {"data"})
                              \cup (IF Meta(p).of = None THEN {} ELSE {"meta"})]
  /\ archive' = NoArchive
  /\ UNCHANGED <<data, meta, result, now, faults, cached>>

ExportData(p) ==
  /\ At(p, "tar_data")
  /\ call' = [call EXCEPT ![p].raw = IF "data" \in call[p].listed THEN Data(p) ELSE None,
                          ![p].at = "tar_meta"]
  /\ UNCHANGED <<data, meta, archive, result, now, faults, cached>>

\* Slip: only the data files are listed.
ExportDataOnly(p) ==
  /\ At(p, "tar_meta")
  /\ archive' = [whole |-> TRUE, data |-> call[p].raw, meta |-> NoMeta]
  /\ Return(p, "ok", None)
  /\ UNCHANGED <<data, meta, now, faults, cached>>

ExportMeta(p) ==
  /\ At(p, "tar_meta")
  /\ archive' = [ whole |-> TRUE, data |-> call[p].raw,
                  meta |-> IF "meta" \in call[p].listed THEN Meta(p) ELSE NoMeta ]
  /\ Return(p, "ok", None)
  /\ UNCHANGED <<data, meta, now, faults, cached>>

\* getmembers reads the whole archive first: a cut one raises before any write.
Unpack(p) ==
  /\ At(p, "unpack")
  /\ IF archive.whole
       THEN /\ call' = [call EXCEPT ![p].raw = archive.data, ![p].text = archive.meta,
                                    ![p].at = Then["start"]]
            /\ UNCHANGED result
       ELSE Return(p, "ReadError", None)
  /\ UNCHANGED <<data, meta, archive, now, faults, cached>>

-----------------------------------------------------------------------------
(* The environment *)

Tick == /\ now < MaxTime
        /\ now' = now + 1
        /\ UNCHANGED <<data, meta, archive, call, result, faults, cached>>

\* A process is killed, or open or write raises OSError: the call ends where it
\* stands, and a write in progress may have stored a part.
Fault(p) ==
  /\ ~At(p, "idle") /\ faults < MaxFaults
  /\ faults' = faults + 1
  /\ data' \in {data} \cup (IF At(p, "write_data")
                              THEN {[data EXCEPT ![SiteOf[p]] = Garbled]} ELSE {})
  /\ meta' \in {meta} \cup (IF At(p, "write_meta")
                              THEN {[meta EXCEPT ![SiteOf[p]] = [of |-> Garbled, at |-> None]]}
                              ELSE {})
  /\ Return(p, "fault", None)
  /\ UNCHANGED <<archive, now, cached>>

Init ==
  /\ data = [s \in Sites |-> None] /\ meta = [s \in Sites |-> NoMeta]
  /\ archive = NoArchive
  /\ call = [p \in Procs |-> Idle]
  /\ result = [p \in Procs |-> NoResult]
  /\ now = 0 /\ faults = 0 /\ cached = {}

\* A step of a call that has begun.
Proceed(p) == \/ FetchOk(p) \/ FetchFails(p) \/ FetchRaises(p)
              \/ OpenData(p) \/ WriteData(p) \/ OpenMeta(p) \/ WriteMeta(p) \/ Written(p)
              \/ CheckAge(p) \/ ReadData(p)
              \/ ExportList(p) \/ ExportData(p) \/ ExportMeta(p) \/ Unpack(p)

Next == \/ Tick
        \/ \E p \in Procs : \/ Update(p) \/ Get(p) \/ Export(p) \/ Import(p)
                            \/ Proceed(p) \/ Fault(p)

Spec == Init /\ [][Next]_vars

\* Every socket operation of fetch has a timeout, so an attempt ends, well or
\* not; all else is local.
FairSpec == Spec /\ \A p \in Procs : WF_vars(Proceed(p))

-----------------------------------------------------------------------------
(* Properties *)

Times == 0..MaxTime
NotJson == {None, Empty, Garbled}
Content == Times \cup NotJson
MetaContent == [of : Times, at : Times] \cup [of : NotJson, at : {None}]
Places == {"idle", "fetch", "open_data", "write_data", "open_meta", "write_meta",
           "done", "age", "read", "list", "tar_data", "tar_meta", "unpack"}
Downloaded == {"open_data", "write_data", "open_meta", "write_meta", "done"}

CallType ==
  [ op : OpNames \cup {""}, at : Places, raw : Content, text : MetaContent,
    tries : 0..retries, listed : SUBSET {"data", "meta"}, seen : MetaContent,
    known : BOOLEAN ]

Endings == {"", "ok", "fault", "ConnectionError", "HTTPException", "FileNotFoundError",
            "ValueError", "ReadError"}
ResultType ==
  [ op : OpNames \cup {""}, how : Endings, value : Content, seen : Content,
    known : BOOLEAN ]

\* Types.  A meta file has a fetched_at exactly when it can be read, and only an
\* import writes what is not a download.
TypeOK ==
  /\ data \in [Sites -> Content] /\ meta \in [Sites -> MetaContent]
  /\ archive \in [whole : BOOLEAN, data : Content, meta : MetaContent]
  /\ call \in [Procs -> CallType] /\ result \in [Procs -> ResultType]
  /\ \A p \in Procs : /\ At(p, "idle") \/ call[p].op \in Ops[p]
                      /\ call[p].at \in Downloaded /\ call[p].op # "import"
                           => call[p].raw \in Times
                      /\ At(p, "unpack") => call[p].op = "import"
  /\ now \in Times /\ faults \in 0..MaxFaults /\ cached \subseteq Sites

Quiet(s) == \A p \in Procs : SiteOf[p] = s => At(p, "idle")

\* When calls do not overlap and none is cut off, a directory holds between
\* calls either nothing or one download with its own meta, through every
\* failed fetch, refresh, export and import.
SettledCache == \A s \in Sites : Quiet(s) => Whole(data[s], meta[s])

\* The doc's claim (README, edge deployment): what was cached once is served
\* with --offline.  `known`: an update or import had ended before the call.
OfflineKeepsWorking ==
  \A p \in Procs : result[p].op = "get offline" /\ result[p].known
                   /\ result[p].how # "fault" => result[p].how = "ok"

\* Meta never vouches for data older than what it was written for, also while
\* an update runs and after it was cut off: data is written first.
NeverOverstated ==
  \A s \in Sites : Readable(data[s]) /\ Readable(meta[s].of) => data[s] >= meta[s].of

\* A get that relies on the cache (seen) returns content at least as recent as the
\* download whose fetched_at it found fresh, although the files are read one
\* after the other (docstring of get: "Uses the cache when fresh").
GetReturnsFresh ==
  \A p \in Procs :
    result[p].op \in {"get", "get offline"} /\ result[p].how = "ok"
      => result[p].value >= result[p].seen

\* Why those two hold for one writer at a time and no import: among the processes
\* of a directory one at most writes, and between its download and its return it
\* holds the newest content (FreshWriter), which every get that is running
\* may meet (FreshReaders).
FreshFiles == \A s \in Sites :
  /\ data[s] <= now /\ meta[s].of <= now
  /\ Readable(data[s]) => meta[s].of <= data[s]

OneWriter == \A p, q \in Procs :
  p # q /\ SiteOf[p] = SiteOf[q] => call[p].op \notin Writers \/ call[q].op \notin Writers

Roles == \A p \in Procs : /\ At(p, "idle") => call[p].op = ""
                          /\ call[p].at \in Downloaded \cup {"fetch"} => call[p].op \in Writers
                          /\ call[p].at \in {"list", "tar_data", "tar_meta"}
                               => call[p].op = "export"

FreshWriter == \A p \in Procs : call[p].at \in Downloaded =>
  /\ call[p].raw <= now /\ Data(p) <= call[p].raw /\ Meta(p).of <= call[p].raw
  /\ At(p, "write_data") => Data(p) = Empty
  /\ call[p].at \in {"open_meta", "write_meta", "done"} => Data(p) = call[p].raw
  /\ At(p, "write_meta") => call[p].text.of = call[p].raw /\ Meta(p).of = Empty

FreshReaders == \A p \in Procs :
  /\ call[p].seen.of <= now
  /\ Readable(Data(p)) => call[p].seen.of <= Data(p)
  /\ \A q \in Procs : SiteOf[q] = SiteOf[p] /\ call[q].at \in Downloaded
                         => call[p].seen.of <= call[q].raw

FreshInv == OneWriter /\ Roles /\ FreshFiles /\ FreshWriter /\ FreshReaders
            /\ NeverOverstated /\ GetReturnsFresh

\* Every call returns or raises, however often the download fails and whatever
\* other processes do to the files meanwhile: nothing waits for another process.
CallEnds == \A p \in Procs : ~At(p, "idle") ~> At(p, "idle")

-----------------------------------------------------------------------------
(* With one call at a time and no faults the files implement FeedRegister. *)

\* The content a directory stands for: from the return of fetch, or the reading
\* of an archive, what the call is about to write.
Filling(s) == {p \in Procs : SiteOf[p] = s /\ call[p].at \in Downloaded /\ call[p].raw # None}
Holds(s) == IF Filling(s) # {} THEN call[CHOOSE p \in Filling(s) : TRUE].raw ELSE data[s]

Register == INSTANCE FeedRegister WITH
  reg      <- [s \in Sites |-> Holds(s)],
  snapshot <- IF archive.whole THEN archive.data ELSE None,
  answer   <- [p \in Procs |-> [how |-> result[p].how, value |-> result[p].value]]

\* The two files, the truncating writes, the retries and the archive do not show:
\* whoever uses the cache sees a register that a failed download leaves alone
\* and that only refuses an offline get when it is empty (docstring of get).
ImplementsFeedRegister == Register!Spec
=============================================================================
