-------------------------- MODULE FeedRegister_proofs --------------------------
(***************************************************************************)
(* With one call at a time in each directory and nothing cut off, FeedCache *)
(* implements FeedRegister, for any number of processes and directories,   *)
(* any retries and any age; and what that rests on.                        *)
(***************************************************************************)
EXTENDS FeedCache_proofs

\* The conditions of use.
Undisturbed == Overlap = "nothing" /\ MaxFaults = 0

-----------------------------------------------------------------------------
(* The invariant *)

Solo == \A p, q \in Procs : p # q /\ SiteOf[p] = SiteOf[q] => At(p, "idle") \/ At(q, "idle")

Before == {"fetch", "age", "read", "list", "tar_data", "tar_meta", "unpack", "open_data", "done"}

\* What a call knows of the files d and m of its directory at each place.
CallSettled(c, d, m) ==
  /\ c.at \in Before => Whole(d, m)
  /\ c.at \in Downloaded /\ c.op = "import" => Whole(c.raw, c.text)
  /\ c.at = "fetch" => c.op \in {"update", "get"}
  /\ c.at = "age" => c.op \in {"get", "get offline"}
  /\ c.at \in Downloaded => c.op \in Writers
  /\ c.at \in {"list", "tar_data", "tar_meta"} => c.op = "export"
  /\ c.at = "write_data" => c.raw # None /\ d = Empty
  /\ c.at = "open_meta" => IF c.raw = None THEN Whole(d, m) ELSE d = c.raw
  /\ c.at = "write_meta" => c.raw # None /\ d = c.raw /\ c.text.of = c.raw /\ m.of = Empty
  /\ c.at = "done" /\ c.raw # None => d = c.raw
  /\ c.at = "read" => d # None
  /\ c.at \in {"tar_data", "tar_meta"} => /\ "data" \in c.listed <=> d # None
                                          /\ "meta" \in c.listed <=> m.of # None
  /\ c.at = "tar_meta" => c.raw = d

CallsSettled == \A p \in Procs : CallSettled(call[p], Data(p), Meta(p))

ArchiveWhole == archive.whole => Whole(archive.data, archive.meta)

\* A directory that has been filled stays filled.
StaysFilled == /\ \A s \in cached : data[s] # None
               /\ \A p \in Procs : call[p].known => SiteOf[p] \in cached

SettledInv == /\ Solo /\ SettledCache /\ CallsSettled /\ ArchiveWhole
              /\ StaysFilled /\ OfflineKeepsWorking

Alone(p) == \A q \in Procs : q # p /\ SiteOf[q] = SiteOf[p] => At(q, "idle")

LEMMA RunningIsAlone ==
  ASSUME Solo, NEW p \in Procs, ~At(p, "idle") PROVE Alone(p)
BY DEF Solo, Alone

\* A step of a process that is alone in its directory.
LEMMA LocalStep ==
  ASSUME SettledCache, CallsSettled, Solo, NEW p \in Procs, Alone(p),
         \A q \in Procs : q # p => call'[q] = call[q],
         \A s \in Sites : s # SiteOf[p] => data'[s] = data[s] /\ meta'[s] = meta[s],
         CallSettled(call'[p], Data(p)', Meta(p)'),
         call'[p].at = "idle" => Whole(Data(p)', Meta(p)')
  PROVE  Solo' /\ SettledCache' /\ CallsSettled'
<1>1. Solo'
  BY DEF Solo, Alone, At
<1>2. SettledCache'
  <2> SUFFICES ASSUME NEW s \in Sites, Quiet(s)' PROVE Whole(data'[s], meta'[s])
    BY DEF SettledCache, Whole
  <2>1. CASE s = SiteOf[p]
    BY <2>1 DEF Quiet, At, Data, Meta
  <2>2. CASE s # SiteOf[p]
    <3>1. Quiet(s)
      BY <2>2 DEF Quiet, At
    <3> QED
      BY <2>2, <3>1 DEF SettledCache
  <2> QED
    BY <2>1, <2>2
<1>3. ASSUME NEW q \in Procs PROVE CallSettled(call'[q], Data(q)', Meta(q)')
  <2>1. CASE q = p
    BY <2>1
  <2>2. CASE q # p /\ SiteOf[q] = SiteOf[p]
    <3>1. call'[q].at = "idle"
      BY <2>2 DEF Alone, At
    <3> QED
      BY <3>1 DEF CallSettled, Before, Downloaded
  <2>3. CASE q # p /\ SiteOf[q] # SiteOf[p]
    <3>1. Data(q)' = Data(q) /\ Meta(q)' = Meta(q)
      BY <2>3, ProcsAssumption DEF Data, Meta
    <3>2. call'[q] = call[q]
      BY <2>3
    <3> QED
      BY <3>1, <3>2 DEF CallsSettled
  <2> QED
    BY <2>1, <2>2, <2>3
<1> QED
  BY <1>1, <1>2, <1>3 DEF CallsSettled

\* What such a step does to the directories that have been filled.
LEMMA FilledStep ==
  ASSUME TypeOK, StaysFilled, NEW p \in Procs,
         \A q \in Procs : q # p => call'[q] = call[q],
         call'[p].known => SiteOf[p] \in cached,
         \A s \in Sites : s # SiteOf[p] => data'[s] = data[s] /\ meta'[s] = meta[s],
         cached \subseteq cached', cached' \subseteq cached \cup {SiteOf[p]},
         SiteOf[p] \in cached' => Data(p)' # None
  PROVE  StaysFilled'
<1>1. ASSUME NEW s \in cached' PROVE data'[s] # None
  <2>1. CASE s = SiteOf[p]
    BY <1>1, <2>1 DEF Data
  <2>2. CASE s # SiteOf[p]
    BY <1>1, <2>2 DEF TypeOK, StaysFilled
  <2> QED
    BY <2>1, <2>2
<1>2. ASSUME NEW q \in Procs, call'[q].known PROVE SiteOf[q] \in cached'
  <2>1. CASE q = p
    BY <1>2, <2>1
  <2>2. CASE q # p
    BY <1>2, <2>2 DEF StaysFilled
  <2> QED
    BY <2>1, <2>2
<1> QED
  BY <1>1, <1>2 DEF StaysFilled

\* And to the results.
LEMMA ResultStep ==
  ASSUME TypeOK, OfflineKeepsWorking, NEW p \in Procs,
         \/ UNCHANGED result
         \/ \E r : /\ result' = [result EXCEPT ![p] = r]
                   /\ r.op = "get offline" /\ r.known /\ r.how # "fault" => r.how = "ok"
  PROVE  OfflineKeepsWorking'
BY DEF OfflineKeepsWorking, TypeOK

\* A step of a call as a whole: where it goes, what it leaves in the files, what
\* result it gives.
LEMMA StepKeeps ==
  ASSUME TypeOK, SettledInv, NEW p \in Procs, Alone(p),
         NEW c, call' = [call EXCEPT ![p] = c],
         c.known => SiteOf[p] \in cached,
         \A s \in Sites : s # SiteOf[p] => data'[s] = data[s] /\ meta'[s] = meta[s],
         CallSettled(c, Data(p)', Meta(p)'),
         c.at = "idle" => Whole(Data(p)', Meta(p)'),
         cached \subseteq cached', cached' \subseteq cached \cup {SiteOf[p]},
         SiteOf[p] \in cached' => Data(p)' # None,
         ArchiveWhole',
         \/ UNCHANGED result
         \/ \E r : /\ result' = [result EXCEPT ![p] = r]
                   /\ r.op = "get offline" /\ r.known /\ r.how # "fault" => r.how = "ok"
  PROVE  SettledInv'
<1>1. call'[p] = c /\ \A q \in Procs : q # p => call'[q] = call[q]
  BY DEF TypeOK
<1>2. Solo' /\ SettledCache' /\ CallsSettled'
  BY <1>1, LocalStep DEF SettledInv
<1>3. StaysFilled'
  BY <1>1, FilledStep DEF SettledInv
<1>4. OfflineKeepsWorking'
  BY ResultStep DEF SettledInv
<1> QED
  BY <1>2, <1>3, <1>4 DEF SettledInv

\* A call that goes on without touching anything else.
LEMMA GoOnKeeps ==
  ASSUME TypeOK, SettledInv, NEW p \in Procs, ~At(p, "idle"),
         NEW c, call' = [call EXCEPT ![p] = c], c.known = call[p].known, c.at # "idle",
         CallSettled(c, Data(p), Meta(p)), UNCHANGED <<data, meta, archive, result, cached>>
  PROVE  SettledInv'
<1>1. Alone(p)
  BY RunningIsAlone DEF SettledInv
<1>2. Data(p)' = Data(p) /\ Meta(p)' = Meta(p)
  BY DEF Data, Meta
<1>3. ArchiveWhole' /\ (c.known => SiteOf[p] \in cached)
  BY DEF SettledInv, ArchiveWhole, StaysFilled
<1>4. SiteOf[p] \in cached => Data(p) # None
  BY DEF SettledInv, StaysFilled, Data
<1> QED
  BY <1>1, <1>2, <1>3, <1>4, StepKeeps

\* The end of a call.
LEMMA ReturnKeeps ==
  ASSUME TypeOK, SettledInv, NEW p \in Procs, ~At(p, "idle"), NEW h, NEW v, Return(p, h, v),
         Whole(Data(p), Meta(p)), ArchiveWhole', UNCHANGED <<data, meta>>,
         cached' = cached \/ (cached' = cached \cup {SiteOf[p]} /\ Data(p) # None),
         call[p].op = "get offline" /\ call[p].known => h = "ok"
  PROVE  SettledInv'
<1>1. Alone(p)
  BY RunningIsAlone DEF SettledInv
<1>2. Data(p)' = Data(p) /\ Meta(p)' = Meta(p)
  BY DEF Data, Meta
<1>3. Idle.at = "idle" /\ Idle.known = FALSE
  BY DEF Idle
<1>4. CallSettled(Idle, Data(p), Meta(p))
  BY <1>3 DEF CallSettled, Before, Downloaded
<1>5. SiteOf[p] \in cached' => Data(p) # None
  BY DEF SettledInv, StaysFilled, Data
<1>6. \/ UNCHANGED result
      \/ \E r : /\ result' = [result EXCEPT ![p] = r]
                /\ r.op = "get offline" /\ r.known /\ r.how # "fault" => r.how = "ok"
  <2> DEFINE r == [ op |-> call[p].op, how |-> h, value |-> v,
                    seen |-> call[p].seen.of, known |-> call[p].known ]
  <2>1. r.op = call[p].op /\ r.known = call[p].known /\ r.how = h
    OBVIOUS
  <2>2. UNCHANGED result \/ result' = [result EXCEPT ![p] = r]
    BY DEF Return
  <2> HIDE DEF r
  <2> QED
    BY <2>1, <2>2
<1>7. call' = [call EXCEPT ![p] = Idle]
  BY DEF Return
<1> QED
  BY <1>1, <1>2, <1>3, <1>4, <1>5, <1>6, <1>7, StepKeeps

\* The beginning of a call, when nobody else uses the directory.
LEMMA BeginKeeps ==
  ASSUME Undisturbed, TypeOK, SettledInv, NEW p \in Procs, NEW op, NEW w,
         Begin(p, op, w),
         \/ w = "fetch" /\ op = "update"
         \/ w = "unpack"
         \/ w = "age" /\ op \in {"get", "get offline"}
         \/ w = "list" /\ op = "export"
  PROVE  SettledInv'
<1> DEFINE k == SiteOf[p] \in cached
           c == [Idle EXCEPT !.op = op, !.at = w, !.known = k]
<1>1. call' = [call EXCEPT ![p] = c]
  BY DEF Begin
<1>2. c.op = op /\ c.at = w /\ c.known = k
  BY DEF Idle
<1> HIDE DEF c
<1>3. Alone(p)
  BY DEF Begin, MayOverlap, Alone, Undisturbed
<1>4. Data(p)' = Data(p) /\ Meta(p)' = Meta(p)
  BY DEF Data, Meta, Begin
<1>5. Whole(Data(p), Meta(p))
  <2>1. At(p, "idle")
    BY DEF Begin
  <2>2. SiteOf[p] \in Sites /\ Quiet(SiteOf[p])
    BY <1>3, <2>1, ProcsAssumption DEF Alone, Quiet
  <2> QED
    BY <2>2 DEF SettledInv, SettledCache, Data, Meta
<1>6. CallSettled(c, Data(p), Meta(p))
  BY <1>2, <1>5 DEF CallSettled, Before, Downloaded, Writers
<1>7. ArchiveWhole' /\ (SiteOf[p] \in cached' => Data(p) # None)
  BY DEF SettledInv, StaysFilled, Data, Begin, ArchiveWhole
<1>8. \E r : /\ result' = [result EXCEPT ![p] = r]
             /\ r.op = "get offline" /\ r.known /\ r.how # "fault" => r.how = "ok"
  <2>1. NoResult.op = ""
    BY DEF NoResult
  <2>2. result' = [result EXCEPT ![p] = NoResult]
    BY DEF Begin
  <2> QED
    BY <2>1, <2>2
<1>9. UNCHANGED <<data, meta, cached>>
  BY DEF Begin
<1> QED
  BY <1>1, <1>2, <1>3, <1>4, <1>6, <1>7, <1>8, <1>9, w # "idle", StepKeeps

-----------------------------------------------------------------------------
(* One lemma per action *)

LEMMA CallOf ==
  ASSUME TypeOK, SettledInv, NEW p \in Procs
  PROVE  /\ call[p] \in CallType /\ CallSettled(call[p], Data(p), Meta(p))
         /\ call[p].at \in Downloaded /\ call[p].op # "import" => call[p].raw \in Times
         /\ At(p, "unpack") => call[p].op = "import"
         /\ \A t \in Times : Readable(t)
         /\ now \in Times
BY DEF TypeOK, SettledInv, CallsSettled, Times, Readable

\* What a call is about to write can be read.
LEMMA RawReadable ==
  ASSUME TypeOK, SettledInv, NEW p \in Procs, call[p].at \in Downloaded, call[p].raw # None
  PROVE  Readable(call[p].raw)
BY CallOf DEF CallSettled, Whole

LEMMA FetchKeeps ==
  ASSUME TypeOK, SettledInv, NEW p \in Procs, FetchOk(p) \/ FetchFails(p) \/ FetchRaises(p)
  PROVE  SettledInv'
<1>0. /\ ~At(p, "idle") /\ call[p].at = "fetch" /\ call[p].op \in {"update", "get"}
      /\ Whole(Data(p), Meta(p)) /\ call[p] \in CallType /\ ArchiveWhole
      /\ UNCHANGED <<data, meta, archive, cached>>
  BY CallOf DEF FetchOk, FetchFails, FetchRaises, At, CallSettled, Before, Downloaded, SettledInv
<1>a. ArchiveWhole'
  BY <1>0 DEF ArchiveWhole
<1>1. CASE FetchOk(p)
  <2> DEFINE c == [call[p] EXCEPT !.raw = now, !.at = Then["start"]]
  <2>1. c.at = "open_data" /\ c.op = call[p].op /\ c.known = call[p].known
    BY <1>0 DEF CallType, Then
  <2>2. call' = [call EXCEPT ![p] = c] /\ UNCHANGED result
    BY <1>1 DEF FetchOk
  <2> HIDE DEF c
  <2>3. CallSettled(c, Data(p), Meta(p))
    BY <1>0, <2>1 DEF CallSettled, Before, Downloaded, Writers
  <2> QED
    BY <1>0, <2>1, <2>2, <2>3, GoOnKeeps
<1>2. CASE FetchFails(p) /\ call[p].tries < retries
  <2> DEFINE c == [call[p] EXCEPT !.tries = @ + 1]
  <2>1. c.at = "fetch" /\ c.op = call[p].op /\ c.known = call[p].known
    BY <1>0 DEF CallType
  <2>2. call' = [call EXCEPT ![p] = c] /\ UNCHANGED result
    BY <1>2 DEF FetchFails
  <2> HIDE DEF c
  <2>3. CallSettled(c, Data(p), Meta(p))
    BY <1>0, <2>1 DEF CallSettled, Before, Downloaded
  <2> QED
    BY <1>0, <2>1, <2>2, <2>3, GoOnKeeps
<1>3. CASE \E why : Return(p, why, None)
  BY <1>0, <1>a, <1>3, ReturnKeeps
<1> QED
  BY <1>1, <1>2, <1>3 DEF FetchFails, FetchRaises

\* A writer that puts content into one of its two files.
LEMMA WriteKeeps ==
  ASSUME TypeOK, SettledInv, NEW p \in Procs, ~At(p, "idle"),
         NEW c, call' = [call EXCEPT ![p] = c], c.known = call[p].known, c.at # "idle",
         NEW d, NEW m,
         \/ data' = [data EXCEPT ![SiteOf[p]] = d] /\ UNCHANGED meta /\ m = Meta(p)
         \/ meta' = [meta EXCEPT ![SiteOf[p]] = m] /\ UNCHANGED data /\ d = Data(p),
         CallSettled(c, d, m), d = None => d = Data(p),
         UNCHANGED <<archive, result, cached>>
  PROVE  SettledInv'
<1>1. Alone(p)
  BY RunningIsAlone DEF SettledInv
<1>2. /\ Data(p)' = d /\ Meta(p)' = m
      /\ \A s \in Sites : s # SiteOf[p] => data'[s] = data[s] /\ meta'[s] = meta[s]
  BY ProcsAssumption DEF Data, Meta, TypeOK
<1>3. ArchiveWhole' /\ (c.known => SiteOf[p] \in cached)
  BY DEF SettledInv, ArchiveWhole, StaysFilled
<1>4. SiteOf[p] \in cached => d # None
  BY DEF SettledInv, StaysFilled, Data
<1> QED
  BY <1>1, <1>2, <1>3, <1>4, StepKeeps

LEMMA OpenDataKeepsInv ==
  ASSUME TypeOK, SettledInv, NEW p \in Procs, OpenData(p) PROVE SettledInv'
<1>0. /\ call[p].at = "open_data" /\ ~At(p, "idle") /\ call[p].op \in Writers
      /\ call[p] \in CallType /\ Whole(Data(p), Meta(p))
      /\ call[p].op = "import" => Whole(call[p].raw, call[p].text)
      /\ UNCHANGED <<meta, archive, result, cached>>
  BY CallOf DEF OpenData, At, CallSettled, Before, Downloaded
<1>1. CASE call[p].raw = None
  <2> DEFINE c == [call[p] EXCEPT !.at = Then["write_data"]]
  <2>1. /\ c.at = "open_meta" /\ c.op = call[p].op /\ c.known = call[p].known
        /\ c.raw = call[p].raw /\ c.text = call[p].text
    BY <1>0 DEF CallType, Then
  <2>2. call' = [call EXCEPT ![p] = c] /\ UNCHANGED data
    BY <1>1 DEF OpenData, Goto
  <2> HIDE DEF c
  <2>3. CallSettled(c, Data(p), Meta(p))
    BY <1>0, <1>1, <2>1 DEF CallSettled, Before, Downloaded
  <2> QED
    BY <1>0, <2>1, <2>2, <2>3, GoOnKeeps
<1>2. CASE call[p].raw # None
  <2> DEFINE c == [call[p] EXCEPT !.at = "write_data"]
  <2>1. /\ c.at = "write_data" /\ c.op = call[p].op /\ c.known = call[p].known
        /\ c.raw = call[p].raw /\ c.text = call[p].text
    BY <1>0 DEF CallType
  <2>2. call' = [call EXCEPT ![p] = c] /\ data' = [data EXCEPT ![SiteOf[p]] = Empty]
    BY <1>2 DEF OpenData, Goto
  <2> HIDE DEF c
  <2>3. CallSettled(c, Empty, Meta(p))
    BY <1>0, <1>2, <2>1 DEF CallSettled, Before, Downloaded
  <2>4. Empty # None
    BY DEF Empty, None
  <2> QED
    BY <1>0, <2>1, <2>2, <2>3, <2>4, WriteKeeps
<1> QED
  BY <1>1, <1>2

LEMMA WriteDataKeeps ==
  ASSUME TypeOK, SettledInv, NEW p \in Procs, WriteData(p) PROVE SettledInv'
<1>0. /\ call[p].at = "write_data" /\ ~At(p, "idle") /\ call[p].op \in Writers
      /\ call[p] \in CallType /\ call[p].raw # None /\ Data(p) = Empty
      /\ call[p].op = "import" => Whole(call[p].raw, call[p].text)
      /\ UNCHANGED <<meta, archive, result, cached>>
  BY CallOf DEF WriteData, At, CallSettled, Before, Downloaded
<1> DEFINE c == [call[p] EXCEPT !.at = Then["write_data"]]
<1>1. /\ c.at = "open_meta" /\ c.op = call[p].op /\ c.known = call[p].known
      /\ c.raw = call[p].raw /\ c.text = call[p].text
  BY <1>0 DEF CallType, Then
<1>2. call' = [call EXCEPT ![p] = c] /\ data' = [data EXCEPT ![SiteOf[p]] = call[p].raw]
  BY <1>0 DEF WriteData, Goto, Overwrite
<1> HIDE DEF c
<1>3. CallSettled(c, call[p].raw, Meta(p))
  BY <1>0, <1>1 DEF CallSettled, Before, Downloaded
<1> QED
  BY <1>0, <1>1, <1>2, <1>3, WriteKeeps

\* The part of OpenMeta that opens the file.
LEMMA OpenMetaOpens ==
  ASSUME TypeOK, SettledInv, NEW p \in Procs, call[p].at = "open_meta", NEW t,
         t.of = call[p].raw, t.of # None,
         call' = [call EXCEPT ![p].text = t, ![p].at = "write_meta"],
         meta' = [meta EXCEPT ![SiteOf[p]] = [of |-> Empty, at |-> None]],
         UNCHANGED <<data, archive, result, cached>>
  PROVE  SettledInv'
<1>0. /\ ~At(p, "idle") /\ call[p].op \in Writers /\ call[p] \in CallType
      /\ Data(p) = call[p].raw /\ Readable(call[p].raw)
      /\ call[p].op = "import" => Whole(call[p].raw, call[p].text)
  BY CallOf, RawReadable DEF At, CallSettled, Before, Downloaded
<1> DEFINE c == [call[p] EXCEPT !.text = t, !.at = "write_meta"]
           m == [of |-> Empty, at |-> None]
<1>1. /\ c.at = "write_meta" /\ c.op = call[p].op /\ c.known = call[p].known
      /\ c.raw = call[p].raw /\ c.text = t /\ m.of = Empty
  BY <1>0 DEF CallType
<1>2. call' = [call EXCEPT ![p] = c] /\ meta' = [meta EXCEPT ![SiteOf[p]] = m]
  OBVIOUS
<1> HIDE DEF c, m
<1>3. CallSettled(c, Data(p), m)
  <2>1. Whole(c.raw, c.text)
    BY <1>0, <1>1 DEF Whole
  <2> QED
    BY <1>0, <1>1, <2>1 DEF CallSettled, Before, Downloaded
<1> QED
  BY <1>0, <1>1, <1>2, <1>3, WriteKeeps

LEMMA OpenMetaKeeps ==
  ASSUME TypeOK, SettledInv, NEW p \in Procs, OpenMeta(p) PROVE SettledInv'
<1> DEFINE t == IF call[p].op = "import" THEN call[p].text ELSE [of |-> call[p].raw, at |-> now]
<1>0. /\ call[p].at = "open_meta" /\ ~At(p, "idle") /\ call[p].op \in Writers
      /\ call[p] \in CallType
      /\ IF call[p].raw = None THEN Whole(Data(p), Meta(p)) ELSE Data(p) = call[p].raw
      /\ call[p].op = "import" => Whole(call[p].raw, call[p].text)
      /\ UNCHANGED <<data, archive, result, cached>>
  BY CallOf DEF OpenMeta, At, CallSettled, Before, Downloaded
<1>1. t.of = call[p].raw
  BY <1>0 DEF Whole
<1>2. IF t.of = None
        THEN call' = [call EXCEPT ![p].at = Then["write_meta"]] /\ UNCHANGED meta
        ELSE /\ call' = [call EXCEPT ![p].text = t, ![p].at = "write_meta"]
             /\ meta' = [meta EXCEPT ![SiteOf[p]] = [of |-> Empty, at |-> None]]
  BY DEF OpenMeta, Goto
<1> HIDE DEF t
<1>3. CASE t.of = None
  <2> DEFINE c == [call[p] EXCEPT !.at = Then["write_meta"]]
  <2>1. /\ c.at = "done" /\ c.op = call[p].op /\ c.known = call[p].known
        /\ c.raw = call[p].raw /\ c.text = call[p].text
    BY <1>0 DEF CallType, Then
  <2>2. call' = [call EXCEPT ![p] = c] /\ UNCHANGED meta
    BY <1>2, <1>3
  <2> HIDE DEF c
  <2>3. CallSettled(c, Data(p), Meta(p))
    BY <1>0, <1>1, <1>3, <2>1 DEF CallSettled, Before, Downloaded
  <2> QED
    BY <1>0, <2>1, <2>2, <2>3, GoOnKeeps
<1>4. CASE t.of # None
  BY <1>0, <1>1, <1>2, <1>4, OpenMetaOpens
<1> QED
  BY <1>3, <1>4

LEMMA WriteMetaKeeps ==
  ASSUME TypeOK, SettledInv, NEW p \in Procs, WriteMeta(p) PROVE SettledInv'
<1>0. /\ call[p].at = "write_meta" /\ ~At(p, "idle") /\ call[p].op \in Writers
      /\ call[p] \in CallType /\ Data(p) = call[p].raw /\ Readable(call[p].raw)
      /\ call[p].text.of = call[p].raw /\ Meta(p).of = Empty
      /\ UNCHANGED <<data, archive, result, cached>>
  BY CallOf, RawReadable DEF WriteMeta, At, CallSettled, Before, Downloaded
<1> DEFINE c == [call[p] EXCEPT !.at = Then["write_meta"]]
<1>1. /\ c.at = "done" /\ c.op = call[p].op /\ c.known = call[p].known
      /\ c.raw = call[p].raw /\ c.text = call[p].text
  BY <1>0 DEF CallType, Then
<1>2. call[p].text.of # Garbled
  BY <1>0 DEF Readable, Garbled
<1>3. meta' = [meta EXCEPT ![SiteOf[p]] = call[p].text]
  BY <1>0, <1>2 DEF WriteMeta, Overwrite
<1>4. call' = [call EXCEPT ![p] = c]
  BY DEF WriteMeta, Goto
<1> HIDE DEF c
<1>5. CallSettled(c, Data(p), call[p].text)
  <2>1. Whole(Data(p), call[p].text) /\ Whole(c.raw, c.text)
    BY <1>0, <1>1 DEF Whole
  <2> QED
    BY <1>0, <1>1, <2>1 DEF CallSettled, Before, Downloaded
<1> QED
  BY <1>0, <1>1, <1>3, <1>4, <1>5, WriteKeeps

LEMMA WrittenKeeps ==
  ASSUME TypeOK, SettledInv, NEW p \in Procs, Written(p) PROVE SettledInv'
<1>0. /\ call[p].at = "done" /\ ~At(p, "idle") /\ call[p].op \in Writers
      /\ call[p] \in CallType /\ Whole(Data(p), Meta(p)) /\ ArchiveWhole
      /\ call[p].raw # None => Data(p) = call[p].raw
      /\ call[p].op # "import" => call[p].raw # None
      /\ UNCHANGED <<data, meta, archive>>
      /\ cached' = cached \/ (cached' = cached \cup {SiteOf[p]} /\ Data(p) # None)
  <2>1. call[p].at = "done" /\ call[p].at \in Downloaded \cap Before /\ call[p].at # "idle"
    BY DEF Written, At, Before, Downloaded
  <2>2. None \notin Times
    BY DEF None, Times
  <2> QED
    BY <2>1, <2>2, CallOf DEF Written, At, CallSettled, SettledInv
<1>a. ArchiveWhole' /\ Data(p)' = Data(p) /\ Meta(p)' = Meta(p)
  BY <1>0 DEF ArchiveWhole, Data, Meta
<1>1. CASE call[p].op = "get"
  <2> DEFINE c == [call[p] EXCEPT !.at = "read"]
  <2>1. c.at = "read" /\ c.op = "get" /\ c.known = call[p].known
    BY <1>0, <1>1 DEF CallType
  <2>2. call' = [call EXCEPT ![p] = c] /\ UNCHANGED result
    BY <1>1 DEF Written, Goto
  <2> HIDE DEF c
  <2>3. CallSettled(c, Data(p), Meta(p))
    BY <1>0, <1>1, <2>1 DEF CallSettled, Before, Downloaded
  <2>4. Alone(p)
    BY <1>0, RunningIsAlone DEF SettledInv
  <2>5. c.known => SiteOf[p] \in cached
    BY <2>1 DEF SettledInv, StaysFilled
  <2>6. SiteOf[p] \in cached' => Data(p) # None
    BY <1>0, <1>1
  <2> QED
    BY <1>0, <1>a, <2>1, <2>2, <2>3, <2>4, <2>5, <2>6, StepKeeps
<1>2. CASE call[p].op # "get"
  <2>1. Return(p, "ok", None)
    BY <1>2 DEF Written
  <2> QED
    BY <1>0, <1>a, <2>1, ReturnKeeps
<1> QED
  BY <1>1, <1>2

LEMMA CheckAgeKeeps ==
  ASSUME TypeOK, SettledInv, NEW p \in Procs, CheckAge(p) PROVE SettledInv'
<1>0. /\ call[p].at = "age" /\ ~At(p, "idle") /\ call[p] \in CallType
      /\ Whole(Data(p), Meta(p)) /\ ArchiveWhole
      /\ call[p].op \in {"get", "get offline"}
      /\ UNCHANGED <<data, meta, archive, cached>>
  BY CallOf DEF CheckAge, At, CallSettled, Before, SettledInv
<1>a. ArchiveWhole'
  BY <1>0 DEF ArchiveWhole
<1>b. call[p].known => AgeKnown(Meta(p))
  BY <1>0 DEF SettledInv, StaysFilled, Data, Whole, AgeKnown
<1>1. CASE call[p].op = "get offline" /\ ~AgeKnown(Meta(p))
  <2>1. Return(p, "FileNotFoundError", None)
    BY <1>1 DEF CheckAge
  <2> QED
    BY <1>0, <1>a, <1>b, <1>1, <2>1, ReturnKeeps
<1>2. CASE call[p].op = "get" /\ (~AgeKnown(Meta(p)) \/ TooOld(Meta(p)))
  <2> DEFINE c == [call[p] EXCEPT !.at = "fetch"]
  <2>1. c.at = "fetch" /\ c.op = "get" /\ c.known = call[p].known
    BY <1>0, <1>2 DEF CallType
  <2>2. call' = [call EXCEPT ![p] = c] /\ UNCHANGED result
    BY <1>2 DEF CheckAge, Goto
  <2> HIDE DEF c
  <2>3. CallSettled(c, Data(p), Meta(p))
    BY <1>0, <2>1 DEF CallSettled, Before, Downloaded
  <2> QED
    BY <1>0, <2>1, <2>2, <2>3, GoOnKeeps
<1>3. CASE /\ ~(call[p].op = "get offline" /\ ~AgeKnown(Meta(p)))
           /\ ~(call[p].op = "get" /\ (~AgeKnown(Meta(p)) \/ TooOld(Meta(p))))
  <2> DEFINE c == [call[p] EXCEPT !.seen = Meta(p), !.at = "read"]
  <2>1. c.at = "read" /\ c.op = call[p].op /\ c.known = call[p].known
    BY <1>0 DEF CallType
  <2>2. call' = [call EXCEPT ![p] = c] /\ UNCHANGED result
    BY <1>3 DEF CheckAge
  <2> HIDE DEF c
  <2>a. AgeKnown(Meta(p))
    BY <1>0, <1>3, Zenon
  <2>b. ~Readable(None)
    BY DEF Readable, None
  <2>3. Data(p) # None
    BY <1>0, <2>a, <2>b DEF AgeKnown, Whole
  <2>4. CallSettled(c, Data(p), Meta(p))
    BY <1>0, <2>1, <2>3 DEF CallSettled, Before, Downloaded
  <2> QED
    BY <1>0, <2>1, <2>2, <2>4, GoOnKeeps
<1> QED
  BY <1>1, <1>2, <1>3

LEMMA ReadDataKeeps ==
  ASSUME TypeOK, SettledInv, NEW p \in Procs, ReadData(p)
  PROVE  SettledInv' /\ Return(p, "ok", Data(p)) /\ Data(p) # None
<1>1. /\ call[p].at = "read" /\ ~At(p, "idle") /\ Data(p) # None
      /\ Whole(Data(p), Meta(p)) /\ ArchiveWhole
      /\ UNCHANGED <<data, meta, archive, cached>>
  BY CallOf DEF ReadData, At, CallSettled, Before, SettledInv
<1>2. ArchiveWhole'
  BY <1>1 DEF ArchiveWhole
<1>3. Return(p, "ok", Data(p))
  BY <1>1 DEF ReadData, Whole
<1> QED
  BY <1>1, <1>2, <1>3, ReturnKeeps

LEMMA ExportListKeeps ==
  ASSUME TypeOK, SettledInv, NEW p \in Procs, ExportList(p) PROVE SettledInv'
<1> DEFINE l == (IF Data(p) = None THEN {} ELSE {"data"})
                  \cup (IF Meta(p).of = None THEN {} ELSE {"meta"})
           c == [call[p] EXCEPT !.at = "tar_data", !.listed = l]
<1>0. /\ call[p].at = "list" /\ ~At(p, "idle") /\ call[p].op = "export"
      /\ call[p] \in CallType /\ Whole(Data(p), Meta(p))
      /\ UNCHANGED <<data, meta, result, cached>>
  BY CallOf DEF ExportList, At, CallSettled, Before
<1>1. /\ c.at = "tar_data" /\ c.op = call[p].op /\ c.known = call[p].known /\ c.listed = l
      /\ "data" \in l <=> Data(p) # None
      /\ "meta" \in l <=> Meta(p).of # None
  BY <1>0 DEF CallType
<1>2. call' = [call EXCEPT ![p] = c]
  BY DEF ExportList
<1> HIDE DEF c, l
<1>3. CallSettled(c, Data(p), Meta(p))
  BY <1>0, <1>1 DEF CallSettled, Before, Downloaded
<1>4. ArchiveWhole'
  BY DEF ExportList, ArchiveWhole, NoArchive
<1>5. Alone(p) /\ Data(p)' = Data(p) /\ Meta(p)' = Meta(p)
  BY <1>0, RunningIsAlone DEF SettledInv, Data, Meta
<1>6. (c.known => SiteOf[p] \in cached) /\ (SiteOf[p] \in cached' => Data(p) # None)
  BY <1>0, <1>1 DEF SettledInv, StaysFilled, Data
<1> QED
  BY <1>0, <1>1, <1>2, <1>3, <1>4, <1>5, <1>6, StepKeeps

LEMMA ExportDataKeeps ==
  ASSUME TypeOK, SettledInv, NEW p \in Procs, ExportData(p) PROVE SettledInv'
<1> DEFINE r == IF "data" \in call[p].listed THEN Data(p) ELSE None
           c == [call[p] EXCEPT !.raw = r, !.at = "tar_meta"]
<1>0. /\ call[p].at = "tar_data" /\ ~At(p, "idle") /\ call[p].op = "export"
      /\ call[p] \in CallType /\ Whole(Data(p), Meta(p))
      /\ "data" \in call[p].listed <=> Data(p) # None
      /\ "meta" \in call[p].listed <=> Meta(p).of # None
      /\ UNCHANGED <<data, meta, archive, result, cached>>
  BY CallOf DEF ExportData, At, CallSettled, Before
<1>1. /\ c.at = "tar_meta" /\ c.op = call[p].op /\ c.known = call[p].known
      /\ c.listed = call[p].listed /\ c.raw = r /\ r = Data(p)
  BY <1>0 DEF CallType
<1>2. call' = [call EXCEPT ![p] = c]
  BY DEF ExportData
<1> HIDE DEF c, r
<1>3. CallSettled(c, Data(p), Meta(p))
  BY <1>0, <1>1 DEF CallSettled, Before, Downloaded
<1> QED
  BY <1>0, <1>1, <1>2, <1>3, GoOnKeeps

LEMMA ExportMetaKeeps ==
  ASSUME TypeOK, SettledInv, NEW p \in Procs, ExportMeta(p)
  PROVE  SettledInv' /\ archive'.whole /\ archive'.data = Data(p) /\ UNCHANGED result
<1> DEFINE m == IF "meta" \in call[p].listed THEN Meta(p) ELSE NoMeta
<1>0. /\ call[p].at = "tar_meta" /\ ~At(p, "idle") /\ call[p].op = "export"
      /\ Whole(Data(p), Meta(p)) /\ call[p].raw = Data(p)
      /\ "meta" \in call[p].listed <=> Meta(p).of # None
      /\ UNCHANGED <<data, meta, cached>>
      /\ archive' = [whole |-> TRUE, data |-> call[p].raw, meta |-> m]
      /\ Return(p, "ok", None)
  BY CallOf DEF ExportMeta, At, CallSettled, Before
<1>1. archive'.whole /\ archive'.data = Data(p) /\ archive'.meta = m
  BY <1>0
<1>2. Whole(Data(p), m)
  BY <1>0 DEF Whole, NoMeta
<1> HIDE DEF m
<1>3. ArchiveWhole'
  BY <1>1, <1>2 DEF ArchiveWhole
<1>4. UNCHANGED result
  BY <1>0 DEF Return
<1> QED
  BY <1>0, <1>1, <1>3, <1>4, ReturnKeeps

LEMMA UnpackKeeps ==
  ASSUME TypeOK, SettledInv, NEW p \in Procs, Unpack(p) PROVE SettledInv'
<1>0. /\ call[p].at = "unpack" /\ ~At(p, "idle") /\ call[p].op = "import"
      /\ call[p] \in CallType /\ Whole(Data(p), Meta(p)) /\ ArchiveWhole
      /\ UNCHANGED <<data, meta, archive, cached>>
  BY CallOf DEF Unpack, At, CallSettled, Before, SettledInv
<1>1. CASE archive.whole
  <2> DEFINE c == [call[p] EXCEPT !.raw = archive.data, !.text = archive.meta,
                                  !.at = Then["start"]]
  <2>1. /\ c.at = "open_data" /\ c.op = call[p].op /\ c.known = call[p].known
        /\ c.raw = archive.data /\ c.text = archive.meta
    BY <1>0 DEF CallType, Then
  <2>2. call' = [call EXCEPT ![p] = c] /\ UNCHANGED result
    BY <1>1 DEF Unpack
  <2> HIDE DEF c
  <2>3. CallSettled(c, Data(p), Meta(p))
    BY <1>0, <1>1, <2>1 DEF CallSettled, Before, Downloaded, Writers, ArchiveWhole
  <2> QED
    BY <1>0, <2>1, <2>2, <2>3, GoOnKeeps
<1>2. CASE ~archive.whole
  <2>1. Return(p, "ReadError", None)
    BY <1>2 DEF Unpack
  <2>2. ArchiveWhole'
    BY <1>0 DEF ArchiveWhole
  <2> QED
    BY <1>0, <2>1, <2>2, ReturnKeeps
<1> QED
  BY <1>1, <1>2

LEMMA SettledInvHolds ==
  ASSUME Undisturbed
  PROVE  Spec => []SettledInv
<1>1. Init => SettledInv
  <2> SUFFICES ASSUME Init PROVE SettledInv
    OBVIOUS
  <2>1. /\ \A p \in Procs : /\ call[p].at = "idle" /\ call[p].known = FALSE
                            /\ result[p].op = ""
        /\ archive.whole = FALSE /\ cached = {}
    BY DEF Init, Idle, NoArchive, NoResult
  <2>2. \A s \in Sites : Whole(data[s], meta[s])
    BY DEF Init, Whole, NoMeta
  <2> QED
    BY <2>1, <2>2 DEF SettledInv, Solo, SettledCache, CallsSettled, CallSettled, Before,
       Downloaded, ArchiveWhole, StaysFilled, OfflineKeepsWorking, At
<1>2. TypeOK /\ SettledInv /\ [Next]_vars => SettledInv'
  <2> SUFFICES ASSUME TypeOK, SettledInv, [Next]_vars PROVE SettledInv'
    OBVIOUS
  <2>1. CASE Tick \/ UNCHANGED vars
    <3>1. UNCHANGED <<data, meta, archive, call, result, cached>>
      BY <2>1 DEF Tick, vars
    <3> QED
      BY <3>1 DEF SettledInv, Solo, SettledCache, CallsSettled, ArchiveWhole, StaysFilled,
         OfflineKeepsWorking, At, Quiet, Data, Meta
  <2>2. ASSUME NEW p \in Procs, Update(p) \/ Get(p) \/ Export(p) \/ Import(p)
        PROVE  SettledInv'
    BY <2>2, BeginKeeps DEF Update, Get, Export, Import
  <2>3. ASSUME NEW p \in Procs, Proceed(p) PROVE SettledInv'
    BY <2>3, FetchKeeps, OpenDataKeepsInv, WriteDataKeeps, OpenMetaKeeps, WriteMetaKeeps,
       WrittenKeeps, CheckAgeKeeps, ReadDataKeeps, ExportListKeeps, ExportDataKeeps,
       ExportMetaKeeps, UnpackKeeps DEF Proceed
  <2>4. ASSUME NEW p \in Procs PROVE ~Fault(p)
    BY DEF Fault, Undisturbed, TypeOK
  <2> QED
    BY <2>1, <2>2, <2>3, <2>4 DEF Next
<1> QED
  BY <1>1, <1>2, TypeCorrect, PTL DEF Spec

-----------------------------------------------------------------------------
(* The refinement *)

\* The content a directory stands for while one process uses it.
Standing(c, d) == IF c.at \in Downloaded /\ c.raw # None THEN c.raw ELSE d

Reg      == [s \in Sites |-> Holds(s)]
Snapshot == IF archive.whole THEN archive.data ELSE None
Answers  == [p \in Procs |-> [how |-> result[p].how, value |-> result[p].value]]

LEMMA HoldsStanding ==
  ASSUME NEW p \in Procs, Alone(p)
  PROVE  Holds(SiteOf[p]) = Standing(call[p], Data(p))
<1>1. \A q \in Filling(SiteOf[p]) : q = p
  BY DEF Filling, Alone, At, Downloaded
<1>2. p \in Filling(SiteOf[p]) <=> call[p].at \in Downloaded /\ call[p].raw # None
  BY DEF Filling
<1>3. CASE p \in Filling(SiteOf[p])
  <2>1. (CHOOSE q \in Filling(SiteOf[p]) : TRUE) = p
    BY <1>1, <1>3
  <2> QED
    BY <1>2, <1>3, <2>1 DEF Holds, Standing
<1>4. CASE p \notin Filling(SiteOf[p])
  <2>1. Filling(SiteOf[p]) = {}
    BY <1>1, <1>4
  <2> QED
    BY <1>2, <1>4, <2>1 DEF Holds, Standing, Data
<1> QED
  BY <1>3, <1>4

LEMMA HoldsStandingNext ==
  ASSUME NEW p \in Procs, Alone(p)'
  PROVE  Holds(SiteOf[p])' = Standing(call'[p], Data(p)')
<1>1. \A q \in Filling(SiteOf[p])' : q = p
  BY DEF Filling, Alone, At, Downloaded
<1>2. p \in Filling(SiteOf[p])' <=> call'[p].at \in Downloaded /\ call'[p].raw # None
  BY DEF Filling
<1>3. CASE p \in Filling(SiteOf[p])'
  <2>1. (CHOOSE q \in Filling(SiteOf[p])' : TRUE) = p
    BY <1>1, <1>3
  <2> QED
    BY <1>2, <1>3, <2>1 DEF Holds, Standing
<1>4. CASE p \notin Filling(SiteOf[p])'
  <2>1. Filling(SiteOf[p])' = {}
    BY <1>1, <1>4
  <2> QED
    BY <1>2, <1>4, <2>1 DEF Holds, Standing, Data
<1> QED
  BY <1>3, <1>4

\* A step of one process changes what its own directory stands for, if any.
LEMMA RegStep ==
  ASSUME NEW p \in Procs, Alone(p),
         \A q \in Procs : q # p => call'[q] = call[q],
         \A s \in Sites : s # SiteOf[p] => data'[s] = data[s]
  PROVE  /\ Reg' = [Reg EXCEPT ![SiteOf[p]] = Standing(call'[p], Data(p)')]
         /\ Reg[SiteOf[p]] = Standing(call[p], Data(p))
<1>1. SiteOf[p] \in Sites
  BY ProcsAssumption
<1>2. Alone(p)'
  BY DEF Alone, At
<1>3. Holds(SiteOf[p])' = Standing(call'[p], Data(p)')
  BY <1>2, HoldsStandingNext
<1>4. Holds(SiteOf[p]) = Standing(call[p], Data(p))
  BY HoldsStanding
<1>5. ASSUME NEW s \in Sites, s # SiteOf[p] PROVE Holds(s)' = Holds(s)
  <2>1. Filling(s)' = Filling(s)
    BY <1>5 DEF Filling
  <2>2. CASE Filling(s) = {}
    BY <1>5, <2>1, <2>2 DEF Holds
  <2>3. CASE Filling(s) # {}
    <3>1. (CHOOSE q \in Filling(s) : TRUE) \in Filling(s)
      BY <2>3
    <3>2. call'[CHOOSE q \in Filling(s) : TRUE] = call[CHOOSE q \in Filling(s) : TRUE]
      BY <1>5, <3>1 DEF Filling
    <3> QED
      BY <2>1, <2>3, <3>2 DEF Holds
  <2> QED
    BY <2>2, <2>3
<1> QED
  BY <1>1, <1>3, <1>4, <1>5 DEF Reg

\* The result of a get is an answer, that of another call is none.
LEMMA AnswerStep ==
  ASSUME TypeOK, NEW p \in Procs, NEW h, NEW v, Return(p, h, v)
  PROVE  \/ Answers' = [Answers EXCEPT ![p] = [how |-> h, value |-> v]]
         \/ Answers' = Answers
<1> DEFINE r == [ op |-> call[p].op, how |-> h, value |-> v,
                  seen |-> call[p].seen.of, known |-> call[p].known ]
<1>1. UNCHANGED result \/ result' = [result EXCEPT ![p] = r]
  BY DEF Return
<1>2. r.how = h /\ r.value = v
  OBVIOUS
<1> HIDE DEF r
<1>3. CASE UNCHANGED result
  BY <1>3 DEF Answers
<1>4. CASE result' = [result EXCEPT ![p] = r]
  BY <1>2, <1>4 DEF Answers, TypeOK
<1> QED
  BY <1>1, <1>3, <1>4

Hidden == UNCHANGED <<Reg, Snapshot, Answers, now>>

\* Steps after which the directory stands for what it stood for.
LEMMA RegKept ==
  ASSUME TypeOK, SettledInv, NEW p \in Procs, ~At(p, "idle"),
         \A q \in Procs : q # p => call'[q] = call[q],
         \A s \in Sites : s # SiteOf[p] => data'[s] = data[s],
         Standing(call'[p], Data(p)') = Standing(call[p], Data(p))
  PROVE  Reg' = Reg
<1>1. Alone(p)
  BY RunningIsAlone DEF SettledInv
<1>2. Reg' = [Reg EXCEPT ![SiteOf[p]] = Reg[SiteOf[p]]]
  BY <1>1, RegStep
<1>3. [Reg EXCEPT ![SiteOf[p]] = Reg[SiteOf[p]]] = Reg
  BY DEF Reg
<1> QED
  BY <1>2, <1>3

LEMMA GoesOnHidden ==
  ASSUME TypeOK, SettledInv, NEW p \in Procs, ~At(p, "idle"),
         NEW c, call' = [call EXCEPT ![p] = c],
         \A s \in Sites : s # SiteOf[p] => data'[s] = data[s],
         Standing(c, Data(p)') = Standing(call[p], Data(p)),
         UNCHANGED <<archive, result, now>>
  PROVE  Hidden
<1>1. call'[p] = c /\ \A q \in Procs : q # p => call'[q] = call[q]
  BY DEF TypeOK
<1>2. Reg' = Reg
  BY <1>1, RegKept
<1> QED
  BY <1>2 DEF Hidden, Snapshot, Answers

\* A call that ends leaves the register as it is.
LEMMA ReturnsHidden ==
  ASSUME TypeOK, SettledInv, NEW p \in Procs, ~At(p, "idle"), NEW h, NEW v, Return(p, h, v),
         Standing(call[p], Data(p)) = Data(p), UNCHANGED data
  PROVE  Reg' = Reg
<1>1. call'[p] = Idle /\ \A q \in Procs : q # p => call'[q] = call[q]
  BY DEF Return, TypeOK
<1>2. Standing(Idle, Data(p)) = Data(p) /\ Data(p)' = Data(p)
  BY DEF Standing, Idle, Downloaded, Data
<1> QED
  BY <1>1, <1>2, RegKept

\* A get that is refused.
LEMMA RefusalMaps ==
  ASSUME TypeOK, SettledInv, NEW p \in Procs, call[p].at \in {"fetch", "age", "unpack"},
         NEW why \in {"ConnectionError", "HTTPException", "FileNotFoundError"},
         Return(p, why, None), why = "FileNotFoundError" => Data(p) = None,
         UNCHANGED <<data, archive, now>>
  PROVE  Register!GetRefuses(p) \/ Hidden
<1>1. ~At(p, "idle") /\ Standing(call[p], Data(p)) = Data(p)
  BY DEF At, Standing, Downloaded
<1>2. Reg' = Reg /\ Snapshot' = Snapshot
  BY <1>1, ReturnsHidden DEF Snapshot
<1>3. Reg[SiteOf[p]] = Data(p)
  <2>1. Alone(p)
    BY <1>1, RunningIsAlone DEF SettledInv
  <2> QED
    BY <1>1, <2>1, HoldsStanding, ProcsAssumption DEF Reg
<1>4. CASE Answers' = Answers
  BY <1>2, <1>4 DEF Hidden
<1>5. CASE Answers' = [Answers EXCEPT ![p] = [how |-> why, value |-> None]]
  BY <1>2, <1>3, <1>5 DEF Register!GetRefuses, Register!Refused, Reg, Snapshot, Answers
<1> QED
  BY <1>4, <1>5, AnswerStep

LEMMA FetchMaps ==
  ASSUME TypeOK, SettledInv, NEW p \in Procs, FetchOk(p) \/ FetchFails(p) \/ FetchRaises(p)
  PROVE  Register!Download(SiteOf[p]) \/ Register!GetRefuses(p) \/ Hidden
<1>0. /\ ~At(p, "idle") /\ call[p].at = "fetch" /\ call[p] \in CallType
      /\ UNCHANGED <<data, archive, now>>
  BY CallOf DEF FetchOk, FetchFails, FetchRaises, At
<1>1. CASE FetchOk(p)
  <2> DEFINE c == [call[p] EXCEPT !.raw = now, !.at = Then["start"]]
  <2>1. c.at = "open_data" /\ c.raw = now
    BY <1>0 DEF CallType, Then
  <2>2. call' = [call EXCEPT ![p] = c] /\ UNCHANGED result
    BY <1>1 DEF FetchOk
  <2> HIDE DEF c
  <2>3. call'[p] = c /\ \A q \in Procs : q # p => call'[q] = call[q]
    BY <2>2 DEF TypeOK
  <2>4. Alone(p) /\ now # None
    BY <1>0, RunningIsAlone DEF SettledInv, TypeOK, Times, None
  <2>5. Standing(c, Data(p)') = now
    BY <2>1, <2>4 DEF Standing, Downloaded
  <2>6. Reg' = [Reg EXCEPT ![SiteOf[p]] = now]
    BY <1>0, <2>3, <2>4, <2>5, RegStep
  <2> QED
    BY <1>0, <2>2, <2>6 DEF Register!Download, Reg, Snapshot, Answers
<1>2. CASE FetchFails(p) /\ call[p].tries < retries
  <2> DEFINE c == [call[p] EXCEPT !.tries = @ + 1]
  <2>1. c.at = "fetch"
    BY <1>0 DEF CallType
  <2>2. call' = [call EXCEPT ![p] = c] /\ UNCHANGED result
    BY <1>2 DEF FetchFails
  <2> HIDE DEF c
  <2>3. Standing(c, Data(p)') = Standing(call[p], Data(p))
    BY <1>0, <2>1 DEF Standing, Downloaded, Data
  <2> QED
    BY <1>0, <2>2, <2>3, GoesOnHidden
<1>3. CASE FetchFails(p) /\ ~(call[p].tries < retries)
  <2>1. Return(p, "ConnectionError", None)
    BY <1>3 DEF FetchFails
  <2> QED
    BY <1>0, <2>1, RefusalMaps
<1>4. CASE FetchRaises(p)
  <2>1. Return(p, "HTTPException", None)
    BY <1>4 DEF FetchRaises
  <2> QED
    BY <1>0, <2>1, RefusalMaps
<1> QED
  BY <1>1, <1>2, <1>3, <1>4

\* The steps that write the two files, and those that only read.
LEMMA WritingHidden ==
  ASSUME TypeOK, SettledInv, NEW p \in Procs,
         OpenData(p) \/ WriteData(p) \/ OpenMeta(p) \/ WriteMeta(p)
  PROVE  Hidden
<1>0. /\ ~At(p, "idle") /\ call[p] \in CallType
      /\ call[p].at \in Downloaded /\ UNCHANGED <<archive, result, now>>
      /\ \A s \in Sites : s # SiteOf[p] => data'[s] = data[s]
  <2>1. data' = data \/ \E d : data' = [data EXCEPT ![SiteOf[p]] = d]
    BY DEF OpenData, WriteData, OpenMeta, WriteMeta
  <2>2. \A s \in Sites : s # SiteOf[p] => data'[s] = data[s]
    BY <2>1 DEF TypeOK
  <2> QED
    BY <2>2, CallOf DEF OpenData, WriteData, OpenMeta, WriteMeta, At, Downloaded
<1>1. \E c : /\ call' = [call EXCEPT ![p] = c] /\ c.raw = call[p].raw
             /\ c.at \in Downloaded
  <2>1. CASE \E w \in Downloaded : Goto(p, w)
    <3>1. PICK w \in Downloaded : Goto(p, w)
      BY <2>1
    <3> DEFINE c == [call[p] EXCEPT !.at = w]
    <3>2. call' = [call EXCEPT ![p] = c]
      BY <3>1 DEF Goto
    <3>3. c.raw = call[p].raw /\ c.at = w
      BY <1>0 DEF CallType
    <3> HIDE DEF c
    <3> QED
      BY <3>2, <3>3
  <2>2. CASE \E t : call' = [call EXCEPT ![p].text = t, ![p].at = "write_meta"]
    <3>1. PICK t : call' = [call EXCEPT ![p].text = t, ![p].at = "write_meta"]
      BY <2>2
    <3> DEFINE c == [call[p] EXCEPT !.text = t, !.at = "write_meta"]
    <3>2. call' = [call EXCEPT ![p] = c]
      BY <3>1
    <3>3. c.raw = call[p].raw /\ c.at \in Downloaded
      BY <1>0 DEF CallType, Downloaded
    <3> HIDE DEF c
    <3> QED
      BY <3>2, <3>3
  <2>3. {"write_data", Then["write_data"], Then["write_meta"]} \subseteq Downloaded
    BY DEF Then, Downloaded
  <2>4. CASE OpenData(p) \/ WriteData(p) \/ WriteMeta(p)
    BY <2>1, <2>3, <2>4 DEF OpenData, WriteData, WriteMeta
  <2>5. CASE OpenMeta(p)
    BY <2>1, <2>2, <2>3, <2>5 DEF OpenMeta
  <2> QED
    BY <2>4, <2>5
<1>2. PICK c : call' = [call EXCEPT ![p] = c] /\ c.raw = call[p].raw /\ c.at \in Downloaded
  BY <1>1
<1>3. CASE call[p].raw # None
  <2>1. Standing(c, Data(p)') = Standing(call[p], Data(p))
    BY <1>0, <1>2, <1>3 DEF Standing
  <2> QED
    BY <1>0, <1>2, <2>1, GoesOnHidden
<1>4. CASE call[p].raw = None
  <2>1. Data(p)' = Data(p)
    <3>1. ~At(p, "write_data")
      BY <1>4, CallOf DEF CallSettled, At
    <3> QED
      BY <1>4, <3>1 DEF OpenData, WriteData, OpenMeta, WriteMeta, Data
  <2>2. Standing(c, Data(p)') = Standing(call[p], Data(p))
    BY <1>2, <1>4, <2>1 DEF Standing
  <2> QED
    BY <1>0, <1>2, <2>2, GoesOnHidden
<1> QED
  BY <1>3, <1>4

LEMMA WrittenHidden ==
  ASSUME TypeOK, SettledInv, NEW p \in Procs, Written(p) PROVE Hidden
<1>0. /\ ~At(p, "idle") /\ call[p] \in CallType /\ call[p].op \in Writers
      /\ Standing(call[p], Data(p)) = Data(p)
      /\ Data(p)' = Data(p) /\ UNCHANGED <<data, archive, now>>
  <2>1. call[p].at = "done" /\ call[p].at \in Downloaded /\ call[p].at # "idle"
    BY DEF Written, At, Downloaded
  <2> QED
    BY <2>1, CallOf DEF Written, At, CallSettled, Standing, Data
<1>1. CASE call[p].op = "get"
  <2> DEFINE c == [call[p] EXCEPT !.at = "read"]
  <2>1. c.at = "read"
    BY <1>0 DEF CallType
  <2>2. call' = [call EXCEPT ![p] = c] /\ UNCHANGED result
    BY <1>1 DEF Written, Goto
  <2> HIDE DEF c
  <2>3. Standing(c, Data(p)') = Standing(call[p], Data(p))
    BY <1>0, <2>1 DEF Standing, Downloaded
  <2> QED
    BY <1>0, <2>2, <2>3, GoesOnHidden
<1>2. CASE call[p].op # "get"
  <2>1. Return(p, "ok", None)
    BY <1>2 DEF Written
  <2>2. UNCHANGED result
    BY <1>0, <1>2, <2>1 DEF Return, Writers
  <2>3. Reg' = Reg
    BY <1>0, <2>1, ReturnsHidden
  <2> QED
    BY <1>0, <2>2, <2>3 DEF Hidden, Snapshot, Answers
<1> QED
  BY <1>1, <1>2

LEMMA CheckAgeMaps ==
  ASSUME TypeOK, SettledInv, NEW p \in Procs, CheckAge(p)
  PROVE  Register!GetRefuses(p) \/ Hidden
<1>0. /\ ~At(p, "idle") /\ call[p].at = "age" /\ call[p] \in CallType
      /\ Whole(Data(p), Meta(p)) /\ Data(p)' = Data(p)
      /\ UNCHANGED <<data, archive, now>>
  BY CallOf DEF CheckAge, At, CallSettled, Before, Data
<1>1. CASE call[p].op = "get offline" /\ ~AgeKnown(Meta(p))
  <2>1. Return(p, "FileNotFoundError", None)
    BY <1>1 DEF CheckAge
  <2>2. Data(p) = None
    BY <1>0, <1>1 DEF Whole, AgeKnown
  <2> QED
    BY <1>0, <2>1, <2>2, RefusalMaps
<1>2. CASE ~(call[p].op = "get offline" /\ ~AgeKnown(Meta(p)))
  <2>1. UNCHANGED result
    BY <1>2 DEF CheckAge
  <2>2. \E c : call' = [call EXCEPT ![p] = c] /\ c.at \notin Downloaded
    <3> DEFINE c == [call[p] EXCEPT !.at = "fetch"]
               d == [call[p] EXCEPT !.seen = Meta(p), !.at = "read"]
    <3>1. call' = [call EXCEPT ![p] = c] \/ call' = [call EXCEPT ![p] = d]
      BY <1>2 DEF CheckAge, Goto
    <3>2. c.at \notin Downloaded /\ d.at \notin Downloaded
      BY <1>0 DEF CallType, Downloaded
    <3> HIDE DEF c, d
    <3> QED
      BY <3>1, <3>2
  <2>3. PICK c : call' = [call EXCEPT ![p] = c] /\ c.at \notin Downloaded
    BY <2>2
  <2>4. Standing(c, Data(p)') = Standing(call[p], Data(p))
    BY <1>0, <2>3 DEF Standing, Downloaded
  <2> QED
    BY <1>0, <2>1, <2>3, <2>4, GoesOnHidden
<1> QED
  BY <1>1, <1>2

LEMMA ReadDataMaps ==
  ASSUME TypeOK, SettledInv, NEW p \in Procs, ReadData(p)
  PROVE  Register!GetAnswers(p) \/ Hidden
<1>0. /\ ~At(p, "idle") /\ call[p].at = "read" /\ Return(p, "ok", Data(p)) /\ Data(p) # None
      /\ Standing(call[p], Data(p)) = Data(p) /\ UNCHANGED <<data, archive, now>>
  BY ReadDataKeeps DEF ReadData, At, Standing, Downloaded
<1>1. Reg' = Reg /\ Snapshot' = Snapshot
  BY <1>0, ReturnsHidden DEF Snapshot
<1>2. Reg[SiteOf[p]] = Data(p)
  <2>1. Alone(p)
    BY <1>0, RunningIsAlone DEF SettledInv
  <2> QED
    BY <1>0, <2>1, HoldsStanding, ProcsAssumption DEF Reg
<1>3. CASE Answers' = Answers
  BY <1>0, <1>1, <1>3 DEF Hidden
<1>4. CASE Answers' = [Answers EXCEPT ![p] = [how |-> "ok", value |-> Data(p)]]
  BY <1>0, <1>1, <1>2, <1>4 DEF Register!GetAnswers, Register!Answered, Reg, Snapshot, Answers
<1> QED
  BY <1>0, <1>3, <1>4, AnswerStep

LEMMA ExportMaps ==
  ASSUME TypeOK, SettledInv, NEW p \in Procs, ExportList(p) \/ ExportData(p) \/ ExportMeta(p)
  PROVE  Register!Discard \/ Register!Export(SiteOf[p]) \/ Hidden
<1>0. /\ ~At(p, "idle") /\ call[p] \in CallType /\ Data(p)' = Data(p)
      /\ Standing(call[p], Data(p)) = Data(p) /\ UNCHANGED <<data, now>>
  BY CallOf DEF ExportList, ExportData, ExportMeta, At, Standing, Downloaded, Data
<1>1. CASE ExportList(p)
  <2> DEFINE l == (IF Data(p) = None THEN {} ELSE {"data"})
                    \cup (IF Meta(p).of = None THEN {} ELSE {"meta"})
             c == [call[p] EXCEPT !.at = "tar_data", !.listed = l]
  <2>1. c.at = "tar_data"
    BY <1>0 DEF CallType
  <2>2. call' = [call EXCEPT ![p] = c] /\ UNCHANGED result /\ ~archive'.whole
    BY <1>1 DEF ExportList, NoArchive
  <2> HIDE DEF c, l
  <2>3. call'[p] = c /\ \A q \in Procs : q # p => call'[q] = call[q]
    BY <2>2 DEF TypeOK
  <2>4. Standing(c, Data(p)') = Data(p)
    BY <1>0, <2>1 DEF Standing, Downloaded
  <2>5. Reg' = Reg
    BY <1>0, <2>3, <2>4, RegKept
  <2> QED
    BY <1>0, <2>2, <2>5 DEF Register!Discard, Reg, Snapshot, Answers
<1>2. CASE ExportData(p)
  <2> DEFINE r == IF "data" \in call[p].listed THEN Data(p) ELSE None
             c == [call[p] EXCEPT !.raw = r, !.at = "tar_meta"]
  <2>1. c.at = "tar_meta"
    BY <1>0 DEF CallType
  <2>2. call' = [call EXCEPT ![p] = c] /\ UNCHANGED <<archive, result>>
    BY <1>2 DEF ExportData
  <2> HIDE DEF c, r
  <2>3. Standing(c, Data(p)') = Standing(call[p], Data(p))
    BY <1>0, <2>1 DEF Standing, Downloaded
  <2> QED
    BY <1>0, <2>2, <2>3, GoesOnHidden
<1>3. CASE ExportMeta(p)
  <2>1. archive'.whole /\ archive'.data = Data(p) /\ UNCHANGED result
    BY <1>3, ExportMetaKeeps
  <2>2. Reg' = Reg
    BY <1>0, <1>3, ReturnsHidden DEF ExportMeta
  <2>3. Reg[SiteOf[p]] = Data(p)
    <3>1. Alone(p)
      BY <1>0, RunningIsAlone DEF SettledInv
    <3> QED
      BY <1>0, <3>1, HoldsStanding, ProcsAssumption DEF Reg
  <2>4. Snapshot' = Reg[SiteOf[p]]
    BY <2>1, <2>3 DEF Snapshot
  <2> QED
    BY <1>0, <2>1, <2>2, <2>4 DEF Register!Export, Reg, Snapshot, Answers
<1> QED
  BY <1>1, <1>2, <1>3

LEMMA UnpackMaps ==
  ASSUME TypeOK, SettledInv, NEW p \in Procs, Unpack(p)
  PROVE  Register!Import(SiteOf[p]) \/ Hidden
<1>0. /\ ~At(p, "idle") /\ call[p] \in CallType /\ call[p].op = "import"
      /\ Standing(call[p], Data(p)) = Data(p) /\ Data(p)' = Data(p)
      /\ UNCHANGED <<data, archive, now>>
  BY CallOf DEF Unpack, At, Standing, Downloaded, Data
<1>1. CASE ~archive.whole
  <2>1. Return(p, "ReadError", None)
    BY <1>1 DEF Unpack
  <2>2. UNCHANGED result
    BY <1>0, <2>1 DEF Return
  <2>3. Reg' = Reg
    BY <1>0, <2>1, ReturnsHidden
  <2> QED
    BY <1>0, <2>2, <2>3 DEF Hidden, Snapshot, Answers
<1>2. CASE archive.whole
  <2> DEFINE c == [call[p] EXCEPT !.raw = archive.data, !.text = archive.meta,
                                  !.at = Then["start"]]
  <2>1. c.at = "open_data" /\ c.raw = archive.data
    BY <1>0 DEF CallType, Then
  <2>2. call' = [call EXCEPT ![p] = c] /\ UNCHANGED result
    BY <1>2 DEF Unpack
  <2> HIDE DEF c
  <2>3. call'[p] = c /\ \A q \in Procs : q # p => call'[q] = call[q]
    BY <2>2 DEF TypeOK
  <2>4. CASE archive.data = None
    <3>1. Standing(c, Data(p)') = Standing(call[p], Data(p))
      BY <1>0, <2>1, <2>4 DEF Standing
    <3> QED
      BY <1>0, <2>2, <3>1, GoesOnHidden
  <2>5. CASE archive.data # None
    <3>1. Alone(p)
      BY <1>0, RunningIsAlone DEF SettledInv
    <3>2. Standing(c, Data(p)') = archive.data
      BY <2>1, <2>5 DEF Standing, Downloaded
    <3>3. Reg' = [Reg EXCEPT ![SiteOf[p]] = archive.data]
      BY <1>0, <2>3, <3>1, <3>2, RegStep
    <3>4. Snapshot = archive.data /\ Snapshot # None /\ Snapshot' = Snapshot
      BY <1>0, <1>2, <2>5 DEF Snapshot
    <3>5. Reg' = [Reg EXCEPT ![SiteOf[p]] = Snapshot]
      BY <3>3, <3>4
    <3> QED
      BY <1>0, <2>2, <3>4, <3>5 DEF Register!Import, Reg, Snapshot, Answers
  <2> QED
    BY <2>4, <2>5
<1> QED
  BY <1>1, <1>2

LEMMA BeginMaps ==
  ASSUME Undisturbed, TypeOK, SettledInv, NEW p \in Procs, NEW op, NEW w,
         w \in {"fetch", "age", "list", "unpack"}, Begin(p, op, w)
  PROVE  Register!Ask(p)
<1> DEFINE k == SiteOf[p] \in cached
           c == [Idle EXCEPT !.op = op, !.at = w, !.known = k]
<1>1. c.at = w
  BY DEF Idle
<1>2. /\ call' = [call EXCEPT ![p] = c] /\ UNCHANGED <<data, archive, now>>
      /\ At(p, "idle") /\ Data(p)' = Data(p) /\ Alone(p)
      /\ result' = [result EXCEPT ![p] = NoResult]
  BY DEF Begin, Data, Alone, MayOverlap, Undisturbed
<1> HIDE DEF c
<1>3. call'[p] = c /\ \A q \in Procs : q # p => call'[q] = call[q]
  BY <1>2 DEF TypeOK
<1>4. Standing(c, Data(p)') = Data(p) /\ Standing(call[p], Data(p)) = Data(p)
  BY <1>1, <1>2 DEF Standing, Downloaded, At
<1>5. Reg' = [Reg EXCEPT ![SiteOf[p]] = Reg[SiteOf[p]]]
  BY <1>2, <1>3, <1>4, RegStep
<1>6. Reg' = Reg
  BY <1>5 DEF Reg
<1>7. Answers' = [Answers EXCEPT ![p] = [how |-> "", value |-> None]]
  <2>1. NoResult.how = "" /\ NoResult.value = None
    BY DEF NoResult
  <2> QED
    BY <1>2, <2>1 DEF Answers, TypeOK
<1> QED
  BY <1>2, <1>6, <1>7 DEF Register!Ask, Register!Pending, Reg, Snapshot, Answers

LEMMA StepMaps ==
  ASSUME Undisturbed, TypeOK, SettledInv, [Next]_vars
  PROVE  [Register!Next]_(Register!vars)
<1>0. Hidden => UNCHANGED Register!vars
  BY DEF Hidden, Register!vars, Reg, Snapshot, Answers
<1>1. CASE UNCHANGED vars
  <2>1. UNCHANGED <<data, archive, call, result, now>>
    BY <1>1 DEF vars
  <2>2. \A s \in Sites : Holds(s)' = Holds(s)
    BY <2>1 DEF Holds, Filling
  <2> QED
    BY <1>0, <2>1, <2>2 DEF Hidden, Reg, Snapshot, Answers
<1>2. CASE Tick
  <2>1. UNCHANGED <<data, archive, call, result>> /\ now' = now + 1
    BY <1>2 DEF Tick
  <2>2. \A s \in Sites : Holds(s)' = Holds(s)
    BY <2>1 DEF Holds, Filling
  <2>3. Register!Tick
    BY <2>1, <2>2 DEF Register!Tick
  <2> QED
    BY <2>3 DEF Register!Next
<1>3. ASSUME NEW p \in Procs, Update(p) \/ Get(p) \/ Export(p) \/ Import(p)
      PROVE  [Register!Next]_(Register!vars)
  <2>1. Register!Ask(p)
    BY <1>3, BeginMaps DEF Update, Get, Export, Import
  <2> QED
    BY <2>1 DEF Register!Next
<1>4. ASSUME NEW p \in Procs, Proceed(p) PROVE [Register!Next]_(Register!vars)
  <2>1. \/ Register!Download(SiteOf[p]) \/ Register!Export(SiteOf[p])
        \/ Register!Import(SiteOf[p]) \/ Register!Discard
        \/ Register!GetAnswers(p) \/ Register!GetRefuses(p) \/ Hidden
    BY <1>4, FetchMaps, WritingHidden, WrittenHidden, CheckAgeMaps, ReadDataMaps,
       ExportMaps, UnpackMaps DEF Proceed
  <2>2. SiteOf[p] \in Sites
    BY ProcsAssumption
  <2> QED
    BY <1>0, <2>1, <2>2 DEF Register!Next
<1>5. ASSUME NEW p \in Procs PROVE ~Fault(p)
  BY DEF Fault, Undisturbed, TypeOK
<1> QED
  BY <1>1, <1>2, <1>3, <1>4, <1>5 DEF Next

-----------------------------------------------------------------------------
(* Theorems *)

\* Whoever has a directory to himself finds in it, between calls, nothing or one
\* download with its own meta, through every failed fetch, refresh, export and import.
THEOREM SettledCacheHolds ==
  ASSUME Undisturbed
  PROVE  Spec => []SettledCache
<1>1. SettledInv => SettledCache
  BY DEF SettledInv
<1> QED
  BY <1>1, SettledInvHolds, PTL

\* Under the same conditions what was cached once is served with --offline, whatever
\* its age and whatever was done since.
THEOREM OfflineKeepsWorkingHolds ==
  ASSUME Undisturbed
  PROVE  Spec => []OfflineKeepsWorking
<1>1. SettledInv => OfflineKeepsWorking
  BY DEF SettledInv
<1> QED
  BY <1>1, SettledInvHolds, PTL

\* Under the same conditions the two files, their truncating writes, the retries and
\* the archive implement a register per directory.
THEOREM ImplementsFeedRegisterHolds ==
  ASSUME Undisturbed
  PROVE  Spec => ImplementsFeedRegister
<1>1. Init => Register!Init
  <2> SUFFICES ASSUME Init PROVE Register!Init
    OBVIOUS
  <2>1. \A p \in Procs : result[p].how = "" /\ result[p].value = None /\ At(p, "idle")
    BY DEF Init, NoResult, Idle, At
  <2>2. \A s \in Sites : Holds(s) = None
    <3>1. \A s \in Sites : Filling(s) = {}
      BY <2>1 DEF Filling, At, Downloaded
    <3> QED
      BY <3>1 DEF Holds, Init
  <2>3. ~archive.whole
    BY DEF Init, NoArchive
  <2> QED
    BY <2>1, <2>2, <2>3 DEF Init, Register!Init, Register!Pending
<1>2. TypeOK /\ SettledInv /\ [Next]_vars => [Register!Next]_(Register!vars)
  BY StepMaps
<1> QED
  BY <1>1, <1>2, TypeCorrect, SettledInvHolds, PTL
     DEF Spec, Register!Spec, ImplementsFeedRegister
=============================================================================
