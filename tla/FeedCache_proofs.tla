--------------------------- MODULE FeedCache_proofs ---------------------------
(***************************************************************************)
(* Theorems about FeedCache: the types of its variables and, for one       *)
(* writer at a time, what meta says of the data beside it.                 *)
(***************************************************************************)
EXTENDS FeedCache, TLAPS

-----------------------------------------------------------------------------
(* Types *)

\* The values the actions write are typed.
LEMMA ContentFacts ==
  /\ Times \subseteq Content /\ {None, Empty, Garbled} \subseteq Content
  /\ NoMeta \in MetaContent
  /\ [of |-> Empty, at |-> None] \in MetaContent
  /\ [of |-> Garbled, at |-> None] \in MetaContent
  /\ \A t, u \in Times : [of |-> t, at |-> u] \in MetaContent
  /\ \A m \in MetaContent : m.of \in Content
BY DEF Times, Content, NotJson, MetaContent, NoMeta, None, Empty, Garbled

LEMMA IdleTyped == Idle \in CallType
<1>1. 0 \in 0..retries
  BY BoundsAssumption
<1>2. "idle" \in Places
  BY DEF Places
<1>3. None \in Content /\ NoMeta \in MetaContent
  BY ContentFacts
<1> QED
  BY <1>1, <1>2, <1>3, Zenon DEF Idle, CallType

LEMMA NoResultTyped == NoResult \in ResultType
<1>1. "" \in OpNames \cup {""} /\ "" \in Endings /\ FALSE \in BOOLEAN
  BY DEF Endings
<1> QED
  BY <1>1, ContentFacts, Zenon DEF NoResult, ResultType

\* What TypeOK says of the record of one call.
CallOK(p, c) == /\ c \in CallType
                /\ c.at = "idle" \/ c.op \in Ops[p]
                /\ c.at \in Downloaded /\ c.op # "import" => c.raw \in Times
                /\ c.at = "unpack" => c.op = "import"

\* Every update an action makes of the record of a call that runs keeps that.
LEMMA MoveOK ==
  ASSUME NEW p, NEW c, CallOK(p, c), c.at # "idle", NEW w \in Places, w # "unpack",
         w \in Downloaded /\ c.op # "import" => c.raw \in Times
  PROVE  CallOK(p, [c EXCEPT !.at = w])
BY DEF CallOK, CallType

LEMMA TriesOK ==
  ASSUME NEW p, NEW c, CallOK(p, c), c.at # "idle", NEW n \in 0..retries
  PROVE  CallOK(p, [c EXCEPT !.tries = n])
BY DEF CallOK, CallType

LEMMA SeenOK ==
  ASSUME NEW p, NEW c, CallOK(p, c), c.at # "idle", NEW w \in Places, w # "unpack",
         w \in Downloaded /\ c.op # "import" => c.raw \in Times,
         NEW m \in MetaContent
  PROVE  CallOK(p, [c EXCEPT !.seen = m, !.at = w])
BY DEF CallOK, CallType

LEMMA TextOK ==
  ASSUME NEW p, NEW c, CallOK(p, c), c.at # "idle", NEW w \in Places, w # "unpack",
         w \in Downloaded /\ c.op # "import" => c.raw \in Times,
         NEW m \in MetaContent
  PROVE  CallOK(p, [c EXCEPT !.text = m, !.at = w])
BY DEF CallOK, CallType

LEMMA RawOK ==
  ASSUME NEW p, NEW r, NEW c, CallOK(p, c), c.at # "idle", NEW w \in Places, w # "unpack",
         w \in Downloaded /\ c.op # "import" => r \in Times,
         r \in Content
  PROVE  CallOK(p, [c EXCEPT !.raw = r, !.at = w])
BY DEF CallOK, CallType

LEMMA RawTextOK ==
  ASSUME NEW p, NEW r, NEW c, CallOK(p, c), c.at # "idle", NEW w \in Places, w # "unpack",
         w \in Downloaded /\ c.op # "import" => r \in Times,
         r \in Content, NEW m \in MetaContent
  PROVE  CallOK(p, [c EXCEPT !.raw = r, !.text = m, !.at = w])
BY DEF CallOK, CallType

LEMMA ListedOK ==
  ASSUME NEW p, NEW c, CallOK(p, c), c.at # "idle", NEW w \in Places, w # "unpack",
         w \in Downloaded /\ c.op # "import" => c.raw \in Times,
         NEW S \in SUBSET {"data", "meta"}
  PROVE  CallOK(p, [c EXCEPT !.at = w, !.listed = S])
BY DEF CallOK, CallType

\* TypeOK, with its part on calls in that form.
LEMMA TypeOKByCall ==
  TypeOK <=> /\ data \in [Sites -> Content] /\ meta \in [Sites -> MetaContent]
             /\ archive \in [whole : BOOLEAN, data : Content, meta : MetaContent]
             /\ call = [p \in Procs |-> call[p]] /\ result \in [Procs -> ResultType]
             /\ \A p \in Procs : CallOK(p, call[p])
             /\ now \in Times /\ faults \in 0..MaxFaults /\ cached \subseteq Sites
BY DEF TypeOK, CallOK, At

\* The variables keep their types, a meta file has a fetched_at exactly when it can
\* be read, and only an import writes what is not a download.
THEOREM TypeCorrect == Spec => []TypeOK
<1>1. Init => TypeOK
  <2> SUFFICES ASSUME Init PROVE TypeOK
    OBVIOUS
  <2>1. data \in [Sites -> Content] /\ meta \in [Sites -> MetaContent]
    BY ContentFacts DEF Init
  <2>2. archive \in [whole : BOOLEAN, data : Content, meta : MetaContent]
    BY ContentFacts, Zenon DEF Init, NoArchive
  <2>3. call \in [Procs -> CallType]
    BY IdleTyped DEF Init
  <2>4. \A p \in Procs : At(p, "idle")
    BY DEF Init, At, Idle
  <2>6. result \in [Procs -> ResultType]
    BY NoResultTyped DEF Init
  <2>5. now \in Times /\ faults \in 0..MaxFaults /\ cached \subseteq Sites
    BY BoundsAssumption DEF Init, Times
  <2> QED
    BY <2>1, <2>2, <2>3, <2>4, <2>5, <2>6 DEF TypeOK, At, Downloaded
<1>2. TypeOK /\ [Next]_vars => TypeOK'
  <2> SUFFICES ASSUME TypeOK, [Next]_vars PROVE TypeOK'
    OBVIOUS
  <2> USE ProcsAssumption
  <2>a. ASSUME NEW p \in Procs, NEW c, CallOK(p, c), call' = [call EXCEPT ![p] = c]
        PROVE  call' = [q \in Procs |-> call'[q]] /\ \A q \in Procs : CallOK(q, call'[q])
    BY <2>a, TypeOKByCall
  <2>b. \A p \in Procs : SiteOf[p] \in Sites /\ Data(p) \in Content /\ Meta(p) \in MetaContent
    BY DEF TypeOK, Data, Meta
  <2>z. ASSUME data' \in [Sites -> Content], meta' \in [Sites -> MetaContent],
               archive' \in [whole : BOOLEAN, data : Content, meta : MetaContent],
               call' = [q \in Procs |-> call'[q]], \A q \in Procs : CallOK(q, call'[q]),
               result' \in [Procs -> ResultType],
               now' \in Times, faults' \in 0..MaxFaults, cached' \subseteq Sites
        PROVE  TypeOK'
    BY <2>z DEF TypeOK, CallOK, At
  <2>k. /\ data \in [Sites -> Content] /\ meta \in [Sites -> MetaContent]
        /\ archive \in [whole : BOOLEAN, data : Content, meta : MetaContent]
        /\ result \in [Procs -> ResultType]
        /\ now \in Times /\ faults \in 0..MaxFaults /\ cached \subseteq Sites
    BY DEF TypeOK
  <2>p. /\ {"idle", "fetch", "open_data", "write_data", "open_meta", "write_meta", "done",
            "age", "read", "list", "tar_data", "tar_meta", "unpack"} \subseteq Places
        /\ {"open_data", "write_data", "open_meta", "write_meta", "done"} = Downloaded
        /\ None \in Content /\ NoMeta \in MetaContent
        /\ {"ok", "fault", "ConnectionError", "HTTPException", "FileNotFoundError", "ValueError",
            "ReadError"}
             \subseteq Endings
    BY ContentFacts DEF Places, Downloaded, Endings
  <2>i. \A p \in Procs : CallOK(p, Idle)
    BY IdleTyped DEF CallOK, Idle, Downloaded
  <2>t. \A p \in Procs : CallOK(p, call[p])
    BY TypeOKByCall
  <2>d. \A p \in Procs : call[p].at \in Downloaded /\ call[p].op # "import" => call[p].raw \in Times
    BY <2>t DEF CallOK
  <2>c. ASSUME NEW p \in Procs, NEW w \in Places, CallOK(p, [call[p] EXCEPT !.at = w]),
               Goto(p, w)
        PROVE  call' = [q \in Procs |-> call'[q]] /\ \A q \in Procs : CallOK(q, call'[q])
    BY <2>a, <2>c DEF Goto
  <2>r. ASSUME NEW p \in Procs, NEW h \in Endings, NEW v \in Content, Return(p, h, v)
        PROVE  /\ call' = [q \in Procs |-> call'[q]] /\ \A q \in Procs : CallOK(q, call'[q])
               /\ result' \in [Procs -> ResultType]
    <3> DEFINE res == [ op |-> call[p].op, how |-> h, value |-> v,
                        seen |-> call[p].seen.of, known |-> call[p].known ]
    <3>1. res \in ResultType
      <4>1. call[p] \in CallType
        BY <2>t DEF CallOK
      <4>2. call[p].seen.of \in Content
        BY <4>1, ContentFacts DEF CallType
      <4> QED
        BY <4>1, <4>2 DEF CallType, ResultType
    <3>2. result' \in {result, [result EXCEPT ![p] = res]}
      BY <2>r DEF Return
    <3> HIDE DEF res
    <3>3. result' \in [Procs -> ResultType]
      BY <2>k, <3>1, <3>2
    <3> QED
      BY <2>a, <2>i, <2>r, <3>3 DEF Return
  <2>1. ASSUME NEW p \in Procs, NEW op \in OpNames, NEW w \in {"fetch", "age", "list", "unpack"},
               w = "unpack" => op = "import", Begin(p, op, w)
        PROVE  TypeOK'
    <3> DEFINE k == SiteOf[p] \in cached
               c == [Idle EXCEPT !.op = op, !.at = w, !.known = k]
    <3>1. w \in Places \ Downloaded /\ op \in Ops[p] /\ k \in BOOLEAN
      BY <2>1 DEF Places, Downloaded, Begin
    <3>2. call' = [call EXCEPT ![p] = c]
      BY <2>1 DEF Begin
    <3> HIDE DEF k
    <3>3. c \in CallType /\ c.op = op /\ c.at = w
      BY <3>1, IdleTyped DEF CallType
    <3> HIDE DEF c
    <3>4. CallOK(p, c)
      BY <2>1, <3>1, <3>3 DEF CallOK
    <3> QED
      BY <2>a, <3>2, <3>4, <2>1, <2>z, <2>k, NoResultTyped DEF Begin
  <2>2. ASSUME NEW p \in Procs, FetchOk(p) PROVE TypeOK'
    <3> DEFINE c == [call[p] EXCEPT !.raw = now, !.at = "open_data"]
    <3>1. CallOK(p, c)
      BY <2>2, <2>t, <2>p, <2>k, ContentFacts, <2>d, RawOK DEF FetchOk, At
    <3>2. call' = [call EXCEPT ![p] = c]
      BY <2>2 DEF FetchOk, Then
    <3> QED
      BY <2>a, <3>1, <3>2, <2>2, <2>z, <2>k DEF FetchOk
  <2>3. ASSUME NEW p \in Procs, FetchFails(p) PROVE TypeOK'
    <3>1. CASE call[p].tries < retries
      <4> DEFINE c == [call[p] EXCEPT !.tries = @ + 1]
      <4>0. call[p].tries + 1 \in 0..retries
        <5>1. call[p].tries \in 0..retries
          BY <2>t DEF CallOK, CallType
        <5> QED
          BY <3>1, <5>1, BoundsAssumption
      <4>1. CallOK(p, c)
        BY <2>3, <2>t, <3>1, <4>0, <2>p, <2>d, TriesOK, ContentFacts DEF FetchFails, At
      <4>2. call' = [call EXCEPT ![p] = c]
        BY <2>3, <3>1 DEF FetchFails
      <4> QED
        BY <2>a, <3>1, <4>1, <4>2, <2>3, <2>z, <2>k DEF FetchFails
    <3>2. CASE ~(call[p].tries < retries)
      <4>1. Return(p, "ConnectionError", None)
        BY <2>3, <3>2 DEF FetchFails
      <4> QED
        BY <2>p, <2>r, <4>1, <2>3, <2>z, <2>k DEF FetchFails
    <3> QED
      BY <3>1, <3>2
  <2>4. ASSUME NEW p \in Procs, OpenData(p) PROVE TypeOK'
    <3>1. data' \in [Sites -> Content]
      BY <2>4, <2>k, ContentFacts DEF OpenData
    <3>2. CallOK(p, [call[p] EXCEPT !.at = "open_meta"]) /\ CallOK(p, [call[p] EXCEPT !.at = "write_data"])
      BY <2>4, <2>t, <2>p, <2>k, <2>d, MoveOK DEF OpenData, At
    <3>3. PICK w \in {"open_meta", "write_data"} : Goto(p, w)
      BY <2>4 DEF OpenData, Then
    <3> QED
      BY <2>c, <3>1, <3>2, <3>3, <2>4, <2>z, <2>k, <2>p DEF OpenData
  <2>5. ASSUME NEW p \in Procs, WriteData(p) PROVE TypeOK'
    <3>1. data' \in [Sites -> Content]
      <4>1. call[p].raw \in Content
        BY <2>t DEF CallOK, CallType
      <4>2. Overwrite(Data(p), call[p].raw) \subseteq Content
        BY <4>1, ContentFacts DEF Overwrite
      <4> QED
        BY <2>5, <4>2 DEF WriteData, TypeOK
    <3>2. CallOK(p, [call[p] EXCEPT !.at = "open_meta"])
      BY <2>5, <2>t, <2>p, <2>k, <2>d, MoveOK DEF WriteData, At
    <3>3. Goto(p, "open_meta")
      BY <2>5 DEF WriteData, Then
    <3> QED
      BY <2>c, <3>1, <3>2, <3>3, <2>5, <2>z, <2>k, <2>p DEF WriteData
  <2>6. ASSUME NEW p \in Procs, OpenMeta(p) PROVE TypeOK'
    <3> DEFINE text == IF call[p].op = "import" THEN call[p].text
                       ELSE [of |-> call[p].raw, at |-> now]
               c    == [call[p] EXCEPT !.text = text, !.at = "write_meta"]
    <3>1. text \in MetaContent
      <4>1. call[p].text \in MetaContent
        BY <2>t DEF CallOK, CallType
      <4>2. call[p].op # "import" => call[p].raw \in Times
        BY <2>6, <2>t, <2>p DEF OpenMeta, At, CallOK
      <4> QED
        BY <4>1, <4>2, <2>k, ContentFacts
    <3>2. meta' \in [Sites -> MetaContent]
      BY <2>6, <2>k, ContentFacts DEF OpenMeta
    <3>3. CASE text.of = None
      <4>1. Goto(p, "done")
        BY <2>6, <3>3 DEF OpenMeta, Then
      <4>2. CallOK(p, [call[p] EXCEPT !.at = "done"])
        BY <2>6, <2>t, <2>p, <2>k, <2>d, MoveOK, TextOK DEF OpenMeta, At
      <4> QED
        BY <2>c, <3>2, <4>1, <4>2, <2>6, <2>z, <2>k, <2>p DEF OpenMeta
    <3>4. CASE text.of # None
      <4>1. call' = [call EXCEPT ![p] = c]
        BY <2>6, <3>4 DEF OpenMeta
      <4> HIDE DEF text
      <4>2. CallOK(p, c)
        BY <2>6, <2>t, <3>1, <2>p, <2>k, <2>d, MoveOK, TextOK DEF OpenMeta, At
      <4> HIDE DEF c
      <4> QED
        BY <2>a, <3>2, <4>1, <4>2, <2>6, <2>z, <2>k DEF OpenMeta
    <3> QED
      BY <3>3, <3>4
  <2>7. ASSUME NEW p \in Procs, WriteMeta(p) PROVE TypeOK'
    <3>1. meta' \in [Sites -> MetaContent]
      <4>1. call[p].text \in MetaContent
        BY <2>t DEF CallOK, CallType
      <4> QED
        BY <2>7, <4>1, <2>k, ContentFacts DEF WriteMeta
    <3>2. CallOK(p, [call[p] EXCEPT !.at = "done"])
      BY <2>7, <2>t, <2>p, <2>k, <2>d, MoveOK DEF WriteMeta, At
    <3>3. Goto(p, "done")
      BY <2>7 DEF WriteMeta, Then
    <3> QED
      BY <2>c, <3>1, <3>2, <3>3, <2>7, <2>z, <2>k, <2>p DEF WriteMeta
  <2>8. ASSUME NEW p \in Procs, Written(p) PROVE TypeOK'
    <3>1. cached' \subseteq Sites
      BY <2>8 DEF Written, TypeOK
    <3>2. CASE call[p].op = "get"
      <4>1. CallOK(p, [call[p] EXCEPT !.at = "read"])
        BY <2>8, <2>t, <2>p, <2>k, <2>d, MoveOK DEF Written, At
      <4> QED
        BY <2>c, <3>1, <3>2, <4>1, <2>8, <2>z, <2>k, <2>p DEF Written
    <3>3. CASE call[p].op # "get"
      BY <2>p, <2>r, <3>1, <3>3, <2>8, <2>z, <2>k DEF Written
    <3> QED
      BY <3>2, <3>3
  <2>9. ASSUME NEW p \in Procs, CheckAge(p) PROVE TypeOK'
    <3> DEFINE c == [call[p] EXCEPT !.at = "fetch"]
               d == [call[p] EXCEPT !.seen = Meta(p), !.at = "read"]
    <3>1. CallOK(p, c) /\ CallOK(p, d)
      BY <2>9, <2>t, <2>b, <2>p, <2>k, <2>d, MoveOK, SeenOK DEF CheckAge, At
    <3>2. \/ Return(p, "FileNotFoundError", None)
          \/ call' = [call EXCEPT ![p] = c]
          \/ call' = [call EXCEPT ![p] = d]
      BY <2>9 DEF CheckAge, Goto
    <3> HIDE DEF c, d
    <3> QED
      BY <2>a, <2>p, <2>r, <3>1, <3>2, <2>9, <2>z, <2>k DEF CheckAge
  <2>10. ASSUME NEW p \in Procs, ReadData(p) PROVE TypeOK'
    <3>1. Data(p) \in Content
      BY <2>b
    <3>2. \E h \in Endings, v \in Content : Return(p, h, v)
      BY <2>10, <2>p, <3>1 DEF ReadData
    <3> QED
      BY <2>p, <2>r, <3>2, <2>10, <2>z, <2>k DEF ReadData
  <2>11. ASSUME NEW p \in Procs, ExportList(p) PROVE TypeOK'
    <3> DEFINE files == (IF Data(p) = None THEN {} ELSE {"data"})
                          \cup (IF Meta(p).of = None THEN {} ELSE {"meta"})
               c == [call[p] EXCEPT !.at = "tar_data", !.listed = files]
    <3>1. archive' \in [whole : BOOLEAN, data : Content, meta : MetaContent]
      <4>1. archive' = NoArchive
        BY <2>11 DEF ExportList
      <4> QED
        BY <4>1, ContentFacts, Zenon DEF NoArchive
    <3>2. files \in SUBSET {"data", "meta"}
      OBVIOUS
    <3>3. call' = [call EXCEPT ![p] = c]
      BY <2>11 DEF ExportList
    <3> HIDE DEF files
    <3>4. CallOK(p, c)
      BY <2>11, <2>t, <3>2, <2>p, <2>k, <2>d, ListedOK DEF ExportList, At
    <3> HIDE DEF c
    <3> QED
      BY <2>a, <3>1, <3>3, <3>4, <2>11, <2>z, <2>k DEF ExportList
  <2>12. ASSUME NEW p \in Procs, ExportData(p) PROVE TypeOK'
    <3> DEFINE raw == IF "data" \in call[p].listed THEN Data(p) ELSE None
               c   == [call[p] EXCEPT !.raw = raw, !.at = "tar_meta"]
    <3>1. call' = [call EXCEPT ![p] = c]
      BY <2>12 DEF ExportData
    <3>2. raw \in Content
      BY <2>b, <2>p
    <3> HIDE DEF raw
    <3>3. CallOK(p, c)
      BY <2>12, <2>t, <3>2, <2>p, <2>k, <2>d, RawOK DEF ExportData, At
    <3> HIDE DEF c
    <3> QED
      BY <2>a, <3>1, <3>3, <2>12, <2>z, <2>k DEF ExportData
  <2>13. ASSUME NEW p \in Procs, ExportMeta(p) PROVE TypeOK'
    <3> DEFINE m == IF "meta" \in call[p].listed THEN Meta(p) ELSE NoMeta
    <3>1. m \in MetaContent /\ call[p].raw \in Content
      BY <2>b, <2>p, <2>t DEF CallOK, CallType
    <3>2. archive' = [whole |-> TRUE, data |-> call[p].raw, meta |-> m]
      BY <2>13 DEF ExportMeta
    <3> HIDE DEF m
    <3>3. archive' \in [whole : BOOLEAN, data : Content, meta : MetaContent]
      BY <3>1, <3>2, Zenon
    <3> QED
      BY <2>p, <2>r, <3>3, <2>13, <2>z, <2>k DEF ExportMeta
  <2>14. ASSUME NEW p \in Procs, Unpack(p) PROVE TypeOK'
    <3> DEFINE c == [call[p] EXCEPT !.raw = archive.data, !.text = archive.meta,
                                    !.at = "open_data"]
    <3>1. CASE archive.whole
      <4>1. call' = [call EXCEPT ![p] = c]
        BY <2>14, <3>1 DEF Unpack, Then
      <4>2. archive.data \in Content /\ archive.meta \in MetaContent
        BY DEF TypeOK
      <4>3. call[p].at = "unpack" /\ call[p].op = "import"
        BY <2>14, <2>t DEF Unpack, At, CallOK
      <4>4. CallOK(p, c)
        BY <2>t, <2>p, <4>2, <4>3, RawTextOK
      <4> HIDE DEF c
      <4> QED
        BY <2>a, <3>1, <4>1, <4>4, <2>14, <2>z, <2>k DEF Unpack
    <3>2. CASE ~archive.whole
      BY <2>p, <2>r, <3>2, <2>14, <2>z, <2>k DEF Unpack
    <3> QED
      BY <3>1, <3>2
  <2>15. CASE Tick
    BY <2>15, BoundsAssumption DEF Tick, TypeOK, Times, At
  <2>16. ASSUME NEW p \in Procs, Fault(p) PROVE TypeOK'
    <3>1. data' \in [Sites -> Content] /\ meta' \in [Sites -> MetaContent]
      BY <2>16, <2>k, ContentFacts DEF Fault
    <3>2. faults' \in 0..MaxFaults
      BY <2>16, BoundsAssumption DEF Fault, TypeOK
    <3> QED
      BY <2>p, <2>r, <3>1, <3>2, <2>16, <2>z, <2>k DEF Fault
  <2>17. CASE UNCHANGED vars
    BY <2>17 DEF vars, TypeOK, At
  <2>18. ASSUME NEW p \in Procs, FetchRaises(p) PROVE TypeOK'
    <3>1. Return(p, "HTTPException", None)
      BY <2>18 DEF FetchRaises
    <3> QED
      BY <2>p, <2>r, <3>1, <2>18, <2>z, <2>k DEF FetchRaises
  <2> QED
    BY <2>1, <2>2, <2>3, <2>4, <2>5, <2>6, <2>7, <2>8, <2>9, <2>10, <2>11, <2>12, <2>13,
       <2>14, <2>15, <2>16, <2>17, <2>18 DEF Next, Proceed, Update, Get, Export, Import, OpNames
<1> QED
  BY <1>1, <1>2, PTL DEF Spec

-----------------------------------------------------------------------------
(* One writer at a time, no import *)

\* The numbers the properties compare.
LEMMA Numbers ==
  ASSUME TypeOK
  PROVE  /\ now \in Int
         /\ \A s \in Sites : data[s] \in Int /\ meta[s].of \in Int
         /\ \A p \in Procs : /\ SiteOf[p] \in Sites
                             /\ Data(p) = data[SiteOf[p]] /\ Meta(p) = meta[SiteOf[p]]
                             /\ call[p].seen.of \in Int /\ call[p].raw \in Int
                             /\ call[p].text.of \in Int
<1>1. Content \subseteq Int /\ Times \subseteq Int
  BY BoundsAssumption DEF Content, Times, NotJson, None, Empty, Garbled
<1>2. \A m \in MetaContent : m.of \in Int
  BY <1>1, ContentFacts
<1>3. \A p \in Procs : call[p] \in CallType
  BY DEF TypeOK
<1>4. \A p \in Procs : call[p].raw \in Int /\ call[p].seen.of \in Int /\ call[p].text.of \in Int
  BY <1>1, <1>2, <1>3 DEF CallType
<1> QED
  BY <1>1, <1>2, <1>4, ProcsAssumption DEF TypeOK, Data, Meta

LEMMA NumbersNext ==
  ASSUME TypeOK'
  PROVE  /\ \A s \in Sites : data'[s] \in Int /\ meta'[s].of \in Int
         /\ \A p \in Procs : call'[p].raw \in Int /\ call'[p].seen.of \in Int
<1>1. Content \subseteq Int
  BY BoundsAssumption DEF Content, Times, NotJson, None, Empty, Garbled
<1>2. \A m \in MetaContent : m.of \in Int
  BY <1>1, ContentFacts
<1>3. \A p \in Procs : call'[p] \in CallType
  BY DEF TypeOK
<1>4. \A p \in Procs : call'[p].raw \in Int /\ call'[p].seen.of \in Int
  BY <1>1, <1>2, <1>3 DEF CallType
<1> QED
  BY <1>1, <1>2, <1>4 DEF TypeOK

\* A step that concerns one call only, outside a download, and at most makes it
\* rely on the meta file of its directory.
LEMMA PrivateStep ==
  ASSUME TypeOK, TypeOK', FreshInv, NEW p \in Procs,
         \A q \in Procs : call[q].at \in Downloaded => call[q].raw \in Times,
         \A q \in Procs : q # p => call'[q] = call[q],
         call'[p].at \notin Downloaded,
         call'[p].seen.of \in {call[p].seen.of, None, Meta(p).of},
         UNCHANGED <<data, meta, now>>
  PROVE  FreshFiles' /\ FreshWriter' /\ FreshReaders' /\ NeverOverstated'
<1>1. FreshFiles' /\ NeverOverstated'
  BY DEF FreshInv, FreshFiles, NeverOverstated
<1>2. FreshWriter'
  BY DEF FreshInv, FreshWriter, Data, Meta, At
<1>3. FreshReaders'
  <2> SUFFICES ASSUME NEW q \in Procs
               PROVE  /\ call'[q].seen.of <= now
                      /\ Readable(data[SiteOf[q]]) => call'[q].seen.of <= data[SiteOf[q]]
                      /\ \A r \in Procs : SiteOf[r] = SiteOf[q] /\ call'[r].at \in Downloaded
                                            => call'[q].seen.of <= call'[r].raw
    BY DEF FreshReaders, Data
  <2>1. CASE call'[q].seen.of = call[q].seen.of
    BY <2>1, Numbers DEF FreshInv, FreshReaders
  <2>2. CASE q = p /\ call'[q].seen.of = None
    BY <2>2, Numbers DEF Readable, None, Times, TypeOK
  <2>3. CASE q = p /\ call'[q].seen.of = Meta(p).of
    BY <2>3, Numbers DEF FreshInv, FreshFiles, FreshWriter
  <2> QED
    BY <2>1, <2>2, <2>3
<1> QED
  BY <1>1, <1>2, <1>3

\* Nobody else in the directory is past a download while one process is.
LEMMA OnlyDownload ==
  ASSUME OneWriter, Roles, NEW p \in Procs, NEW q \in Procs,
         call[p].at \in Downloaded \cup {"fetch"}, call[q].at \in Downloaded \cup {"fetch"},
         SiteOf[p] = SiteOf[q]
  PROVE  p = q
BY DEF OneWriter, Roles

\* A step of the one writer of a directory.  What it leaves there and what it
\* still is to write are no older than anything a reader relies on.
LEMMA WriterStep ==
  ASSUME TypeOK, TypeOK', FreshInv, NEW p \in Procs,
         call[p].at \in Downloaded \cup {"fetch"},
         \A q \in Procs : q # p => call'[q] = call[q],
         call'[p].seen = call[p].seen,
         call'[p].at \in Downloaded,
         call'[p].raw >= 0,
         call'[p].raw = now \/ (call[p].at \in Downloaded /\ call'[p].raw = call[p].raw),
         \A s \in Sites : s # SiteOf[p] => data'[s] = data[s] /\ meta'[s] = meta[s],
         Data(p)' \in {Data(p), Empty, call'[p].raw},
         Meta(p).of' \in {Meta(p).of, Empty, call'[p].raw},
         Readable(Data(p)') => \/ Data(p)' = call'[p].raw
                               \/ Data(p)' = Data(p) /\ Meta(p)' = Meta(p),
         At(p, "write_data")' => Data(p)' = Empty,
         call'[p].at \in {"open_meta", "write_meta", "done"} => Data(p)' = call'[p].raw,
         At(p, "write_meta")' => call'[p].text.of = call'[p].raw /\ Meta(p).of' = Empty,
         now' = now
  PROVE  FreshFiles' /\ FreshWriter' /\ FreshReaders' /\ NeverOverstated'
<1> DEFINE s == SiteOf[p]
           d == data'[s]
           m == meta'[s].of
           r == call'[p].raw
<1>n. /\ s \in Sites /\ d \in Int /\ m \in Int /\ r \in Int /\ now \in Int /\ now >= 0
      /\ data[s] \in Int /\ meta[s].of \in Int
      /\ \A q \in Procs : call[q].seen.of \in Int
  <2>1. s \in Sites
    BY ProcsAssumption
  <2>2. now >= 0
    BY DEF TypeOK, Times
  <2>3. \A x \in Sites : data'[x] \in Int /\ meta'[x].of \in Int
    BY NumbersNext
  <2>4. call'[p].raw \in Int
    BY NumbersNext
  <2> QED
    BY <2>1, <2>2, <2>3, <2>4, Numbers
<1>0. /\ d \in {data[s], Empty, r} /\ m \in {meta[s].of, Empty, r}
      /\ Readable(d) => d = r \/ (d = data[s] /\ m = meta[s].of)
  BY DEF Data, Meta
<1>w. call[p].at \in Downloaded =>
        call[p].raw <= now /\ data[s] <= call[p].raw /\ meta[s].of <= call[p].raw
  BY DEF FreshInv, FreshWriter, Data, Meta
<1>f. /\ data[s] <= now /\ meta[s].of <= now /\ (Readable(data[s]) => meta[s].of <= data[s])
  BY <1>n DEF FreshInv, FreshFiles
<1>1. d <= r /\ m <= r /\ r <= now
  BY <1>0, <1>w, <1>f, <1>n DEF Empty
<1>2. Readable(d) => m <= d
  BY <1>0, <1>1, <1>f
<1>3. \A q \in Procs : SiteOf[q] = s => /\ call[q].seen.of <= r
                                        /\ Readable(d) => call[q].seen.of <= d
  <2> SUFFICES ASSUME NEW q \in Procs, SiteOf[q] = s
               PROVE  call[q].seen.of <= r /\ (Readable(d) => call[q].seen.of <= d)
    OBVIOUS
  <2>1. call[q].seen.of <= now
    BY DEF FreshInv, FreshReaders
  <2>2. call[p].at \in Downloaded => call[q].seen.of <= call[p].raw
    BY DEF FreshInv, FreshReaders
  <2>3. Readable(data[s]) => call[q].seen.of <= data[s]
    BY DEF FreshInv, FreshReaders, Data
  <2> QED
    BY <2>1, <2>2, <2>3, <1>0
<1>4. \A q \in Procs : SiteOf[q] = s /\ call'[q].at \in Downloaded => q = p
  BY OnlyDownload DEF FreshInv
<1>5. \A q \in Procs : call'[q].seen = call[q].seen
  OBVIOUS
<1>6. FreshFiles' /\ NeverOverstated'
  <2>1. \A x \in Sites : /\ data'[x] <= now /\ meta'[x].of <= now
                         /\ Readable(data'[x]) => meta'[x].of <= data'[x]
    BY <1>1, <1>2, <1>n DEF FreshInv, FreshFiles
  <2>2. \A x \in Sites : data'[x] \in Int /\ meta'[x].of \in Int
    BY NumbersNext
  <2> QED
    BY <2>1, <2>2 DEF FreshFiles, NeverOverstated
<1>7. FreshWriter'
  <2> SUFFICES ASSUME NEW q \in Procs, call'[q].at \in Downloaded
               PROVE  /\ call'[q].raw <= now /\ Data(q)' <= call'[q].raw
                      /\ Meta(q).of' <= call'[q].raw
                      /\ At(q, "write_data")' => Data(q)' = Empty
                      /\ call'[q].at \in {"open_meta", "write_meta", "done"}
                           => Data(q)' = call'[q].raw
                      /\ At(q, "write_meta")' => /\ call'[q].text.of = call'[q].raw
                                                 /\ Meta(q).of' = Empty
    BY DEF FreshWriter
  <2>1. CASE q = p
    BY <2>1, <1>1 DEF Data, Meta
  <2>2. CASE q # p
    <3>1. SiteOf[q] # s /\ SiteOf[q] \in Sites
      BY <2>2, <1>4, ProcsAssumption
    <3>2. call'[q] = call[q] /\ Data(q)' = Data(q) /\ Meta(q)' = Meta(q)
      BY <2>2, <3>1 DEF Data, Meta
    <3> QED
      BY <3>2 DEF FreshInv, FreshWriter, At
  <2> QED
    BY <2>1, <2>2
<1>8. FreshReaders'
  <2> SUFFICES ASSUME NEW q \in Procs
               PROVE  /\ call[q].seen.of <= now
                      /\ Readable(data'[SiteOf[q]]) => call[q].seen.of <= data'[SiteOf[q]]
                      /\ \A x \in Procs : SiteOf[x] = SiteOf[q] /\ call'[x].at \in Downloaded
                                            => call[q].seen.of <= call'[x].raw
    BY <1>5 DEF FreshReaders, Data
  <2>0. call[q].seen.of <= now
    BY DEF FreshInv, FreshReaders
  <2>1. CASE SiteOf[q] = s
    BY <2>0, <2>1, <1>3, <1>4
  <2>2. CASE SiteOf[q] # s
    <3>1. \A x \in Procs : SiteOf[x] = SiteOf[q] => call'[x] = call[x]
      BY <2>2
    <3>2. data'[SiteOf[q]] = data[SiteOf[q]]
      BY <2>2, ProcsAssumption
    <3> QED
      BY <3>1, <3>2 DEF FreshInv, FreshReaders, Data
  <2> QED
    BY <2>1, <2>2
<1> QED
  BY <1>6, <1>7, <1>8

\* A call keeps its operation until it ends, so it stays the one writer or none.
LEMMA RolesStep ==
  ASSUME OneWriter, Roles, NEW p \in Procs, \A q \in Procs : q # p => call'[q] = call[q],
         call'[p].op = call[p].op \/ call'[p].op = "",
         call'[p].at = "idle" => call'[p].op = "",
         call'[p].at \in Downloaded \cup {"fetch"} => call'[p].op \in Writers,
         call'[p].at \in {"list", "tar_data", "tar_meta"} => call'[p].op = "export"
  PROVE  OneWriter' /\ Roles'
<1>1. "" \notin Writers
  BY DEF Writers
<1>2. OneWriter'
  BY <1>1 DEF OneWriter
<1>3. Roles'
  BY DEF Roles, At
<1> QED
  BY <1>2, <1>3

\* The end of a call whose result, if it is a get's, is fresh.
LEMMA ReturnStep ==
  ASSUME TypeOK, TypeOK', FreshInv, NEW p \in Procs, NEW h, NEW v, Return(p, h, v),
         \A q \in Procs : call[q].at \in Downloaded => call[q].raw \in Times,
         call[p].op \in {"get", "get offline"} /\ h = "ok" => v >= call[p].seen.of,
         UNCHANGED <<data, meta, now>>
  PROVE  FreshInv'
<1>1. call'[p] = Idle /\ \A q \in Procs : q # p => call'[q] = call[q]
  BY DEF Return, TypeOK
<1>2. Idle.at = "idle" /\ Idle.op = "" /\ Idle.seen.of = None
  BY DEF Idle, NoMeta
<1>3. OneWriter' /\ Roles'
  BY <1>1, <1>2, RolesStep DEF FreshInv, Downloaded
<1>4. FreshFiles' /\ FreshWriter' /\ FreshReaders' /\ NeverOverstated'
  BY <1>1, <1>2, PrivateStep DEF Downloaded
<1>5. GetReturnsFresh'
  BY DEF Return, TypeOK, GetReturnsFresh, FreshInv
<1> QED
  BY <1>3, <1>4, <1>5 DEF FreshInv

\* A step of a call that goes on, outside a download.
LEMMA GoOnStep ==
  ASSUME TypeOK, TypeOK', FreshInv, NEW p \in Procs,
         \A q \in Procs : call[q].at \in Downloaded => call[q].raw \in Times,
         NEW c, call' = [call EXCEPT ![p] = c],
         c.op = call[p].op, c.at \notin Downloaded \cup {"idle"},
         c.at = "fetch" => c.op \in Writers,
         c.at \in {"list", "tar_data", "tar_meta"} => c.op = "export",
         c.seen.of = call[p].seen.of \/ c.seen.of = Meta(p).of,
         UNCHANGED <<data, meta, now, result>>
  PROVE  FreshInv'
<1>1. call'[p] = c /\ \A q \in Procs : q # p => call'[q] = call[q]
  BY DEF TypeOK
<1>2. OneWriter' /\ Roles'
  BY <1>1, RolesStep DEF FreshInv
<1>3. FreshFiles' /\ FreshWriter' /\ FreshReaders' /\ NeverOverstated'
  BY <1>1, PrivateStep
<1>4. GetReturnsFresh'
  BY DEF GetReturnsFresh, FreshInv
<1> QED
  BY <1>2, <1>3, <1>4 DEF FreshInv

\* A step within a download changes no result and nobody's role.
LEMMA DownloadStep ==
  ASSUME FreshInv, NEW p \in Procs, call[p].op \in Writers,
         \A q \in Procs : q # p => call'[q] = call[q],
         call'[p].op = call[p].op, call'[p].at \in Downloaded, UNCHANGED result,
         FreshFiles' /\ FreshWriter' /\ FreshReaders' /\ NeverOverstated'
  PROVE  FreshInv'
<1>1. OneWriter' /\ Roles'
  BY RolesStep DEF FreshInv, Downloaded
<1>2. GetReturnsFresh'
  BY DEF GetReturnsFresh, FreshInv
<1> QED
  BY <1>1, <1>2 DEF FreshInv

\* The conditions under which no meta file overstates the data: calls overlap a
\* writer only to read or to export, and archives are not unpacked.
OneWriterAtATime == Overlap # "everything" /\ \A p \in Procs : "import" \notin Ops[p]

LEMMA FreshStep ==
  ASSUME OneWriterAtATime, TypeOK, TypeOK', FreshInv, [Next]_vars
  PROVE  FreshInv'
<1>n. \A p \in Procs : call[p].op # "import" /\ call[p].at # "unpack"
  BY DEF OneWriterAtATime, TypeOK, FreshInv, Roles, At
<1>t. \A q \in Procs : call[q].at \in Downloaded => call[q].raw \in Times
  BY <1>n DEF TypeOK
<1>o. \A p \in Procs : call[p].at \in Downloaded \cup {"fetch"} => call[p].op \in Writers
  BY DEF FreshInv, Roles
<1>c. \A p \in Procs : call[p] \in CallType
  BY DEF TypeOK
<1>e. ASSUME NEW p \in Procs, NEW c, call' = [call EXCEPT ![p] = c]
      PROVE  call'[p] = c /\ \A q \in Procs : q # p => call'[q] = call[q]
  BY <1>e DEF TypeOK
<1>1. ASSUME NEW p \in Procs, NEW op \in OpNames, NEW w \in {"fetch", "age", "list", "unpack"},
             w = "fetch" => op = "update", w = "list" => op = "export", Begin(p, op, w)
      PROVE  FreshInv'
  <2> DEFINE k == SiteOf[p] \in cached
             c == [Idle EXCEPT !.op = op, !.at = w, !.known = k]
  <2>1. call' = [call EXCEPT ![p] = c]
    BY <1>1 DEF Begin
  <2>2. c.op = op /\ c.at = w /\ c.seen.of = None
    BY DEF Idle, NoMeta
  <2> HIDE DEF c
  <2>3. w \notin Downloaded
    BY DEF Downloaded
  <2>8. call'[p] = c /\ \A q \in Procs : q # p => call'[q] = call[q]
    BY <1>e, <2>1
  <2>4. FreshFiles' /\ FreshWriter' /\ FreshReaders' /\ NeverOverstated'
    <3>1. UNCHANGED <<data, meta, now>>
      BY <1>1 DEF Begin
    <3> QED
      BY <1>t, <2>2, <2>3, <2>8, <3>1, PrivateStep
  <2>5. Roles'
    <3>1. /\ c.at # "idle" /\ (c.at \in Downloaded \cup {"fetch"} => c.op \in Writers)
          /\ (c.at \in {"list", "tar_data", "tar_meta"} => c.op = "export")
      BY <1>1, <2>2, <2>3 DEF Writers
    <3> QED
      BY <2>8, <3>1 DEF FreshInv, Roles, At
  <2>6. OneWriter'
    <3>1. \A q \in Procs : q # p /\ SiteOf[q] = SiteOf[p]
                             => op \notin Writers \/ call[q].op \notin Writers
      <4>1. \A q \in Procs : At(q, "idle") => call[q].op \notin Writers
        BY DEF FreshInv, Roles, Writers
      <4>2. \A q \in Procs : MayOverlap(op, call[q].op)
                               => op \notin Writers \/ call[q].op \notin Writers
        BY DEF MayOverlap, OneWriterAtATime
      <4> QED
        BY <4>1, <4>2, <1>1 DEF Begin
    <3> QED
      BY <3>1, <2>2, <2>8 DEF OneWriter, FreshInv
  <2>7. GetReturnsFresh'
    BY <1>1 DEF Begin, GetReturnsFresh, FreshInv, NoResult, TypeOK
  <2> QED
    BY <2>4, <2>5, <2>6, <2>7 DEF FreshInv
<1>2. ASSUME NEW p \in Procs, FetchOk(p) PROVE FreshInv'
  <2> DEFINE c == [call[p] EXCEPT !.raw = now, !.at = "open_data"]
  <2>1. call' = [call EXCEPT ![p] = c] /\ call[p].at = "fetch"
    BY <1>2 DEF FetchOk, Then, At
  <2>2. c.at = "open_data" /\ c.raw = now /\ c.op = call[p].op /\ c.seen = call[p].seen
    BY <1>c DEF CallType
  <2> HIDE DEF c
  <2>3. now >= 0
    BY DEF TypeOK, Times
  <2>4. FreshFiles' /\ FreshWriter' /\ FreshReaders' /\ NeverOverstated'
    <3>1. UNCHANGED <<data, meta, now>>
      BY <1>2 DEF FetchOk
    <3>2. Data(p)' = Data(p) /\ Meta(p)' = Meta(p)
      BY <3>1 DEF Data, Meta
    <3>3. call'[p] = c /\ \A q \in Procs : q # p => call'[q] = call[q]
      BY <1>e, <2>1
    <3> QED
      BY <2>1, <2>2, <2>3, <3>1, <3>2, <3>3, WriterStep DEF Downloaded, At
  <2>5. call[p].op \in Writers /\ UNCHANGED result
    BY <1>2, <1>o, <2>1 DEF FetchOk
  <2> QED
    BY <1>e, <2>1, <2>2, <2>4, <2>5, DownloadStep DEF Downloaded
<1>3. ASSUME NEW p \in Procs, FetchFails(p) PROVE FreshInv'
  <2>1. CASE call[p].tries < retries
    <3> DEFINE c == [call[p] EXCEPT !.tries = @ + 1]
    <3>1. call' = [call EXCEPT ![p] = c] /\ call[p].at = "fetch"
      BY <1>3, <2>1 DEF FetchFails, At
    <3>2. c.at = "fetch" /\ c.op = call[p].op /\ c.seen = call[p].seen
      BY <1>c, <3>1 DEF CallType
    <3> HIDE DEF c
    <3> QED
      BY <1>3, <1>t, <1>o, <2>1, <3>1, <3>2, GoOnStep DEF FetchFails, Downloaded
  <2>2. CASE ~(call[p].tries < retries)
    BY <1>3, <1>t, <2>2, ReturnStep DEF FetchFails
  <2> QED
    BY <2>1, <2>2
<1>4. ASSUME NEW p \in Procs, OpenData(p) PROVE FreshInv'
  <2> DEFINE c == [call[p] EXCEPT !.at = "write_data"]
  <2>0. call[p].at = "open_data" /\ call[p].raw >= 0 /\ call[p].raw # None
    BY <1>4, <1>t DEF OpenData, At, Downloaded, Times, None
  <2>1. call' = [call EXCEPT ![p] = c] /\ data' = [data EXCEPT ![SiteOf[p]] = Empty]
    BY <1>4, <2>0 DEF OpenData, Goto
  <2>2. c.at = "write_data" /\ c.raw = call[p].raw /\ c.op = call[p].op /\ c.seen = call[p].seen
    BY <1>c DEF CallType
  <2> HIDE DEF c
  <2>3. Data(p)' = Empty /\ \A s \in Sites : s # SiteOf[p] => data'[s] = data[s]
    BY <2>1, ProcsAssumption DEF Data, TypeOK
  <2>4. FreshFiles' /\ FreshWriter' /\ FreshReaders' /\ NeverOverstated'
    BY <1>4, <1>e, <2>0, <2>1, <2>2, <2>3, WriterStep
       DEF OpenData, Downloaded, At, Meta, Empty, Readable
  <2> QED
    BY <1>4, <1>o, <1>e, <2>0, <2>1, <2>2, <2>4, DownloadStep DEF OpenData, Downloaded
<1>5. ASSUME NEW p \in Procs, WriteData(p) PROVE FreshInv'
  <2> DEFINE c == [call[p] EXCEPT !.at = "open_meta"]
  <2>0. call[p].at = "write_data" /\ call[p].raw >= 0
    BY <1>5, <1>t DEF WriteData, At, Downloaded, Times
  <2>1. Data(p) = Empty
    BY <2>0 DEF FreshInv, FreshWriter, At, Downloaded
  <2>2. call' = [call EXCEPT ![p] = c] /\ data' = [data EXCEPT ![SiteOf[p]] = call[p].raw]
    BY <1>5, <2>1 DEF WriteData, Overwrite, Goto, Then
  <2>3. c.at = "open_meta" /\ c.raw = call[p].raw /\ c.op = call[p].op /\ c.seen = call[p].seen
    BY <1>c DEF CallType
  <2> HIDE DEF c
  <2>4. Data(p)' = call[p].raw /\ \A s \in Sites : s # SiteOf[p] => data'[s] = data[s]
    BY <2>2, ProcsAssumption DEF Data, TypeOK
  <2>6. /\ Meta(p)' = Meta(p) /\ now' = now
        /\ \A s \in Sites : s # SiteOf[p] => data'[s] = data[s] /\ meta'[s] = meta[s]
    BY <1>5, <2>4 DEF WriteData, Meta
  <2>7. call'[p] = c /\ \A q \in Procs : q # p => call'[q] = call[q]
    BY <1>e, <2>2
  <2>5. FreshFiles' /\ FreshWriter' /\ FreshReaders' /\ NeverOverstated'
    BY <2>0, <2>3, <2>4, <2>6, <2>7, WriterStep DEF Downloaded, At
  <2> QED
    BY <1>5, <1>o, <1>e, <2>0, <2>2, <2>3, <2>5, DownloadStep DEF WriteData, Downloaded
<1>6. ASSUME NEW p \in Procs, OpenMeta(p) PROVE FreshInv'
  <2> DEFINE text == [of |-> call[p].raw, at |-> now]
             empty == [of |-> Empty, at |-> None]
             c == [call[p] EXCEPT !.text = text, !.at = "write_meta"]
  <2>0. call[p].at = "open_meta" /\ call[p].raw >= 0 /\ call[p].raw # None
    BY <1>6, <1>t DEF OpenMeta, At, Downloaded, Times, None
  <2>1. call' = [call EXCEPT ![p] = c] /\ meta' = [meta EXCEPT ![SiteOf[p]] = empty]
    BY <1>6, <1>n, <2>0 DEF OpenMeta
  <2>2. /\ c.at = "write_meta" /\ c.raw = call[p].raw /\ c.op = call[p].op
        /\ c.seen = call[p].seen /\ c.text.of = call[p].raw
    BY <1>c DEF CallType
  <2> HIDE DEF c
  <2>3. Meta(p).of' = Empty /\ \A s \in Sites : s # SiteOf[p] => meta'[s] = meta[s]
    BY <2>1, ProcsAssumption DEF Meta, TypeOK
  <2>4. Data(p)' = Data(p) /\ Data(p) = call[p].raw
    BY <1>6, <2>0 DEF OpenMeta, Data, FreshInv, FreshWriter, Downloaded
  <2>5. FreshFiles' /\ FreshWriter' /\ FreshReaders' /\ NeverOverstated'
    BY <1>6, <1>e, <2>0, <2>1, <2>2, <2>3, <2>4, WriterStep DEF OpenMeta, Downloaded, At
  <2> QED
    BY <1>6, <1>o, <1>e, <2>0, <2>1, <2>2, <2>5, DownloadStep DEF OpenMeta, Downloaded
<1>7. ASSUME NEW p \in Procs, WriteMeta(p) PROVE FreshInv'
  <2> DEFINE c == [call[p] EXCEPT !.at = "done"]
  <2>0. call[p].at = "write_meta" /\ call[p].raw >= 0
    BY <1>7, <1>t DEF WriteMeta, At, Downloaded, Times
  <2>1. Meta(p).of = Empty /\ call[p].text.of = call[p].raw /\ Data(p) = call[p].raw
    BY <2>0 DEF FreshInv, FreshWriter, At, Downloaded
  <2>2. call' = [call EXCEPT ![p] = c] /\ meta' = [meta EXCEPT ![SiteOf[p]] = call[p].text]
    <3>1. Overwrite(Meta(p).of, call[p].text.of) = {call[p].raw} /\ call[p].raw # Garbled
      BY <2>0, <2>1 DEF Overwrite, Garbled
    <3> QED
      BY <1>7, <3>1 DEF WriteMeta, Goto, Then
  <2>3. c.at = "done" /\ c.raw = call[p].raw /\ c.op = call[p].op /\ c.seen = call[p].seen
    BY <1>c DEF CallType
  <2> HIDE DEF c
  <2>4. Meta(p).of' = call[p].raw /\ \A s \in Sites : s # SiteOf[p] => meta'[s] = meta[s]
    BY <2>1, <2>2, ProcsAssumption DEF Meta, TypeOK
  <2>5. Data(p)' = call[p].raw
    BY <1>7, <2>1 DEF WriteMeta, Data
  <2>7. now' = now /\ \A s \in Sites : s # SiteOf[p] => data'[s] = data[s] /\ meta'[s] = meta[s]
    BY <1>7, <2>4 DEF WriteMeta
  <2>8. call'[p] = c /\ \A q \in Procs : q # p => call'[q] = call[q]
    BY <1>e, <2>2
  <2>6. FreshFiles' /\ FreshWriter' /\ FreshReaders' /\ NeverOverstated'
    BY <2>0, <2>3, <2>4, <2>5, <2>7, <2>8, WriterStep DEF Downloaded, At
  <2> QED
    BY <1>7, <1>o, <1>e, <2>0, <2>2, <2>3, <2>6, DownloadStep DEF WriteMeta, Downloaded
<1>8. ASSUME NEW p \in Procs, Written(p) PROVE FreshInv'
  <2>1. CASE call[p].op = "get"
    <3> DEFINE c == [call[p] EXCEPT !.at = "read"]
    <3>1. call' = [call EXCEPT ![p] = c] /\ UNCHANGED <<data, meta, now, result>>
      BY <1>8, <2>1 DEF Written, Goto
    <3>2. c.at = "read" /\ c.op = call[p].op /\ c.seen = call[p].seen
      BY <1>c DEF CallType
    <3> HIDE DEF c
    <3> QED
      BY <1>t, <3>1, <3>2, GoOnStep DEF Downloaded
  <2>2. CASE call[p].op # "get"
    <3>1. call[p].op # "get offline"
      BY <1>8, <1>o DEF Written, At, Downloaded, Writers
    <3> QED
      BY <1>8, <1>t, <2>2, <3>1, ReturnStep DEF Written
  <2> QED
    BY <2>1, <2>2
<1>9. ASSUME NEW p \in Procs, CheckAge(p) PROVE FreshInv'
  <2> DEFINE c == [call[p] EXCEPT !.at = "fetch"]
             d == [call[p] EXCEPT !.seen = Meta(p), !.at = "read"]
  <2>1. \/ Return(p, "FileNotFoundError", None)
        \/ call' = [call EXCEPT ![p] = c] /\ call[p].op = "get" /\ UNCHANGED result
        \/ call' = [call EXCEPT ![p] = d] /\ UNCHANGED result
    BY <1>9 DEF CheckAge, Goto
  <2>2. /\ c.at = "fetch" /\ c.op = call[p].op /\ c.seen = call[p].seen
        /\ d.at = "read" /\ d.op = call[p].op /\ d.seen = Meta(p)
    BY <1>c DEF CallType
  <2> HIDE DEF c, d
  <2>3. CASE Return(p, "FileNotFoundError", None)
    BY <1>9, <1>t, <2>3, ReturnStep DEF CheckAge
  <2>4. CASE call' = [call EXCEPT ![p] = c] /\ call[p].op = "get" /\ UNCHANGED result
    BY <1>9, <1>t, <2>2, <2>4, GoOnStep DEF CheckAge, Downloaded, Writers
  <2>5. CASE call' = [call EXCEPT ![p] = d] /\ UNCHANGED result
    BY <1>9, <1>t, <2>2, <2>5, GoOnStep DEF CheckAge, Downloaded
  <2> QED
    BY <2>1, <2>3, <2>4, <2>5
<1>10. ASSUME NEW p \in Procs, ReadData(p) PROVE FreshInv'
  <2>1. Readable(Data(p)) => Data(p) >= call[p].seen.of
    BY Numbers DEF FreshInv, FreshReaders
  <2> QED
    BY <1>10, <1>t, <2>1, ReturnStep DEF ReadData
<1>11. ASSUME NEW p \in Procs, ExportList(p) PROVE FreshInv'
  <2> DEFINE files == (IF Data(p) = None THEN {} ELSE {"data"})
                        \cup (IF Meta(p).of = None THEN {} ELSE {"meta"})
             c == [call[p] EXCEPT !.at = "tar_data", !.listed = files]
  <2>1. call' = [call EXCEPT ![p] = c] /\ call[p].op = "export"
    BY <1>11 DEF ExportList, At, FreshInv, Roles
  <2> HIDE DEF files
  <2>2. c.at = "tar_data" /\ c.op = call[p].op /\ c.seen = call[p].seen
    BY <1>c DEF CallType
  <2> HIDE DEF c
  <2> QED
    BY <1>11, <1>t, <2>1, <2>2, GoOnStep DEF ExportList, Downloaded
<1>12. ASSUME NEW p \in Procs, ExportData(p) PROVE FreshInv'
  <2> DEFINE raw == IF "data" \in call[p].listed THEN Data(p) ELSE None
             c == [call[p] EXCEPT !.raw = raw, !.at = "tar_meta"]
  <2>1. call' = [call EXCEPT ![p] = c] /\ call[p].op = "export"
    BY <1>12 DEF ExportData, At, FreshInv, Roles
  <2> HIDE DEF raw
  <2>2. c.at = "tar_meta" /\ c.op = call[p].op /\ c.seen = call[p].seen
    BY <1>c DEF CallType
  <2> HIDE DEF c
  <2> QED
    BY <1>12, <1>t, <2>1, <2>2, GoOnStep DEF ExportData, Downloaded
<1>13. ASSUME NEW p \in Procs, ExportMeta(p) PROVE FreshInv'
  <2>1. call[p].op = "export"
    BY <1>13 DEF ExportMeta, At, FreshInv, Roles
  <2> QED
    BY <1>13, <1>t, <2>1, ReturnStep DEF ExportMeta
<1>14. ASSUME NEW p \in Procs, Unpack(p) PROVE FreshInv'
  BY <1>14, <1>n DEF Unpack, At
<1>15. CASE Tick
  <2>1. now \in Int /\ now' = now + 1 /\ UNCHANGED <<data, meta, call, result>>
    BY <1>15, Numbers DEF Tick
  <2>2. FreshFiles'
    BY <2>1, Numbers DEF FreshInv, FreshFiles
  <2>3. FreshWriter'
    BY <2>1, Numbers DEF FreshInv, FreshWriter, At, Data, Meta
  <2>4. FreshReaders'
    BY <2>1, Numbers DEF FreshInv, FreshReaders, Data
  <2> QED
    BY <2>1, <2>2, <2>3, <2>4
       DEF FreshInv, OneWriter, Roles, NeverOverstated, GetReturnsFresh, At
<1>16. ASSUME NEW p \in Procs, Fault(p) PROVE FreshInv'
  <2>0. Return(p, "fault", None) /\ now' = now
    BY <1>16 DEF Fault
  <2>1. CASE UNCHANGED <<data, meta>>
    BY <1>t, <2>0, <2>1, ReturnStep
  <2>2. CASE ~UNCHANGED <<data, meta>>
    <3> DEFINE s == SiteOf[p]
               cut == [of |-> Garbled, at |-> None]
    <3>1. /\ call[p].at \in Downloaded
          /\ \/ data' = [data EXCEPT ![s] = Garbled] /\ meta' = meta
             \/ data' = data /\ meta' = [meta EXCEPT ![s] = cut]
      BY <1>16, <2>2 DEF Fault, At, Downloaded
    <3>2. call'[p] = Idle /\ \A q \in Procs : q # p => call'[q] = call[q]
      BY <2>0 DEF Return, TypeOK
    <3>3. Idle.at = "idle" /\ Idle.op = "" /\ Idle.seen.of = None
      BY DEF Idle, NoMeta
    <3>4. \A x \in Sites : \/ data'[x] = data[x] /\ meta'[x].of = meta[x].of /\ meta'[x] = meta[x]
                           \/ x = s /\ data'[x] = Garbled /\ meta'[x].of = meta[x].of
                           \/ x = s /\ data'[x] = data[x] /\ meta'[x].of = Garbled
      BY <3>1, ProcsAssumption DEF TypeOK
    <3>5. \A x \in Sites : Garbled <= now /\ (Readable(data[x]) => Garbled <= data[x])
      BY Numbers DEF Garbled, Readable, TypeOK, Times
    <3>6. FreshFiles'
      BY <2>0, <3>4, <3>5, Numbers DEF FreshInv, FreshFiles, Readable, Garbled
    <3>7. NeverOverstated'
      BY <3>4, Numbers DEF FreshInv, NeverOverstated, Readable, Garbled
    <3>8. \A q \in Procs : call'[q].at \in Downloaded
                            => /\ q # p /\ call'[q] = call[q] /\ SiteOf[q] # s
                               /\ data'[SiteOf[q]] = data[SiteOf[q]]
                               /\ meta'[SiteOf[q]] = meta[SiteOf[q]]
      <4>1. \A q \in Procs : call'[q].at \in Downloaded => q # p /\ call'[q] = call[q]
        BY <3>2, <3>3 DEF Downloaded
      <4>2. \A q \in Procs : call'[q].at \in Downloaded => SiteOf[q] # s
        BY <3>1, <4>1, OnlyDownload DEF FreshInv
      <4> QED
        BY <3>1, <4>1, <4>2, ProcsAssumption DEF TypeOK
    <3>9. FreshWriter'
      BY <2>0, <3>8 DEF FreshInv, FreshWriter, At, Data, Meta
    <3>10. FreshReaders'
      <4> SUFFICES ASSUME NEW q \in Procs
                   PROVE  /\ call'[q].seen.of <= now
                          /\ Readable(data'[SiteOf[q]]) => call'[q].seen.of <= data'[SiteOf[q]]
                          /\ \A r \in Procs : SiteOf[r] = SiteOf[q] /\ call'[r].at \in Downloaded
                                                => call'[q].seen.of <= call'[r].raw
        BY <2>0 DEF FreshReaders, Data
      <4>1. Readable(data'[SiteOf[q]]) => data'[SiteOf[q]] = data[SiteOf[q]]
        BY <3>4, ProcsAssumption DEF Readable, Garbled
      <4>2. CASE q # p
        BY <3>2, <3>8, <4>1, <4>2 DEF FreshInv, FreshReaders, Data
      <4>3. CASE q = p
        <5>1. None <= now /\ (Readable(data[SiteOf[q]]) => None <= data[SiteOf[q]])
          BY Numbers DEF None, Readable, TypeOK, Times
        <5>2. \A r \in Procs : call'[r].at \in Downloaded => None <= call'[r].raw
          BY <1>t, <3>8 DEF None, Times
        <5> QED
          BY <3>2, <3>3, <4>1, <4>3, <5>1, <5>2
      <4> QED
        BY <4>2, <4>3
    <3>11. OneWriter' /\ Roles'
      BY <3>2, <3>3, RolesStep DEF FreshInv, Downloaded
    <3>12. GetReturnsFresh'
      BY <2>0 DEF Return, TypeOK, GetReturnsFresh, FreshInv
    <3> QED
      BY <3>6, <3>7, <3>9, <3>10, <3>11, <3>12 DEF FreshInv
  <2> QED
    BY <2>1, <2>2
<1>18. ASSUME NEW p \in Procs, FetchRaises(p) PROVE FreshInv'
  BY <1>18, <1>t, ReturnStep DEF FetchRaises
<1>17. CASE UNCHANGED vars
  BY <1>17 DEF vars, FreshInv, OneWriter, Roles, FreshFiles, FreshWriter, FreshReaders,
     NeverOverstated, GetReturnsFresh, At, Data, Meta
<1> QED
  BY <1>1, <1>2, <1>3, <1>4, <1>5, <1>6, <1>7, <1>8, <1>9, <1>10, <1>11, <1>12, <1>13,
     <1>14, <1>15, <1>16, <1>17, <1>18 DEF Next, Proceed, Update, Get, Export, Import, OpNames

LEMMA FreshInvHolds ==
  ASSUME OneWriterAtATime
  PROVE  Spec => []FreshInv
<1>1. Init => FreshInv
  <2> SUFFICES ASSUME Init PROVE FreshInv
    OBVIOUS
  <2>1. /\ \A s \in Sites : data[s] = None /\ meta[s].of = None
        /\ \A p \in Procs : /\ call[p].at = "idle" /\ call[p].op = "" /\ call[p].seen.of = None
                            /\ SiteOf[p] \in Sites /\ result[p].op = ""
        /\ now = 0
    BY ProcsAssumption DEF Init, Idle, NoMeta, NoResult
  <2>2. "" \notin Writers /\ ~Readable(None) /\ None <= 0 /\ "idle" \notin Downloaded
    BY DEF Writers, Readable, None, Downloaded
  <2>3. FreshFiles /\ NeverOverstated
    BY <2>1, <2>2 DEF FreshFiles, NeverOverstated
  <2>4. FreshWriter
    BY <2>1, <2>2 DEF FreshWriter
  <2>5. FreshReaders
    BY <2>1, <2>2 DEF FreshReaders, Data
  <2> QED
    BY <2>1, <2>2, <2>3, <2>4, <2>5 DEF FreshInv, OneWriter, Roles, GetReturnsFresh, At
<1>2. TypeOK /\ TypeOK' /\ FreshInv /\ [Next]_vars => FreshInv'
  BY FreshStep
<1> QED
  BY <1>1, <1>2, TypeCorrect, PTL DEF Spec

\* With one writer at a time and no unpacking, meta never vouches for data older
\* than what it was written for: at every step of update and get, at every crash,
\* for any number of processes, directories, retries and ages.
THEOREM NeverOverstatedHolds ==
  ASSUME OneWriterAtATime
  PROVE  Spec => []NeverOverstated
<1>1. FreshInv => NeverOverstated
  BY DEF FreshInv
<1> QED
  BY <1>1, FreshInvHolds, PTL

\* Under the same conditions a get that relies on the cache returns content at
\* least as recent as the download it checked the age of, whatever an update does
\* to the two files between its two reads.
THEOREM GetReturnsFreshHolds ==
  ASSUME OneWriterAtATime
  PROVE  Spec => []GetReturnsFresh
<1>1. FreshInv => GetReturnsFresh
  BY DEF FreshInv
<1> QED
  BY <1>1, FreshInvHolds, PTL
=============================================================================
