-------------------------- MODULE HoneypotServer_proofs --------------------------
(***************************************************************************)
(* Theorems about HoneypotServer, for any set of peers and streams, any    *)
(* cutting of the bytes and any length of the accept queue.                *)
(***************************************************************************)
EXTENDS HoneypotServer, FiniteSetTheorems, TLAPS

\* The frames a header can announce, and the events printed for them.
Frames  == (UNION {{s[i] : i \in DOMAIN s} : s \in Streams}) \cup {Garbage}
Holders == Peers \cup {NoPeer}
Events  == {EventOf(u, c) : u \in Frames, c \in Holders}
             \cup {unparseable_event(c) : c \in Holders}
Taken   == [src : Holders, frame : Frames]

\* Types of what TypeOK says nothing about, because no run compares it.
DataOK == /\ raw \in Frames
          /\ event \in Events
          /\ log \in Seq(Events)
          /\ taken \in Seq(Taken)

TInv == TypeOK /\ DataOK

LEMMA LengthOnWire == ASSUME NEW u, OnWire(u) PROVE u.length \in Nat
BY DEF OnWire

LEMMA FramesHaveLengths == \A u \in Frames : u.length \in Nat
<1>1. ASSUME NEW s \in Streams, NEW i \in DOMAIN s PROVE s[i].length \in Nat
  BY StreamsAssumption, LengthOnWire, Zenon DEF Tiled
<1>2. Garbage.length \in Nat
  BY DEF Garbage
<1> QED
  BY <1>1, <1>2 DEF Frames

LEMMA FrameAtIsFrame ==
  ASSUME NEW s \in Streams, NEW p PROVE FrameAt(s, p) \in Frames
<1>1. CASE \E i \in DOMAIN s : s[i].at = p
  <2>1. (CHOOSE i \in DOMAIN s : s[i].at = p) \in DOMAIN s
    BY <1>1
  <2>2. FrameAt(s, p) \in {s[i] : i \in DOMAIN s}
    BY <1>1, <2>1, Zenon DEF FrameAt
  <2> QED
    BY <2>2, Zenon DEF Frames
<1>2. CASE ~\E i \in DOMAIN s : s[i].at = p
  <2>1. FrameAt(s, p) = Garbage
    BY <1>2, Zenon DEF FrameAt
  <2> QED
    BY <2>1, Zenon DEF Frames
<1> QED
  BY <1>1, <1>2

LEMMA RestLenIsNat ==
  ASSUME NEW n \in Nat PROVE RestLen(n) \in Nat
BY DEF RestLen

\* Leaving the process keeps every type.
LEMMA ExitKeepsTypes ==
  ASSUME TInv, NEW why \in {"ctrl_c", "exception", "no_stdout", "no_bind"}, Exit(why)
  PROVE  TInv'
BY DEF TInv, TypeOK, DataOK, Exit, peerVars, Labels

LEMMA PeersKeepTypes ==
  ASSUME TInv, NEW c \in Peers, PeerStep(c) PROVE TInv'
<1>1. CASE Connect(c)
  BY <1>1 DEF Connect, TInv, TypeOK, DataOK, serverVars, Statuses
<1>2. CASE Deliver(c)
  <2> DEFINE left == End(stream[c], SentFrames(c)) - arrived[c]
  <2>1. PICK n \in 1..left : arrived' = [arrived EXCEPT ![c] = @ + n]
    BY <1>2 DEF Deliver
  <2>2. n \in Nat
    BY <2>1
  <2> HIDE DEF left
  <2>3. arrived' \in [Peers -> Nat]
    BY <2>1, <2>2 DEF TInv, TypeOK
  <2> QED
    BY <1>2, <2>3 DEF Deliver, TInv, TypeOK, DataOK, serverVars
<1>3. CASE Close(c)
  BY <1>3 DEF Close, TInv, TypeOK, DataOK, serverVars, Statuses
<1>4. CASE Reset(c)
  BY <1>4 DEF Reset, TInv, TypeOK, DataOK, serverVars, Statuses
<1> QED
  BY <1>1, <1>2, <1>3, <1>4 DEF PeerStep

\* Reading: the connection held is that of a peer, and counts grow.
LEMMA ReadingKeepsTypes ==
  ASSUME TInv, Accept \/ Recv \/ RecvEof \/ HeadRead \/ RestRead PROVE TInv'
<1>1. CASE Accept
  BY <1>1, PeersAssumption DEF Accept, TInv, TypeOK, DataOK, peerVars, Labels
<1>2. CASE Recv
  <2> DEFINE n == Least(Unread, Wanted - got)
  <2>1. conn \in Peers
    BY <1>2 DEF Recv, Reading, TInv, TypeOK
  <2>2. Wanted \in Nat
    BY RestLenIsNat DEF Wanted, MBAP_LEN, TInv, TypeOK
  <2>3. n \in Nat
    BY <1>2, <2>1, <2>2 DEF Recv, Reading, Unread, Least, TInv, TypeOK
  <2>4. got' = got + n /\ pos' = [pos EXCEPT ![conn] = @ + n]
    BY <1>2 DEF Recv
  <2> HIDE DEF n
  <2>5. got' \in Nat /\ pos' \in [Peers -> Nat]
    BY <2>1, <2>3, <2>4 DEF TInv, TypeOK
  <2> QED
    BY <1>2, <2>5 DEF Recv, TInv, TypeOK, DataOK, peerVars
<1>3. CASE RecvEof
  BY <1>3 DEF RecvEof, TInv, TypeOK, DataOK, peerVars, Labels, Reading
<1>4. CASE HeadRead
  <2>1. conn \in Peers
    BY <1>4 DEF HeadRead, TInv, TypeOK
  <2>2. raw' \in Frames
    BY <1>4, <2>1, FrameAtIsFrame DEF HeadRead, TInv, TypeOK
  <2> QED
    BY <1>4, <2>2, FramesHaveLengths DEF HeadRead, TInv, TypeOK, DataOK, peerVars, Labels
<1>5. CASE RestRead
  <2>1. [src |-> conn, frame |-> raw] \in Taken
    BY DEF TInv, TypeOK, DataOK, Taken, Holders
  <2> QED
    BY <1>5, <2>1 DEF RestRead, TInv, TypeOK, DataOK, peerVars, Labels
<1> QED
  BY <1>1, <1>2, <1>3, <1>4, <1>5

LEMMA HandlingKeepsTypes ==
  ASSUME TInv, Bind \/ Refuse \/ Parse \/ Answer \/ Flag \/ PrintEvent PROVE TInv'
<1>1. EventOf(raw, conn) \in Events
  BY DEF TInv, TypeOK, DataOK, Events, Holders
<1>2. CASE Bind
  BY <1>2 DEF Bind, TInv, TypeOK, DataOK, peerVars, Labels
<1>3. CASE Refuse \/ Parse
  BY <1>1, <1>3 DEF Refuse, Parse, TInv, TypeOK, DataOK, peerVars, Labels
<1>4. CASE Answer
  BY <1>4 DEF Answer, TInv, TypeOK, DataOK, peerVars, Labels
<1>5. CASE Flag
  BY <1>5 DEF Flag, TInv, TypeOK, DataOK, peerVars, Labels
<1>6. CASE PrintEvent
  BY <1>6 DEF PrintEvent, TInv, TypeOK, DataOK, peerVars, Labels
<1> QED
  BY <1>2, <1>3, <1>4, <1>5, <1>6

\* The ways out of the process.
Leaves == \/ BindFails \/ AcceptFails \/ RecvError \/ BuildFails \/ SendFails \/ PrintFails \/ Interrupt

LEMMA LeavesExit ==
  Leaves => \E why \in {"ctrl_c", "exception", "no_stdout", "no_bind"} : Exit(why)
BY DEF Leaves, BindFails, AcceptFails, RecvError, BuildFails, SendFails, PrintFails, Interrupt

\* Every step is one of these.
LEMMA StepsOf ==
  [Next]_vars => \/ \E c \in Peers : PeerStep(c)
                 \/ Accept \/ Recv \/ RecvEof \/ HeadRead \/ RestRead
                 \/ Bind \/ Refuse \/ Parse \/ Answer \/ Flag \/ PrintEvent
                 \/ Leaves
                 \/ UNCHANGED vars
BY DEF Next, ServerStep, RunningStep, Leaves

\* The types are inductive as they stand.
LEMMA TInvHolds == Spec => []TInv
<1>1. Init => TInv
  <2> SUFFICES ASSUME Init PROVE TInv
    OBVIOUS
  <2>1. raw.length \in Nat /\ raw \in Frames
    <3>1. Garbage \in Frames
      BY Zenon DEF Frames
    <3> QED
      BY <3>1, FramesHaveLengths DEF Init
  <2>2. TypeOK
    <3>1. /\ link \in [Peers -> Statuses]
          /\ arrived \in [Peers -> Nat] /\ pos \in [Peers -> Nat]
          /\ stream \in [Peers -> Streams]
      BY DEF Init, Statuses
    <3>2. backlog \in Seq(Peers) /\ got \in Nat /\ saw_high \in BOOLEAN
      <4>1. backlog = <<>> /\ got = 0 /\ saw_high = FALSE
        BY DEF Init
      <4>2. backlog \in Seq(Peers)
        BY <4>1
      <4>3. got \in Nat /\ saw_high \in BOOLEAN
        BY <4>1
      <4> QED
        BY <4>2, <4>3
    <3>3. /\ pc = "bind" /\ pc \in Labels
          /\ conn = NoPeer /\ outcome = "none"
      BY DEF Init, Labels
    <3> QED
      BY <2>1, <3>1, <3>2, <3>3, Zenon DEF TypeOK
  <2>3. event \in Events
    <3>1. event \in {unparseable_event(c) : c \in Holders}
      BY DEF Init, Holders
    <3> QED
      BY <3>1 DEF Events
  <2>4. DataOK
    BY <2>1, <2>3 DEF Init, DataOK
  <2> QED
    BY <2>2, <2>4 DEF TInv
<1>2. TInv /\ [Next]_vars => TInv'
  <2> SUFFICES ASSUME TInv, [Next]_vars PROVE TInv'
    OBVIOUS
  <2>1. CASE UNCHANGED vars
    BY <2>1 DEF vars, peerVars, serverVars, TInv, TypeOK, DataOK
  <2> QED
    BY <2>1, StepsOf, PeersKeepTypes, ReadingKeepsTypes, HandlingKeepsTypes, LeavesExit,
       ExitKeepsTypes
<1> QED
  BY <1>1, <1>2, PTL DEF Spec

\* Every variable keeps its type, and the thread holds a connection exactly while it
\* is inside the `with conn` block.
THEOREM TypeCorrect == Spec => []TypeOK
<1>1. TInv => TypeOK
  BY DEF TInv
<1> QED
  BY <1>1, TInvHolds, PTL

-----------------------------------------------------------------------------
(* What the log owes to the frames read, and the exit status to the log.    *)

InHand  == {"parse", "answer", "flag", "print"}
Between == {"bind", "accept", "head", "rest"}

\* One complete frame is in hand exactly between its last byte and its event.
HandInv == /\ pc \in InHand  => Len(taken) = Len(log) + 1
           /\ pc \in Between => Len(taken) = Len(log)
           /\ pc = "exited"  => Len(taken) - Len(log) \in {0, 1}

\* A high severity is noted before its event can be printed.
HighInv == /\ (\E i \in DOMAIN log : IsHigh(log[i])) => saw_high
           /\ pc = "print" /\ IsHigh(event) => saw_high

SInv == HandInv /\ HighInv

LEMMA ExitKeepsSInv ==
  ASSUME TInv, SInv, NEW why \in {"ctrl_c", "exception", "no_stdout", "no_bind"}, Exit(why)
  PROVE  SInv'
<1>1. Len(taken) \in Nat /\ Len(log) \in Nat
  BY DEF TInv, DataOK
<1>2. pc \in InHand \cup Between \cup {"exited"}
  BY DEF TInv, TypeOK, Labels, InHand, Between
<1>3. HandInv'
  BY <1>1, <1>2 DEF SInv, HandInv, InHand, Between, Exit
<1>4. HighInv'
  BY DEF SInv, HighInv, IsHigh, Exit
<1> QED
  BY <1>3, <1>4 DEF SInv

LEMMA PeersKeepSInv ==
  ASSUME SInv, NEW c \in Peers, PeerStep(c) PROVE SInv'
<1>1. UNCHANGED serverVars
  BY DEF PeerStep, Connect, Deliver, Close, Reset
<1> QED
  BY <1>1 DEF serverVars, SInv, HandInv, HighInv, IsHigh, InHand, Between

LEMMA ReadingKeepsSInv ==
  ASSUME TInv, SInv, Accept \/ Recv \/ RecvEof \/ HeadRead \/ RestRead PROVE SInv'
<1>1. CASE Accept \/ Recv \/ RecvEof \/ HeadRead
  <2>1. pc \in Between /\ pc' \in Between /\ UNCHANGED <<log, taken, event, saw_high>>
    BY <1>1 DEF Accept, Recv, RecvEof, HeadRead, Reading, Between
  <2> QED
    BY <2>1 DEF SInv, HandInv, HighInv, IsHigh, InHand, Between
<1>2. CASE RestRead
  <2>1. Len(taken') = Len(taken) + 1
    BY <1>2 DEF RestRead, TInv, DataOK
  <2> QED
    BY <1>2, <2>1 DEF RestRead, SInv, HandInv, HighInv, IsHigh, InHand, Between
<1> QED
  BY <1>1, <1>2

LEMMA PrintKeepsSInv ==
  ASSUME TInv, SInv, PrintEvent PROVE SInv'
<1>1. /\ log \in Seq(Events) /\ event \in Events
      /\ log' = Append(log, event) /\ UNCHANGED <<saw_high, taken>>
      /\ pc = "print" /\ pc' = "head"
  BY DEF PrintEvent, TInv, DataOK
<1>2. Len(log') = Len(log) + 1
  BY <1>1
<1>3. HandInv'
  BY <1>1, <1>2 DEF SInv, HandInv, InHand, Between, TInv, DataOK
<1>4. ASSUME NEW i \in DOMAIN log', IsHigh(log'[i]) PROVE saw_high
  <2>1. log'[i] = IF i = Len(log) + 1 THEN event ELSE log[i]
    BY <1>1
  <2>2. i = Len(log) + 1 \/ i \in DOMAIN log
    BY <1>1
  <2> QED
    BY <1>1, <1>4, <2>1, <2>2 DEF SInv, HighInv
<1>5. HighInv'
  BY <1>1, <1>4 DEF HighInv, IsHigh
<1> QED
  BY <1>3, <1>5 DEF SInv

LEMMA HandlingKeepsSInv ==
  ASSUME TInv, SInv, Bind \/ Refuse \/ Parse \/ Answer \/ Flag \/ PrintEvent PROVE SInv'
<1>1. CASE Bind \/ Refuse \/ Parse \/ Answer
  <2>1. /\ UNCHANGED <<log, taken, saw_high>> /\ pc' # "print"
        /\ \/ pc \in InHand /\ pc' \in InHand
           \/ pc \in Between /\ pc' \in Between
    BY <1>1 DEF Bind, Refuse, Parse, Answer, InHand, Between
  <2> QED
    BY <2>1 DEF SInv, HandInv, HighInv, IsHigh, InHand, Between
<1>2. CASE Flag
  BY <1>2 DEF Flag, SInv, HandInv, HighInv, IsHigh, InHand, Between
<1>3. CASE PrintEvent
  BY <1>3, PrintKeepsSInv
<1> QED
  BY <1>1, <1>2, <1>3

LEMMA SInvHolds == Spec => []SInv
<1>1. Init => SInv
  BY DEF Init, SInv, HandInv, HighInv, InHand, Between
<1>2. TInv /\ SInv /\ [Next]_vars => SInv'
  <2> SUFFICES ASSUME TInv, SInv, [Next]_vars PROVE SInv'
    OBVIOUS
  <2>1. CASE UNCHANGED vars
    BY <2>1 DEF vars, serverVars, SInv, HandInv, HighInv, IsHigh, InHand, Between
  <2> QED
    BY <2>1, StepsOf, PeersKeepSInv, ReadingKeepsSInv, HandlingKeepsSInv, LeavesExit,
       ExitKeepsSInv
<1> QED
  BY <1>1, <1>2, TInvHolds, PTL DEF Spec

\* However the bytes are cut up and whenever the process ends, at most the frame in
\* hand is missing from the log.
THEOREM OnlyFrameInHandUnloggedHolds == Spec => []OnlyFrameInHandUnlogged
<1>1. TInv /\ SInv => OnlyFrameInHandUnlogged
  <2> SUFFICES ASSUME TInv, SInv PROVE OnlyFrameInHandUnlogged
    OBVIOUS
  <2>1. Len(taken) \in Nat /\ Len(log) \in Nat
    BY DEF TInv, DataOK
  <2>2. pc \in InHand \cup Between \cup {"exited"}
    BY DEF TInv, TypeOK, Labels, InHand, Between
  <2> QED
    BY <2>1, <2>2 DEF SInv, HandInv, InHand, Between, OnlyFrameInHandUnlogged
<1> QED
  BY <1>1, TInvHolds, SInvHolds, PTL

\* Ctrl-C at any moment reports a high severity that reached stdout.
THEOREM HighLoggedMeansStatus1Holds == Spec => []HighLoggedMeansStatus1
<1>1. SInv => HighLoggedMeansStatus1
  BY DEF SInv, HighInv, HighLoggedMeansStatus1, ExitStatus
<1> QED
  BY <1>1, SInvHolds, PTL

-----------------------------------------------------------------------------
(* Counting positions. *)

LEMMA PositionsCounted ==
  ASSUME NEW n \in Nat, NEW T \in SUBSET (1..n)
  PROVE  IsFiniteSet(T) /\ Cardinality(T) \in Nat
<1>1. IsFiniteSet(1..n)
  BY FS_Interval
<1>2. IsFiniteSet(T)
  BY <1>1, FS_Subset
<1> QED
  BY <1>2, FS_CardinalityType

LEMMA OnePositionMore ==
  ASSUME NEW n \in Nat, NEW T \in SUBSET (1..n)
  PROVE  Cardinality(T \cup {n + 1}) = Cardinality(T) + 1
<1>1. IsFiniteSet(T)
  BY PositionsCounted
<1>2. n + 1 \notin T
  OBVIOUS
<1>3. QED
  BY <1>1, <1>2, FS_AddElement

\* What appending an event does to the count of those of a connection.
CountFrom(l, c) == Cardinality({j \in DOMAIN l : l[j].src = c})

LEMMA AppendCounts ==
  ASSUME NEW S, NEW l \in Seq(S), NEW e \in S, NEW c
  PROVE  CountFrom(Append(l, e), c) = CountFrom(l, c) + (IF e.src = c THEN 1 ELSE 0)
<1> DEFINE m == Append(l, e)
           T == {j \in DOMAIN l : l[j].src = c}
           U == {j \in DOMAIN m : m[j].src = c}
<1>1. /\ Len(l) \in Nat /\ DOMAIN l = 1..Len(l) /\ DOMAIN m = 1..(Len(l) + 1)
      /\ \A j \in 1..Len(l) : m[j] = l[j]
      /\ m[Len(l) + 1] = e
  OBVIOUS
<1> HIDE DEF m
<1>2. T \in SUBSET (1..Len(l)) /\ Cardinality(T) \in Nat
  BY <1>1, PositionsCounted
<1>3. CASE e.src = c
  <2>1. U = T \cup {Len(l) + 1}
    BY <1>1, <1>3
  <2>2. Cardinality(U) = Cardinality(T) + 1
    BY <1>1, <1>2, <2>1, OnePositionMore
  <2> QED
    BY <1>3, <2>2 DEF m, CountFrom
<1>4. CASE e.src # c
  <2>1. U = T
    BY <1>1, <1>4
  <2>2. Cardinality(U) = Cardinality(T) + 0
    <3>1. Cardinality(T) + 0 = Cardinality(T)
      <4> HIDE DEF T
      <4> QED
        BY <1>2
    <3> QED
      BY <2>1, <3>1, Zenon
  <2> QED
    BY <1>4, <2>2 DEF m, CountFrom
<1> QED
  BY <1>3, <1>4

LEMMA NumLoggedType ==
  ASSUME TInv, NEW c
  PROVE  NumLogged(c) \in Nat
<1>1. Len(log) \in Nat /\ {j \in DOMAIN log : log[j].src = c} \in SUBSET (1..Len(log))
  BY DEF TInv, DataOK
<1> QED
  BY <1>1, PositionsCounted DEF NumLogged

\* Well-formed frames among the first n and n + 1.
LEMMA AnswerableCounted ==
  ASSUME NEW s, NEW n \in Nat
  PROVE  /\ Answerable(s, n) \in SUBSET (1..n)
         /\ Cardinality(Answerable(s, n)) \in Nat
         /\ Malformed(s[n + 1]) => Answerable(s, n + 1) = Answerable(s, n)
         /\ ~Malformed(s[n + 1]) =>
              /\ Answerable(s, n + 1) = Answerable(s, n) \cup {n + 1}
              /\ Cardinality(Answerable(s, n + 1)) = Cardinality(Answerable(s, n)) + 1
<1>1. Answerable(s, n) \in SUBSET (1..n) /\ Cardinality(Answerable(s, n)) \in Nat
  BY PositionsCounted DEF Answerable
<1>2. ASSUME Malformed(s[n + 1]) PROVE Answerable(s, n + 1) = Answerable(s, n)
  BY <1>2 DEF Answerable
<1>3. ASSUME ~Malformed(s[n + 1])
      PROVE  Answerable(s, n + 1) = Answerable(s, n) \cup {n + 1}
  BY <1>3 DEF Answerable
<1> QED
  BY <1>1, <1>2, <1>3, OnePositionMore

LEMMA NoAnswers ==
  ASSUME NEW s
  PROVE  AreAnswers(<<>>, s, 0)
<1>1. Answerable(s, 0) = {}
  BY DEF Answerable
<1> QED
  BY <1>1, FS_EmptySet DEF AreAnswers

LEMMA SkippedKeepsAnswers ==
  ASSUME NEW s, NEW rs, NEW n \in Nat, AreAnswers(rs, s, n), Malformed(s[n + 1])
  PROVE  AreAnswers(rs, s, n + 1)
BY AnswerableCounted DEF AreAnswers

LEMMA AnswerExtendsAnswers ==
  ASSUME NEW R, NEW rs \in Seq(R), NEW a \in R, NEW s, NEW n \in Nat,
         AreAnswers(rs, s, n), ~Malformed(s[n + 1]),
         a = build_response(parse_frame(s[n + 1]))
  PROVE  AreAnswers(Append(rs, a), s, n + 1)
<1> DEFINE A(j) == Answerable(s, j)
           C(j) == Cardinality(A(j))
<1>1. /\ A(n) \in SUBSET (1..n) /\ C(n) \in Nat
      /\ A(n + 1) = A(n) \cup {n + 1} /\ C(n + 1) = C(n) + 1
  BY AnswerableCounted
<1>2. Len(rs) = C(n) /\ Len(Append(rs, a)) = C(n) + 1
  BY DEF AreAnswers
<1>3. ASSUME NEW i \in A(n)
      PROVE  Append(rs, a)[C(i)] = build_response(parse_frame(s[i]))
  <2>1. i \in 1..n /\ i \in Nat
    BY <1>1
  <2>2. A(i) \subseteq A(n) /\ i \in A(i)
    BY <1>3, <2>1 DEF Answerable
  <2>3. C(i) \in Nat /\ C(i) <= C(n) /\ C(i) # 0
    BY <1>1, <2>1, <2>2, PositionsCounted, FS_Subset, FS_EmptySet, AnswerableCounted
  <2>4. rs[C(i)] = build_response(parse_frame(s[i]))
    BY <1>3 DEF AreAnswers
  <2>5. Append(rs, a)[C(i)] = rs[C(i)]
    BY <1>2, <2>3
  <2> QED
    BY <2>4, <2>5
<1>4. Append(rs, a)[C(n + 1)] = a
  BY <1>1, <1>2
<1> QED
  BY <1>1, <1>2, <1>3, <1>4 DEF AreAnswers

-----------------------------------------------------------------------------
(* The frames of a stream, by their offsets. *)

LEMMA FrameShape ==
  ASSUME NEW u, OnWire(u)
  PROVE  /\ u.at \in Nat /\ u.size \in Nat /\ u.length \in Nat
         /\ u.size = MBAP_LEN + RestLen(u.length)
         /\ u.size > 0
BY DEF OnWire, RestLen, MBAP_LEN

LEMMA StreamShape ==
  ASSUME NEW s \in Streams
  PROVE  /\ Len(s) \in Nat /\ DOMAIN s = 1..Len(s)
         /\ \A i \in 1..Len(s) : OnWire(s[i]) /\ (i = 1 => s[i].at = 0)
         /\ \A i, j \in 1..Len(s) : i < j  => s[i].at + s[i].size <= s[j].at
         /\ \A i, j \in 1..Len(s) : j = i + 1 => s[i].at + s[i].size = s[j].at
<1>1. s \in Seq(UNION {{s[i] : i \in DOMAIN s}}) /\ Tiled(s)
  BY StreamsAssumption, Zenon
<1> DEFINE S == UNION {{s[i] : i \in DOMAIN s}}
<1>2. Len(s) \in Nat /\ DOMAIN s = 1..Len(s)
  <2>1. s \in Seq(S)
    BY <1>1
  <2> HIDE DEF S
  <2> QED
    BY <2>1
<1> QED
  BY <1>1, <1>2, Zenon DEF Tiled

LEMMA EndShape ==
  ASSUME NEW s \in Streams
  PROVE  /\ \A i \in 0..Len(s) : End(s, i) \in Nat
         /\ \A i \in 0..(Len(s) - 1) : s[i + 1].at = End(s, i)
         /\ \A i \in 0..Len(s) : End(s, i) <= End(s, Len(s))
         /\ \A i, j \in 1..Len(s) : i # j => s[i].at # s[j].at
<1>1. ASSUME NEW i \in 1..Len(s)
      PROVE  s[i].at \in Nat /\ s[i].size \in Nat /\ s[i].size > 0
  BY StreamShape, FrameShape
<1>2. ASSUME NEW i \in 0..Len(s) PROVE End(s, i) \in Nat
  BY <1>1, <1>2, StreamShape DEF End
<1>3. ASSUME NEW i \in 0..(Len(s) - 1) PROVE s[i + 1].at = End(s, i)
  <2>1. Len(s) \in Nat
    BY StreamShape
  <2>2. CASE i = 0
    <3>1. 1 \in 1..Len(s) /\ i + 1 = 1
      BY <2>1, <2>2
    <3>2. s[1].at = 0
      BY <3>1, StreamShape
    <3> QED
      BY <2>2, <3>1, <3>2 DEF End
  <2>3. CASE i # 0
    <3>1. i \in 1..Len(s) /\ i + 1 \in 1..Len(s)
      BY <2>1, <2>3
    <3>2. s[i].at + s[i].size = s[i + 1].at
      BY <3>1, StreamShape
    <3> QED
      BY <2>3, <3>2 DEF End
  <2> QED
    BY <2>2, <2>3
<1>4. ASSUME NEW i \in 0..Len(s) PROVE End(s, i) <= End(s, Len(s))
  <2>1. Len(s) \in Nat
    BY StreamShape
  <2>2. CASE i = Len(s)
    BY <1>2, <2>1, <2>2
  <2>3. CASE i = 0
    BY <1>2, <2>1, <2>3 DEF End
  <2>4. CASE i # 0 /\ i # Len(s)
    <3>1. i \in 1..Len(s) /\ Len(s) \in 1..Len(s) /\ i < Len(s)
      BY <2>1, <2>4
    <3>2. s[i].at + s[i].size <= s[Len(s)].at
      BY <3>1, StreamShape
    <3>3. s[i].at + s[i].size <= s[Len(s)].at + s[Len(s)].size
      <4>1. /\ s[i].at \in Nat /\ s[i].size \in Nat
            /\ s[Len(s)].at \in Nat /\ s[Len(s)].size \in Nat
        BY <1>1, <3>1
      <4>2. \A a, b, c, d \in Nat : a + b <= c => a + b <= c + d
        OBVIOUS
      <4> QED
        BY <3>2, <4>1, <4>2
    <3> QED
      BY <2>1, <2>4, <3>3, <3>1 DEF End
  <2> QED
    BY <2>2, <2>3, <2>4
<1>5. ASSUME NEW i \in 1..Len(s), NEW j \in 1..Len(s), i < j
      PROVE  s[i].at < s[j].at
  <2>1. s[i].at + s[i].size <= s[j].at
    BY <1>5, StreamShape
  <2>2. s[i].at \in Nat /\ s[i].size \in Nat /\ s[i].size > 0 /\ s[j].at \in Nat
    BY <1>1
  <2> QED
    BY <2>1, <2>2
<1>6. ASSUME NEW i \in 1..Len(s), NEW j \in 1..Len(s), i # j
      PROVE  s[i].at # s[j].at
  <2>1. Len(s) \in Nat /\ s[i].at \in Nat /\ s[j].at \in Nat
    BY <1>1, StreamShape
  <2>2. i < j \/ j < i
    BY <1>6, <2>1
  <2> QED
    BY <1>5, <2>1, <2>2
<1> QED
  BY <1>2, <1>3, <1>4, <1>6

\* A read that starts where a frame ends finds the next frame.
LEMMA NextFrameFound ==
  ASSUME NEW s \in Streams, NEW n \in 0..(Len(s) - 1)
  PROVE  FrameAt(s, End(s, n)) = s[n + 1]
<1>1. Len(s) \in Nat /\ DOMAIN s = 1..Len(s) /\ n + 1 \in DOMAIN s
  BY StreamShape
<1>2. s[n + 1].at = End(s, n)
  BY EndShape
<1>3. \A i \in DOMAIN s : s[i].at = End(s, n) => i = n + 1
  BY <1>1, <1>2, EndShape
<1>4. (CHOOSE i \in DOMAIN s : s[i].at = End(s, n)) = n + 1
  BY <1>1, <1>2, <1>3
<1> QED
  BY <1>1, <1>2, <1>4 DEF FrameAt

-----------------------------------------------------------------------------
(* Where the thread stands in the stream of the connection it holds.        *)

Replies == {build_response(parse_frame(u)) : u \in Frames}

Queued(c)  == \E i \in DOMAIN backlog : backlog[i] = c
Waiting(c) == link[c] = "none" \/ Queued(c)

\* A connection is queued once, and accepted once.
QueueInv == /\ \A i, j \in DOMAIN backlog : backlog[i] = backlog[j] => i = j
            /\ \A i \in DOMAIN backlog : link[backlog[i]] # "none"
            /\ conn # NoPeer => ~Waiting(conn)

\* No byte is read before it arrives, and no more arrive than were sent.
BytesInv == \A c \in Peers : /\ pos[c] <= arrived[c]
                             /\ arrived[c] <= End(stream[c], Len(stream[c]))

\* Nothing has happened to a connection before it is accepted.
Untouched(c) == pos[c] = 0 /\ replies[c] = <<>> /\ NumLogged(c) = 0

\* With n events printed, the first n frames of the connection held are behind
\* the thread, and it is reading or handling the next.
HeldBy(c) ==
  LET s == stream[c]
      n == NumLogged(c)
  IN  /\ n <= Len(s)
      /\ pc = "head" => got <= MBAP_LEN /\ pos[c] = End(s, n) + got
      /\ pc = "rest" => /\ got <= RestLen(raw.length)
                        /\ pos[c] = End(s, n) + MBAP_LEN + got
      /\ pc # "head" => n < Len(s) /\ raw = s[n + 1]
      /\ pc \in InHand => pos[c] = End(s, n + 1)
      /\ pc \in {"answer", "flag", "print"} => event = EventOf(raw, c)
      /\ pc = "answer" => ~Malformed(raw)
      /\ AreAnswers(replies[c], s, IF pc \in {"flag", "print"} THEN n + 1 ELSE n)

\* A connection that is not held was left between two frames, or when the
\* process ended after an answer.
Settled(c) ==
  LET s == stream[c]
      n == NumLogged(c)
  IN  \/ AreAnswers(replies[c], s, n)
      \/ pc = "exited" /\ n < Len(s) /\ AreAnswers(replies[c], s, n + 1)

PlaceInv == /\ replies \in [Peers -> Seq(Replies)]
            /\ QueueInv
            /\ BytesInv
            /\ \A c \in Peers : Waiting(c) => Untouched(c)
            /\ \A c \in Peers : conn = c => HeldBy(c)
            /\ \A c \in Peers : conn # c => Settled(c)
            /\ LogFollowsStream

LEMMA LogUnchanged ==
  ASSUME UNCHANGED log
  PROVE  \A c : NumLogged(c)' = NumLogged(c)
BY DEF NumLogged

LEMMA LogFollowsStreamKept ==
  ASSUME LogFollowsStream, UNCHANGED <<stream, log>>
  PROVE  LogFollowsStream'
BY DEF LogFollowsStream, Rank

\* The peers move bytes and connections, and touch nothing of the server.
LEMMA HeldByKept ==
  ASSUME NEW c, HeldBy(c), UNCHANGED <<stream, pc, pos, got, raw, event, replies, log>>
  PROVE  HeldBy(c)'
<1>1. NumLogged(c)' = NumLogged(c)
  BY LogUnchanged
<1> QED
  BY <1>1 DEF HeldBy

LEMMA SettledKept ==
  ASSUME NEW c, Settled(c), UNCHANGED <<stream, log>>, replies'[c] = replies[c],
         pc # "exited" \/ pc' = "exited"
  PROVE  Settled(c)'
<1>1. NumLogged(c)' = NumLogged(c)
  BY LogUnchanged
<1> QED
  BY <1>1 DEF Settled

LEMMA UntouchedKept ==
  ASSUME NEW c, Untouched(c), UNCHANGED log, pos'[c] = pos[c], replies'[c] = replies[c]
  PROVE  Untouched(c)'
<1>1. NumLogged(c)' = NumLogged(c)
  BY LogUnchanged
<1> QED
  BY <1>1 DEF Untouched

\* A step that neither serves nor queues keeps everything but the bytes.
LEMMA OutsideStepKeepsPlace ==
  ASSUME PlaceInv, UNCHANGED <<stream, serverVars>>, BytesInv', QueueInv',
         \A c \in Peers : Waiting(c)' => Waiting(c)
  PROVE  PlaceInv'
<1>1. UNCHANGED <<stream, pc, conn, pos, got, raw, event, replies, log>>
  BY DEF serverVars
<1>2. \A c \in Peers : Waiting(c)' => Untouched(c)'
  BY <1>1, UntouchedKept DEF PlaceInv
<1>3. \A c \in Peers : conn' = c => HeldBy(c)'
  BY <1>1, HeldByKept DEF PlaceInv
<1>4. \A c \in Peers : conn' # c => Settled(c)'
  BY <1>1, SettledKept DEF PlaceInv
<1>5. LogFollowsStream'
  BY <1>1, LogFollowsStreamKept DEF PlaceInv
<1> QED
  BY <1>1, <1>2, <1>3, <1>4, <1>5 DEF PlaceInv

LEMMA ConnectKeepsPlace ==
  ASSUME TInv, PlaceInv, NEW c \in Peers, Connect(c)
  PROVE  PlaceInv'
<1>1. /\ link \in [Peers -> Statuses] /\ backlog \in Seq(Peers)
      /\ link[c] = "none" /\ link' = [link EXCEPT ![c] = "up"]
      /\ backlog' = Append(backlog, c)
      /\ UNCHANGED <<stream, arrived, serverVars>>
  BY DEF Connect, TInv, TypeOK
<1>2. /\ Len(backlog) \in Nat /\ DOMAIN backlog = 1..Len(backlog)
      /\ DOMAIN backlog' = 1..(Len(backlog) + 1)
      /\ \A i \in 1..Len(backlog) : backlog'[i] = backlog[i] /\ backlog[i] \in Peers
      /\ backlog'[Len(backlog) + 1] = c
  BY <1>1
<1>3. \A d \in Peers : link'[d] = "none" => link[d] = "none"
  BY <1>1
<1>4. \A d \in Peers : Queued(d)' => Queued(d) \/ d = c
  BY <1>2 DEF Queued
<1>5. \A d \in Peers : Waiting(d)' => Waiting(d)
  BY <1>1, <1>3, <1>4 DEF Waiting
<1>6. QueueInv'
  <2>1. \A i \in DOMAIN backlog : link[backlog[i]] # "none" /\ backlog[i] # c
    BY <1>1 DEF PlaceInv, QueueInv
  <2>2. \A i, j \in DOMAIN backlog' : backlog'[i] = backlog'[j] => i = j
    BY <1>2, <2>1 DEF PlaceInv, QueueInv
  <2>3. \A i \in DOMAIN backlog' : link'[backlog'[i]] # "none"
    BY <1>1, <1>2, <2>1
  <2>4. conn' = conn
    BY <1>1 DEF serverVars
  <2>5. conn # NoPeer => conn \in Peers /\ ~Waiting(conn)
    BY DEF PlaceInv, QueueInv, TInv, TypeOK
  <2>6. conn' # NoPeer => ~Waiting(conn)'
    BY <1>5, <2>4, <2>5 DEF Waiting, Queued
  <2> QED
    BY <2>2, <2>3, <2>6 DEF QueueInv
<1>7. BytesInv'
  BY <1>1 DEF PlaceInv, BytesInv, serverVars
<1> QED
  BY <1>1, <1>5, <1>6, <1>7, OutsideStepKeepsPlace

LEMMA SentFramesExist ==
  ASSUME TInv, NEW c \in Peers, Len(replies[c]) \in Nat
  PROVE  SentFrames(c) \in 0..Len(stream[c])
<1>1. Len(stream[c]) \in Nat
  BY StreamShape DEF TInv, TypeOK
<1> QED
  BY <1>1 DEF SentFrames, Least

LEMMA DeliverKeepsPlace ==
  ASSUME TInv, PlaceInv, NEW c \in Peers, Deliver(c)
  PROVE  PlaceInv'
<1> DEFINE e == End(stream[c], SentFrames(c))
           last == End(stream[c], Len(stream[c]))
<1>1. /\ UNCHANGED <<stream, link, backlog, serverVars>>
      /\ \E n \in 1..(e - arrived[c]) : arrived' = [arrived EXCEPT ![c] = @ + n]
  BY DEF Deliver
<1>2. stream[c] \in Streams /\ arrived \in [Peers -> Nat] /\ pos \in [Peers -> Nat]
  BY DEF TInv, TypeOK
<1>3. Len(replies[c]) \in Nat
  BY DEF PlaceInv
<1>4. e \in Nat /\ last \in Nat /\ e <= last
  <2>1. SentFrames(c) \in 0..Len(stream[c]) /\ Len(stream[c]) \in 0..Len(stream[c])
    BY <1>2, <1>3, SentFramesExist, StreamShape
  <2> QED
    BY <1>2, <2>1, EndShape
<1> HIDE DEF e, last
<1>5. PICK n \in 1..(e - arrived[c]) : arrived' = [arrived EXCEPT ![c] = @ + n]
  BY <1>1
<1>6. /\ arrived'[c] = arrived[c] + n /\ arrived'[c] <= last /\ arrived'[c] >= arrived[c]
      /\ \A d \in Peers : d # c => arrived'[d] = arrived[d]
  BY <1>2, <1>4, <1>5
<1>7. BytesInv'
  <2>1. UNCHANGED <<stream, pos>>
    BY <1>1 DEF serverVars
  <2>2. ASSUME NEW d \in Peers
        PROVE  pos[d] <= arrived'[d] /\ arrived'[d] <= End(stream[d], Len(stream[d]))
    <3>1. CASE d = c
      <4>1. pos[c] <= arrived[c] /\ arrived[c] \in Nat /\ pos[c] \in Nat /\ n \in Nat
        BY <1>2, <1>5, <1>4 DEF PlaceInv, BytesInv
      <4> QED
        BY <1>6, <3>1, <4>1 DEF last
    <3>2. CASE d # c
      BY <1>6, <3>2 DEF PlaceInv, BytesInv
    <3> QED
      BY <3>1, <3>2
  <2> QED
    BY <2>1, <2>2 DEF BytesInv
<1>8. QueueInv' /\ \A d \in Peers : Waiting(d)' => Waiting(d)
  BY <1>1 DEF PlaceInv, QueueInv, Waiting, Queued, serverVars
<1> QED
  BY <1>1, <1>7, <1>8, OutsideStepKeepsPlace

LEMMA HangUpKeepsPlace ==
  ASSUME TInv, PlaceInv, NEW c \in Peers, Close(c) \/ Reset(c)
  PROVE  PlaceInv'
<1>1. /\ UNCHANGED <<stream, arrived, backlog, serverVars>>
      /\ \A d \in Peers : link'[d] = "none" <=> link[d] = "none"
  BY DEF Close, Reset, TInv, TypeOK
<1>2. \A i \in DOMAIN backlog : backlog[i] \in Peers
  BY DEF TInv, TypeOK
<1>3. UNCHANGED conn /\ (conn # NoPeer => conn \in Peers)
  BY <1>1 DEF serverVars, TInv, TypeOK
<1>4. \A d \in Peers : Waiting(d)' => Waiting(d)
  BY <1>1 DEF Waiting, Queued
<1>5. QueueInv'
  BY <1>1, <1>2, <1>3 DEF PlaceInv, QueueInv, Waiting, Queued
<1>6. BytesInv'
  BY <1>1 DEF PlaceInv, BytesInv, serverVars
<1> QED
  BY <1>1, <1>4, <1>5, <1>6, OutsideStepKeepsPlace

LEMMA PeersKeepPlace ==
  ASSUME TInv, PlaceInv, NEW c \in Peers, PeerStep(c)
  PROVE  PlaceInv'
BY ConnectKeepsPlace, DeliverKeepsPlace, HangUpKeepsPlace DEF PeerStep

\* A step on the connection held keeps what concerns the others.
LEMMA HoldingStepKeepsPlace ==
  ASSUME TInv, PlaceInv, NEW c \in Peers, conn = c,
         UNCHANGED <<stream, link, backlog, arrived, conn, log>>,
         replies' \in [Peers -> Seq(Replies)],
         \A d \in Peers : d # c => pos'[d] = pos[d] /\ replies'[d] = replies[d],
         pos'[c] <= arrived[c],
         HeldBy(c)'
  PROVE  PlaceInv'
<1>1. c # NoPeer /\ ~Waiting(c) /\ pc # "exited"
  BY PeersAssumption DEF PlaceInv, QueueInv, TInv, TypeOK
<1>2. \A d : Waiting(d)' <=> Waiting(d)
  BY DEF Waiting, Queued
<1>3. QueueInv'
  BY <1>1, <1>2 DEF PlaceInv, QueueInv
<1>4. BytesInv'
  BY DEF PlaceInv, BytesInv
<1>5. \A d \in Peers : Waiting(d)' => Untouched(d)'
  BY <1>1, <1>2, UntouchedKept DEF PlaceInv
<1>6. \A d \in Peers : conn' = d => HeldBy(d)'
  OBVIOUS
<1>7. \A d \in Peers : conn' # d => Settled(d)'
  BY <1>1, SettledKept DEF PlaceInv
<1>8. LogFollowsStream'
  BY LogFollowsStreamKept DEF PlaceInv
<1> QED
  BY <1>3, <1>4, <1>5, <1>6, <1>7, <1>8 DEF PlaceInv

\* Letting go of the connection.
LEMMA LettingGoKeepsPlace ==
  ASSUME TInv, PlaceInv, conn' = NoPeer,
         UNCHANGED <<stream, link, backlog, arrived, pos, replies, log>>,
         \A c \in Peers : conn = c => Settled(c)',
         pc # "exited" \/ pc' = "exited"
  PROVE  PlaceInv'
<1>1. \A d : Waiting(d)' <=> Waiting(d)
  BY DEF Waiting, Queued
<1>2. QueueInv' /\ BytesInv'
  BY <1>1 DEF PlaceInv, QueueInv, BytesInv
<1>3. \A d \in Peers : Waiting(d)' => Untouched(d)'
  BY <1>1, UntouchedKept DEF PlaceInv
<1>4. \A d \in Peers : conn' # d => Settled(d)'
  BY SettledKept DEF PlaceInv
<1>5. \A d \in Peers : conn' # d
  BY PeersAssumption
<1>6. LogFollowsStream'
  BY LogFollowsStreamKept DEF PlaceInv
<1>7. replies' \in [Peers -> Seq(Replies)]
  BY DEF PlaceInv
<1> QED
  BY <1>2, <1>3, <1>4, <1>5, <1>6, <1>7 DEF PlaceInv

LEMMA ExitKeepsPlace ==
  ASSUME TInv, PlaceInv, NEW why \in {"ctrl_c", "exception", "no_stdout", "no_bind"}, Exit(why)
  PROVE  PlaceInv'
<1>1. /\ conn' = NoPeer /\ pc' = "exited"
      /\ UNCHANGED <<stream, link, backlog, arrived, pos, replies, log>>
  BY DEF Exit, peerVars
<1>2. ASSUME NEW c \in Peers, conn = c PROVE Settled(c)'
  <2>1. HeldBy(c) /\ NumLogged(c)' = NumLogged(c)
    BY <1>1, <1>2, LogUnchanged DEF PlaceInv
  <2>2. CASE pc \in {"flag", "print"}
    BY <1>1, <2>1, <2>2 DEF HeldBy, Settled
  <2>3. CASE pc \notin {"flag", "print"}
    BY <1>1, <2>1, <2>3 DEF HeldBy, Settled
  <2> QED
    BY <2>2, <2>3
<1> QED
  BY <1>1, <1>2, LettingGoKeepsPlace

LEMMA RecvEofKeepsPlace ==
  ASSUME TInv, PlaceInv, RecvEof
  PROVE  PlaceInv'
<1>1. /\ conn' = NoPeer /\ pc \in {"head", "rest"}
      /\ UNCHANGED <<stream, link, backlog, arrived, pos, replies, log>>
  BY DEF RecvEof, Reading, peerVars
<1>2. ASSUME NEW c \in Peers, conn = c PROVE Settled(c)'
  <2>1. HeldBy(c) /\ NumLogged(c)' = NumLogged(c)
    BY <1>1, <1>2, LogUnchanged DEF PlaceInv
  <2> QED
    BY <1>1, <2>1 DEF HeldBy, Settled
<1> QED
  BY <1>1, <1>2, LettingGoKeepsPlace

LEMMA BindKeepsPlace ==
  ASSUME TInv, PlaceInv, Bind
  PROVE  PlaceInv'
<1>1. /\ conn' = conn /\ conn = NoPeer /\ pc # "exited"
      /\ UNCHANGED <<stream, link, backlog, arrived, pos, replies, log>>
  BY DEF Bind, TInv, TypeOK, peerVars
<1>2. ASSUME NEW c \in Peers, conn = c PROVE Settled(c)'
  BY <1>1, <1>2, PeersAssumption
<1> QED
  BY <1>1, <1>2, LettingGoKeepsPlace

\* A connection is accepted at the first byte of its stream.
LEMMA AcceptKeepsPlace ==
  ASSUME TInv, PlaceInv, Accept
  PROVE  PlaceInv'
<1>0. PICK c \in Peers : c = Head(backlog)
  BY DEF Accept, TInv, TypeOK
<1>1. /\ backlog \in Seq(Peers) /\ backlog # <<>>
      /\ conn' = c /\ backlog' = Tail(backlog) /\ pc' = "head" /\ got' = 0
      /\ UNCHANGED <<stream, link, arrived, pos, replies, log>>
      /\ conn = NoPeer /\ pc = "accept"
  BY <1>0 DEF Accept, TInv, TypeOK, peerVars
<1>2. /\ Len(backlog) \in Nat /\ 1 \in DOMAIN backlog /\ c = backlog[1] /\ c \in Peers
      /\ DOMAIN backlog = 1..Len(backlog)
      /\ DOMAIN backlog' = 1..(Len(backlog) - 1)
      /\ \A i \in DOMAIN backlog' : backlog'[i] = backlog[i + 1] /\ i + 1 \in DOMAIN backlog
  BY <1>0, <1>1
<1>3. /\ \A i, j \in DOMAIN backlog : backlog[i] = backlog[j] => i = j
      /\ \A i \in DOMAIN backlog : link[backlog[i]] # "none"
  BY DEF PlaceInv, QueueInv
<1>4. /\ \A i, j \in DOMAIN backlog' : backlog'[i] = backlog'[j] => i = j
      /\ \A i \in DOMAIN backlog' : link'[backlog'[i]] # "none" /\ backlog'[i] # c
  <2>1. ASSUME NEW i \in DOMAIN backlog', NEW j \in DOMAIN backlog',
               backlog'[i] = backlog'[j]
        PROVE  i = j
    <3>1. i + 1 = j + 1
      BY <1>2, <1>3, <2>1
    <3> QED
      BY <1>2, <3>1
  <2>2. ASSUME NEW i \in DOMAIN backlog'
        PROVE  link'[backlog'[i]] # "none" /\ backlog'[i] # c
    <3>1. i + 1 # 1 /\ i + 1 \in DOMAIN backlog /\ backlog'[i] = backlog[i + 1]
      BY <1>2
    <3> QED
      BY <1>1, <1>2, <1>3, <3>1
  <2> QED
    BY <2>1, <2>2
<1>5. Queued(c) /\ Waiting(c)
  BY <1>2 DEF Queued, Waiting
<1>6. ~Waiting(c)'
  BY <1>1, <1>2, <1>3, <1>4 DEF Waiting, Queued
<1>7. \A d \in Peers : Waiting(d)' => Waiting(d)
  <2>1. \A d \in Peers : Queued(d)' => Queued(d)
    BY <1>2 DEF Queued
  <2> QED
    BY <1>1, <2>1 DEF Waiting
<1>8. QueueInv'
  <2>1. ~Waiting(conn)'
    BY <1>1, <1>6 DEF Waiting, Queued
  <2> QED
    BY <1>4, <2>1 DEF QueueInv
<1>9. HeldBy(c)'
  <2>1. Untouched(c) /\ NumLogged(c)' = NumLogged(c)
    BY <1>1, <1>2, <1>5, LogUnchanged DEF PlaceInv
  <2>2. Len(stream[c]) \in Nat
    BY <1>2, StreamShape DEF TInv, TypeOK
  <2> QED
    BY <1>1, <2>1, <2>2, NoAnswers DEF HeldBy, Untouched, End, InHand, MBAP_LEN
<1>10. \A d \in Peers : conn' # d => Settled(d)'
  BY <1>1, SettledKept, PeersAssumption DEF PlaceInv
<1>11. \A d \in Peers : Waiting(d)' => Untouched(d)'
  BY <1>1, <1>7, UntouchedKept DEF PlaceInv
<1>12. BytesInv' /\ LogFollowsStream' /\ replies' \in [Peers -> Seq(Replies)]
  BY <1>1, LogFollowsStreamKept DEF PlaceInv, BytesInv
<1> QED
  BY <1>1, <1>8, <1>9, <1>10, <1>11, <1>12 DEF PlaceInv

\* What every step on a held connection starts from.
LEMMA HeldFacts ==
  ASSUME TInv, PlaceInv, conn # NoPeer
  PROVE  /\ conn \in Peers /\ HeldBy(conn)
         /\ stream[conn] \in Streams
         /\ NumLogged(conn) \in 0..Len(stream[conn]) /\ Len(stream[conn]) \in Nat
         /\ pos[conn] \in Nat /\ arrived[conn] \in Nat /\ pos[conn] <= arrived[conn]
         /\ arrived[conn] <= End(stream[conn], Len(stream[conn]))
         /\ got \in Nat
         /\ replies \in [Peers -> Seq(Replies)]
<1>1. conn \in Peers
  BY DEF TInv, TypeOK
<1>2. HeldBy(conn) /\ NumLogged(conn) \in Nat /\ NumLogged(conn) <= Len(stream[conn])
  BY <1>1, NumLoggedType DEF PlaceInv, HeldBy
<1>3. stream[conn] \in Streams /\ Len(stream[conn]) \in Nat
  BY <1>1, StreamShape DEF TInv, TypeOK
<1> QED
  BY <1>1, <1>2, <1>3 DEF TInv, TypeOK, PlaceInv, BytesInv

LEMMA LeastBounds ==
  ASSUME NEW a \in Nat, NEW b \in Nat
  PROVE  Least(a, b) \in Nat /\ Least(a, b) <= a /\ Least(a, b) <= b
BY DEF Least

LEMMA RecvKeepsPlace ==
  ASSUME TInv, PlaceInv, Recv
  PROVE  PlaceInv'
<1>0. PICK c \in Peers : c = conn
  BY DEF Recv, Reading, TInv, TypeOK
<1> DEFINE n == Least(Unread, Wanted - got)
<1>1. /\ got' = got + n /\ pos' = [pos EXCEPT ![c] = @ + n]
      /\ Unread > 0 /\ got < Wanted /\ pc \in {"head", "rest"}
      /\ UNCHANGED <<stream, link, backlog, arrived, pc, conn, raw, event, replies, log>>
  BY <1>0 DEF Recv, Reading, peerVars
<1>2. /\ HeldBy(c) /\ stream[c] \in Streams /\ conn = c
      /\ NumLogged(c) \in 0..Len(stream[c]) /\ Len(stream[c]) \in Nat
      /\ pos[c] \in Nat /\ arrived[c] \in Nat /\ pos[c] <= arrived[c] /\ got \in Nat
      /\ replies \in [Peers -> Seq(Replies)] /\ pos \in [Peers -> Nat]
  BY <1>0, HeldFacts, PeersAssumption DEF TInv, TypeOK
<1>3. Wanted \in Nat /\ Unread = arrived[c] - pos[c]
  BY <1>0, RestLenIsNat DEF Wanted, MBAP_LEN, TInv, TypeOK, Unread
<1>4. n \in Nat /\ n <= arrived[c] - pos[c] /\ n <= Wanted - got
  <2>1. arrived[c] - pos[c] \in Nat /\ Wanted - got \in Nat
    BY <1>1, <1>2, <1>3
  <2> QED
    BY <1>3, <2>1, LeastBounds
<1> HIDE DEF n
<1>5. /\ pos'[c] = pos[c] + n /\ pos'[c] <= arrived[c]
      /\ got' \in Nat /\ got' <= Wanted
      /\ \A d \in Peers : d # c => pos'[d] = pos[d] /\ replies'[d] = replies[d]
  <2>1. pos'[c] = pos[c] + n /\ \A d \in Peers : d # c => pos'[d] = pos[d]
    BY <1>1, <1>2
  <2>2. pos'[c] <= arrived[c]
    BY <1>2, <1>4, <2>1
  <2>3. got' \in Nat /\ got' <= Wanted
    BY <1>1, <1>2, <1>3, <1>4
  <2>4. UNCHANGED replies
    BY <1>1
  <2> QED
    BY <2>1, <2>2, <2>3, <2>4
<1>6. HeldBy(c)'
  <2>1. NumLogged(c)' = NumLogged(c)
    BY <1>1, LogUnchanged
  <2> DEFINE e == End(stream[c], NumLogged(c))
  <2>2. e \in Nat
    BY <1>2, EndShape
  <2>3. CASE pc = "head"
    <3>1. Wanted = MBAP_LEN /\ pos[c] = e + got
      BY <1>2, <2>3 DEF Wanted, HeldBy
    <3> HIDE DEF e
    <3>2. pos'[c] = e + got'
      BY <1>1, <1>2, <1>4, <1>5, <2>2, <3>1
    <3> QED
      BY <1>1, <1>2, <1>5, <2>1, <2>3, <3>1, <3>2 DEF HeldBy, InHand, e
  <2>4. CASE pc = "rest"
    <3>1. Wanted = RestLen(raw.length) /\ pos[c] = e + MBAP_LEN + got
      BY <1>2, <2>4 DEF Wanted, HeldBy
    <3> HIDE DEF e
    <3>2. pos'[c] = e + MBAP_LEN + got'
      BY <1>1, <1>2, <1>4, <1>5, <2>2, <3>1 DEF MBAP_LEN
    <3> QED
      BY <1>1, <1>2, <1>5, <2>1, <2>4, <3>1, <3>2 DEF HeldBy, InHand, e
  <2> QED
    BY <1>1, <2>3, <2>4
<1> QED
  BY <1>1, <1>2, <1>5, <1>6, HoldingStepKeepsPlace

\* Seven bytes past the end of a frame there is a next one, which the header is of.
LEMMA HeadReadKeepsPlace ==
  ASSUME TInv, PlaceInv, HeadRead
  PROVE  PlaceInv'
<1>0. PICK c \in Peers : c = conn
  BY DEF HeadRead, TInv, TypeOK
<1>1. /\ pc = "head" /\ got = MBAP_LEN /\ pc' = "rest" /\ got' = 0
      /\ raw' = FrameAt(stream[c], pos[c] - MBAP_LEN)
      /\ UNCHANGED <<stream, link, backlog, arrived, conn, pos, event, replies, log>>
  <2>1. pc = "head" /\ got >= MBAP_LEN
    BY DEF HeadRead, Reading, Wanted, TInv, TypeOK, MBAP_LEN
  <2>2. HeldBy(c)
    BY <1>0, HeldFacts, PeersAssumption
  <2>3. got <= MBAP_LEN
    BY <2>1, <2>2 DEF HeldBy
  <2>4. got = MBAP_LEN
    BY <2>1, <2>3 DEF TInv, TypeOK, MBAP_LEN
  <2> QED
    BY <1>0, <2>4 DEF HeadRead, peerVars
<1> DEFINE s == stream[c]
           n == NumLogged(c)
<1>2. /\ HeldBy(c) /\ s \in Streams /\ conn = c
      /\ n \in 0..Len(s) /\ Len(s) \in Nat
      /\ pos[c] \in Nat /\ arrived[c] \in Nat /\ pos[c] <= arrived[c]
      /\ arrived[c] <= End(s, Len(s))
      /\ replies \in [Peers -> Seq(Replies)]
  BY <1>0, HeldFacts, PeersAssumption
<1>3. pos[c] = End(s, n) + MBAP_LEN /\ End(s, n) \in Nat
  BY <1>1, <1>2, EndShape DEF HeldBy
<1>4. n # Len(s)
  <2> HIDE DEF s, n
  <2> QED
    BY <1>2, <1>3 DEF MBAP_LEN
<1>5. raw' = s[n + 1] /\ n \in 0..(Len(s) - 1)
  <2>1. n \in 0..(Len(s) - 1)
    BY <1>2, <1>4
  <2>2. pos[c] - MBAP_LEN = End(s, n)
    BY <1>3 DEF MBAP_LEN
  <2> QED
    BY <1>1, <1>2, <2>1, <2>2, NextFrameFound
<1>6. raw'.length \in Nat
  <2>1. n + 1 \in 1..Len(s)
    BY <1>2, <1>5
  <2>2. OnWire(s[n + 1])
    BY <1>2, <2>1, StreamShape
  <2> QED
    BY <1>5, <2>2, FrameShape
<1>7. HeldBy(c)'
  <2>1. NumLogged(c)' = n /\ stream'[c] = s
    BY <1>1, LogUnchanged
  <2>2. got' <= RestLen(raw'.length)
    BY <1>1, <1>6, RestLenIsNat
  <2>3. pos'[c] = End(s, n) + MBAP_LEN + got'
    BY <1>1, <1>3 DEF MBAP_LEN
  <2>4. n < Len(s) /\ n <= Len(s) /\ AreAnswers(replies[c], s, n)
    BY <1>1, <1>2, <1>4 DEF HeldBy
  <2> HIDE DEF s, n
  <2> QED
    BY <1>1, <1>5, <2>1, <2>2, <2>3, <2>4 DEF HeldBy, InHand
<1> QED
  BY <1>1, <1>2, <1>7, HoldingStepKeepsPlace

LEMMA RestReadKeepsPlace ==
  ASSUME TInv, PlaceInv, RestRead
  PROVE  PlaceInv'
<1>0. PICK c \in Peers : c = conn
  BY DEF RestRead, TInv, TypeOK
<1>1. /\ pc = "rest" /\ got = RestLen(raw.length) /\ pc' = "parse"
      /\ UNCHANGED <<stream, link, backlog, arrived, conn, pos, raw, event, replies, log>>
  <2>1. pc = "rest" /\ RestLen(raw.length) \in Nat /\ got \in Nat
    BY RestLenIsNat DEF RestRead, TInv, TypeOK
  <2>2. got >= RestLen(raw.length)
    BY <2>1 DEF RestRead, Reading, Wanted
  <2>3. HeldBy(c)
    BY <1>0, HeldFacts, PeersAssumption
  <2>4. got <= RestLen(raw.length)
    BY <2>1, <2>3 DEF HeldBy
  <2>5. got = RestLen(raw.length)
    BY <2>1, <2>2, <2>4
  <2> QED
    BY <1>0, <2>5 DEF RestRead, peerVars
<1> DEFINE s == stream[c]
           n == NumLogged(c)
<1>2. /\ HeldBy(c) /\ s \in Streams /\ conn = c
      /\ n \in 0..Len(s) /\ Len(s) \in Nat
      /\ pos[c] <= arrived[c]
      /\ replies \in [Peers -> Seq(Replies)]
  BY <1>0, HeldFacts, PeersAssumption
<1>3. /\ pos[c] = End(s, n) + MBAP_LEN + got
      /\ n < Len(s) /\ raw = s[n + 1] /\ AreAnswers(replies[c], s, n)
  BY <1>1, <1>2 DEF HeldBy
<1>4. pos[c] = End(s, n + 1)
  <2>1. /\ n + 1 \in 1..Len(s) /\ n \in 0..(Len(s) - 1)
    BY <1>2, <1>3
  <2>2. s[n + 1].at = End(s, n) /\ End(s, n) \in Nat
    BY <1>2, <2>1, EndShape
  <2>3. OnWire(raw)
    BY <1>2, <1>3, <2>1, StreamShape
  <2>4. raw.size = MBAP_LEN + RestLen(raw.length) /\ raw.size \in Nat
    BY <2>3, FrameShape
  <2>5. End(s, n + 1) = raw.at + raw.size
    BY <1>2, <1>3, <2>1 DEF End
  <2>6. RestLen(raw.length) \in Nat
    BY <2>3, FrameShape, RestLenIsNat
  <2> HIDE DEF s, n
  <2> QED
    BY <1>1, <1>3, <2>2, <2>4, <2>5, <2>6 DEF MBAP_LEN
<1>5. HeldBy(c)'
  <2>1. NumLogged(c)' = n /\ stream'[c] = s
    BY <1>1, LogUnchanged
  <2> HIDE DEF s, n
  <2> QED
    BY <1>1, <1>2, <1>3, <1>4, <2>1 DEF HeldBy, InHand
<1> QED
  BY <1>1, <1>2, <1>5, HoldingStepKeepsPlace

\* Parsing, refusing, answering and flagging: the frame stays in hand.
LEMMA InHandStepKeepsPlace ==
  ASSUME TInv, PlaceInv, NEW c \in Peers, conn = c, pc \in InHand, pc' \in InHand,
         UNCHANGED <<stream, link, backlog, arrived, conn, pos, raw, log>>,
         replies' \in [Peers -> Seq(Replies)],
         \A d \in Peers : d # c => replies'[d] = replies[d],
         pc' # "parse" => event' = EventOf(raw, c),
         pc' = "answer" => ~Malformed(raw),
         AreAnswers(replies'[c], stream[c],
                    IF pc' \in {"flag", "print"} THEN NumLogged(c) + 1 ELSE NumLogged(c))
  PROVE  PlaceInv'
<1>1. HeldBy(c) /\ pos[c] <= arrived[c]
  BY DEF PlaceInv, BytesInv
<1>2. NumLogged(c)' = NumLogged(c)
  BY LogUnchanged
<1>3. HeldBy(c)'
  BY <1>1, <1>2 DEF HeldBy, InHand
<1> QED
  BY <1>1, <1>3, HoldingStepKeepsPlace

LEMMA ParseKeepsPlace ==
  ASSUME TInv, PlaceInv, Refuse \/ Parse
  PROVE  PlaceInv'
<1>0. PICK c \in Peers : c = conn
  BY DEF Refuse, Parse, TInv, TypeOK
<1>1. /\ pc = "parse" /\ pc' \in {"flag", "answer"} /\ event' = EventOf(raw, c)
      /\ pc' = "flag" <=> Malformed(raw)
      /\ UNCHANGED <<stream, link, backlog, arrived, conn, pos, raw, replies, log>>
  BY <1>0 DEF Refuse, Parse, peerVars
<1>2. /\ HeldBy(c) /\ conn = c /\ NumLogged(c) \in Nat
      /\ replies \in [Peers -> Seq(Replies)]
  BY <1>0, HeldFacts, PeersAssumption
<1>3. raw = stream[c][NumLogged(c) + 1] /\ AreAnswers(replies[c], stream[c], NumLogged(c))
  BY <1>1, <1>2 DEF HeldBy
<1>4. Malformed(raw) => AreAnswers(replies[c], stream[c], NumLogged(c) + 1)
  BY <1>2, <1>3, SkippedKeepsAnswers
<1> QED
  BY <1>1, <1>2, <1>3, <1>4, InHandStepKeepsPlace DEF InHand

LEMMA AnswerKeepsPlace ==
  ASSUME TInv, PlaceInv, Answer
  PROVE  PlaceInv'
<1>0. PICK c \in Peers : c = conn
  BY DEF Answer, TInv, TypeOK
<1> DEFINE a == build_response(parse_frame(raw))
<1>1. /\ pc = "answer" /\ pc' = "flag"
      /\ replies' = [replies EXCEPT ![c] = Append(@, a)]
      /\ UNCHANGED <<stream, link, backlog, arrived, conn, pos, raw, event, log>>
  BY <1>0 DEF Answer, peerVars
<1>2. /\ HeldBy(c) /\ conn = c /\ NumLogged(c) \in Nat
      /\ replies \in [Peers -> Seq(Replies)]
  BY <1>0, HeldFacts, PeersAssumption
<1>3. /\ raw = stream[c][NumLogged(c) + 1] /\ ~Malformed(raw)
      /\ AreAnswers(replies[c], stream[c], NumLogged(c))
      /\ event = EventOf(raw, c)
  BY <1>1, <1>2 DEF HeldBy
<1>4. a \in Replies
  BY DEF Replies, TInv, DataOK
<1>5. a = build_response(parse_frame(stream[c][NumLogged(c) + 1]))
  BY <1>3
<1> HIDE DEF a
<1>6. /\ replies' \in [Peers -> Seq(Replies)]
      /\ replies'[c] = Append(replies[c], a)
      /\ \A d \in Peers : d # c => replies'[d] = replies[d]
  BY <1>1, <1>2, <1>4
<1>7. AreAnswers(replies'[c], stream[c], NumLogged(c) + 1)
  BY <1>2, <1>3, <1>4, <1>5, <1>6, AnswerExtendsAnswers
<1> QED
  BY <1>1, <1>2, <1>3, <1>6, <1>7, InHandStepKeepsPlace DEF InHand

LEMMA FlagKeepsPlace ==
  ASSUME TInv, PlaceInv, Flag
  PROVE  PlaceInv'
<1>0. PICK c \in Peers : c = conn
  BY DEF Flag, TInv, TypeOK
<1>1. /\ pc = "flag" /\ pc' = "print"
      /\ UNCHANGED <<stream, link, backlog, arrived, conn, pos, raw, event, replies, log>>
  BY <1>0 DEF Flag, peerVars
<1>2. HeldBy(c) /\ conn = c /\ replies \in [Peers -> Seq(Replies)]
  BY <1>0, HeldFacts, PeersAssumption
<1>3. /\ AreAnswers(replies[c], stream[c], NumLogged(c) + 1)
      /\ event = EventOf(raw, c)
  BY <1>1, <1>2 DEF HeldBy
<1> QED
  BY <1>1, <1>2, <1>3, InHandStepKeepsPlace DEF InHand

\* The event printed is the next one of its connection.
LEMMA EventSource == \A u, c : EventOf(u, c).src = c
BY DEF EventOf, unparseable_event, frame_to_event

LEMMA PrintKeepsLog ==
  ASSUME TInv, PlaceInv, PrintEvent, NEW c \in Peers, conn = c
  PROVE  /\ LogFollowsStream'
         /\ \A d : NumLogged(d)' = NumLogged(d) + (IF d = c THEN 1 ELSE 0)
<1> DEFINE n == NumLogged(c)
<1>0. PICK L : L = Len(log)
  OBVIOUS
<1>1. /\ pc = "print" /\ log' = Append(log, event) /\ UNCHANGED stream
      /\ log \in Seq(Events) /\ event \in Events
  BY DEF PrintEvent, peerVars, TInv, DataOK
<1>2. /\ HeldBy(c) /\ n \in 0..Len(stream[c]) /\ Len(stream[c]) \in Nat
  BY HeldFacts, PeersAssumption
<1>3. /\ n < Len(stream[c]) /\ event = EventOf(stream[c][n + 1], c)
  BY <1>1, <1>2 DEF HeldBy
<1>4. event.src = c
  BY <1>3, EventSource
<1>5. /\ L \in Nat /\ DOMAIN log = 1..L /\ DOMAIN log' = 1..(L + 1)
      /\ \A j \in 1..L : log'[j] = log[j]
      /\ log'[L + 1] = event
  BY <1>0, <1>1
<1>6. \A d : NumLogged(d)' = NumLogged(d) + (IF d = c THEN 1 ELSE 0)
  <2> TAKE d
  <2>1. NumLogged(d)' = NumLogged(d) + (IF event.src = d THEN 1 ELSE 0)
    <3>1. CountFrom(log', d) = CountFrom(log, d) + (IF event.src = d THEN 1 ELSE 0)
      BY <1>1, AppendCounts
    <3> QED
      BY <3>1 DEF NumLogged, CountFrom
  <2> QED
    BY <1>4, <2>1
<1>7. Rank(L + 1)' = n + 1
  <2>1. Rank(L + 1)' = NumLogged(c)'
    BY <1>4, <1>5 DEF Rank, NumLogged
  <2> QED
    BY <1>6, <2>1
<1>8. \A j \in 1..L : Rank(j)' = Rank(j)
  <2> TAKE j \in 1..L
  <2>1. {l \in 1..j : log'[l].src = log'[j].src} = {l \in 1..j : log[l].src = log[j].src}
    <3>1. \A l \in 1..j : l \in 1..L
      BY <1>5
    <3> QED
      BY <1>5, <3>1
  <2> QED
    BY <2>1 DEF Rank
<1>9. n + 1 \in DOMAIN stream[c]
  <2>1. DOMAIN stream[c] = 1..Len(stream[c])
    BY StreamShape DEF TInv, TypeOK
  <2> HIDE DEF n
  <2> QED
    BY <1>2, <1>3, <2>1
<1>10. ASSUME NEW j \in DOMAIN log'
       PROVE  /\ log'[j].src \in Peers
              /\ Rank(j)' \in DOMAIN stream[log'[j].src]
              /\ log'[j] = EventOf(stream[log'[j].src][Rank(j)'], log'[j].src)
  <2>1. CASE j = L + 1
    <3>1. log'[j] = event /\ Rank(j)' = n + 1
      BY <1>5, <1>7, <2>1
    <3> HIDE DEF n
    <3> QED
      BY <1>3, <1>4, <1>9, <3>1
  <2>2. CASE j # L + 1
    <3>1. j \in 1..L
      BY <1>5, <2>2
    <3>2. log'[j] = log[j] /\ Rank(j)' = Rank(j) /\ j \in DOMAIN log
      BY <1>5, <1>8, <3>1
    <3> QED
      BY <3>2 DEF PlaceInv, LogFollowsStream
  <2> QED
    BY <2>1, <2>2
<1>11. LogFollowsStream'
  BY <1>1, <1>10 DEF LogFollowsStream
<1> QED
  BY <1>6, <1>11

LEMMA PrintKeepsPlace ==
  ASSUME TInv, PlaceInv, PrintEvent
  PROVE  PlaceInv'
<1>0. PICK c \in Peers : c = conn
  BY DEF PrintEvent, TInv, TypeOK
<1>1. /\ pc = "print" /\ pc' = "head" /\ got' = 0
      /\ UNCHANGED <<stream, link, backlog, arrived, conn, pos, raw, event, replies>>
  BY DEF PrintEvent, peerVars
<1>2. /\ HeldBy(c) /\ conn = c /\ c # NoPeer
      /\ NumLogged(c) \in 0..Len(stream[c]) /\ Len(stream[c]) \in Nat
      /\ pos[c] \in Nat
  BY <1>0, HeldFacts, PeersAssumption
<1>3. /\ LogFollowsStream'
      /\ \A d : NumLogged(d)' = NumLogged(d) + (IF d = c THEN 1 ELSE 0)
  BY <1>2, PrintKeepsLog
<1>4. NumLogged(c)' = NumLogged(c) + 1 /\ \A d : d # c => NumLogged(d)' = NumLogged(d)
  <2>1. \A d \in Peers : NumLogged(d) \in Nat
    BY NumLoggedType
  <2>2. ASSUME NEW d, d # c PROVE NumLogged(d)' = NumLogged(d)
    <3>1. NumLogged(d) \in Nat
      BY NumLoggedType
    <3> QED
      BY <1>3, <2>2, <3>1
  <2> QED
    BY <1>3, <2>2
<1>5. HeldBy(c)'
  <2> DEFINE s == stream[c]
             n == NumLogged(c)
  <2>1. n < Len(s) /\ pos[c] = End(s, n + 1) /\ AreAnswers(replies[c], s, n + 1)
    BY <1>1, <1>2 DEF HeldBy, InHand
  <2>2. stream'[c] = s /\ NumLogged(c)' = n + 1
    BY <1>1, <1>4
  <2>3. n + 1 <= Len(s) /\ pos'[c] = End(s, n + 1) + got'
    <3>1. End(s, n + 1) \in Nat
      BY <1>2, <2>1
    <3> QED
      BY <1>1, <1>2, <2>1, <3>1
  <2> HIDE DEF s, n
  <2> QED
    BY <1>1, <2>1, <2>2, <2>3 DEF HeldBy, InHand, MBAP_LEN
<1>6. \A d : Waiting(d)' <=> Waiting(d)
  BY <1>1 DEF Waiting, Queued
<1>7. QueueInv'
  BY <1>1, <1>6 DEF PlaceInv, QueueInv
<1>8. BytesInv' /\ replies' \in [Peers -> Seq(Replies)]
  BY <1>1 DEF PlaceInv, BytesInv
<1>9. \A d \in Peers : Waiting(d)' => Untouched(d)'
  <2>1. ~Waiting(c)
    BY <1>2 DEF PlaceInv, QueueInv
  <2>2. \A d \in Peers : Waiting(d)' => Untouched(d) /\ d # c
    BY <1>6, <2>1 DEF PlaceInv
  <2> QED
    BY <1>1, <1>4, <2>2 DEF Untouched
<1>10. \A d \in Peers : conn' # d => Settled(d)'
  <2>1. \A d \in Peers : d # c => Settled(d)
    BY <1>2 DEF PlaceInv
  <2> QED
    BY <1>1, <1>2, <1>4, <2>1 DEF Settled
<1>11. \A d \in Peers : conn' = d => HeldBy(d)'
  BY <1>1, <1>2, <1>5
<1> QED
  BY <1>3, <1>7, <1>8, <1>9, <1>10, <1>11 DEF PlaceInv

LEMMA StutterKeepsPlace ==
  ASSUME PlaceInv, UNCHANGED vars
  PROVE  PlaceInv'
<1>1. UNCHANGED <<stream, serverVars, backlog, link, arrived>>
  BY DEF vars, peerVars
<1>2. QueueInv' /\ BytesInv' /\ \A c \in Peers : Waiting(c)' => Waiting(c)
  BY <1>1 DEF serverVars, PlaceInv, QueueInv, BytesInv, Waiting, Queued
<1> QED
  BY <1>1, <1>2, OutsideStepKeepsPlace

LEMMA InitPlace == Init => PlaceInv
<1> SUFFICES ASSUME Init PROVE PlaceInv
  OBVIOUS
<1>0. \A c \in Peers : stream[c] \in Streams
  BY DEF Init
<1>1. /\ replies = [c \in Peers |-> <<>>] /\ backlog = <<>> /\ conn = NoPeer
      /\ link = [c \in Peers |-> "none"] /\ log = <<>>
      /\ pos = [c \in Peers |-> 0] /\ arrived = [c \in Peers |-> 0]
  BY DEF Init
<1>2. replies \in [Peers -> Seq(Replies)]
  <2>1. <<>> \in Seq(Replies)
    OBVIOUS
  <2> QED
    BY <1>1, <2>1
<1>3. QueueInv
  BY <1>1 DEF QueueInv
<1>4. BytesInv
  <2>1. ASSUME NEW c \in Peers PROVE End(stream[c], Len(stream[c])) \in Nat
    BY <1>0, EndShape, StreamShape
  <2> QED
    BY <1>1, <2>1 DEF BytesInv
<1>5. \A c : NumLogged(c) = 0
  <2> TAKE c
  <2>1. {l \in DOMAIN log : log[l].src = c} = {}
    BY <1>1
  <2> QED
    BY <2>1, FS_EmptySet DEF NumLogged
<1>6. \A c \in Peers : Untouched(c) /\ Settled(c) /\ conn # c
  BY <1>1, <1>5, NoAnswers, PeersAssumption DEF Untouched, Settled
<1>7. LogFollowsStream
  BY <1>1 DEF LogFollowsStream
<1> QED
  BY <1>2, <1>3, <1>4, <1>6, <1>7 DEF PlaceInv

LEMMA PlaceInvHolds == Spec => []PlaceInv
<1>1. TInv /\ PlaceInv /\ [Next]_vars => PlaceInv'
  <2> SUFFICES ASSUME TInv, PlaceInv, [Next]_vars PROVE PlaceInv'
    OBVIOUS
  <2> QED
    BY StepsOf, PeersKeepPlace, AcceptKeepsPlace, RecvKeepsPlace, RecvEofKeepsPlace,
       HeadReadKeepsPlace, RestReadKeepsPlace, BindKeepsPlace, ParseKeepsPlace,
       AnswerKeepsPlace, FlagKeepsPlace, PrintKeepsPlace, LeavesExit, ExitKeepsPlace,
       StutterKeepsPlace
<1> QED
  BY InitPlace, TInvHolds, <1>1, PTL DEF Spec

\* However the network cuts the bytes of any number of connections up, the j-th event
\* of a connection is that of the j-th frame its peer sent.
THEOREM LogFollowsStreamHolds == Spec => []LogFollowsStream
<1>1. PlaceInv => LogFollowsStream
  BY DEF PlaceInv
<1> QED
  BY <1>1, PlaceInvHolds, PTL

\* Every master gets one answer per well-formed frame, in the order of its frames,
\* and none before the events of the frames before it are printed.
THEOREM RepliesFollowLogHolds == Spec => []RepliesFollowLog
<1>1. TInv /\ PlaceInv => RepliesFollowLog
  <2> SUFFICES ASSUME TInv, PlaceInv, NEW c \in Peers
               PROVE  \/ AreAnswers(replies[c], stream[c], NumLogged(c))
                      \/ /\ pc \in {"flag", "print", "exited"}
                         /\ NumLogged(c) < Len(stream[c])
                         /\ AreAnswers(replies[c], stream[c], NumLogged(c) + 1)
    BY DEF RepliesFollowLog
  <2>1. CASE conn = c
    BY <2>1 DEF PlaceInv, HeldBy
  <2>2. CASE conn # c
    BY <2>2 DEF PlaceInv, Settled
  <2> QED
    BY <2>1, <2>2
<1> QED
  BY <1>1, TInvHolds, PlaceInvHolds, PTL

-----------------------------------------------------------------------------
(* The refinement of HoneypotLog. *)

\* The mapping of `seen`.
Seen == {c \in Peers : link[c] # "none" /\ \A i \in DOMAIN backlog : backlog[i] # c}

LEMMA InitImplements == Init => Abstract!Init
BY DEF Init, Abstract!Init

LEMMA QuietStep ==
  ASSUME UNCHANGED <<stream, conn, log>>, Seen' = Seen, pc' = "exited" <=> pc = "exited"
  PROVE  UNCHANGED Abstract!vars
<1>1. (pc' = "exited") = (pc = "exited")
  OBVIOUS
<1> QED
  BY <1>1, Zenon DEF Abstract!vars, Seen

\* What happens between a peer and the kernel cannot be seen on stdout.
LEMMA PeerStepIsQuiet ==
  ASSUME TInv, PlaceInv, NEW c \in Peers, PeerStep(c)
  PROVE  UNCHANGED Abstract!vars
<1>1. UNCHANGED <<stream, conn, log, pc>>
  BY DEF PeerStep, Connect, Deliver, Close, Reset, serverVars
<1>2. CASE Connect(c)
  <2>1. /\ link[c] = "none" /\ link' = [link EXCEPT ![c] = "up"]
        /\ backlog' = Append(backlog, c) /\ backlog \in Seq(Peers)
        /\ link \in [Peers -> Statuses]
    BY <1>2 DEF Connect, TInv, TypeOK
  <2>2. /\ DOMAIN backlog' = DOMAIN backlog \cup {Len(backlog) + 1}
        /\ backlog'[Len(backlog) + 1] = c
        /\ \A i \in DOMAIN backlog : backlog'[i] = backlog[i]
    BY <2>1
  <2>3. \A d \in Peers : d \in Seen' <=> d \in Seen
    BY <2>1, <2>2 DEF Seen
  <2>4. Seen' = Seen
    BY <2>3 DEF Seen
  <2> QED
    BY <1>1, <2>4, QuietStep
<1>3. CASE Deliver(c)
  BY <1>1, <1>3, QuietStep DEF Deliver, Seen
<1>4. CASE Close(c) \/ Reset(c)
  <2>1. UNCHANGED backlog /\ \A d \in Peers : link'[d] = "none" <=> link[d] = "none"
    BY <1>4 DEF Close, Reset, TInv, TypeOK
  <2>2. Seen' = Seen
    BY <2>1 DEF Seen
  <2> QED
    BY <1>1, <2>2, QuietStep
<1> QED
  BY <1>2, <1>3, <1>4 DEF PeerStep

LEMMA AcceptBegins ==
  ASSUME TInv, PlaceInv, Accept
  PROVE  Abstract!Next
<1>0. PICK c \in Peers : c = Head(backlog)
  BY DEF Accept, TInv, TypeOK
<1>1. /\ backlog \in Seq(Peers) /\ backlog # <<>>
      /\ conn' = c /\ backlog' = Tail(backlog) /\ pc' = "head"
      /\ UNCHANGED <<stream, link, log>>
      /\ conn = NoPeer /\ pc = "accept"
  BY <1>0 DEF Accept, TInv, TypeOK, peerVars
<1>2. /\ 1 \in DOMAIN backlog /\ c = backlog[1]
      /\ DOMAIN backlog = 1..Len(backlog) /\ Len(backlog) \in Nat
      /\ DOMAIN backlog' = 1..(Len(backlog) - 1)
      /\ \A i \in DOMAIN backlog' : backlog'[i] = backlog[i + 1]
      /\ \A i \in DOMAIN backlog : backlog[i] = c \/ i - 1 \in DOMAIN backlog'
  BY <1>0, <1>1
<1>3. link[c] # "none" /\ c \notin Seen
  BY <1>2 DEF PlaceInv, QueueInv, Seen
<1>4. ~Waiting(c)'
  <2>1. PlaceInv'
    BY AcceptKeepsPlace
  <2>2. ~Waiting(conn)'
    BY <1>1, <2>1, PeersAssumption DEF PlaceInv, QueueInv
  <2> QED
    BY <1>1, <2>2 DEF Waiting, Queued
<1>5. \A d \in Peers : d \in Seen' <=> d \in Seen \/ d = c
  <2>1. c \in Seen'
    BY <1>4 DEF Waiting, Queued, Seen
  <2>2. ASSUME NEW d \in Peers, d # c
        PROVE  (\A i \in DOMAIN backlog : backlog[i] # d)
                 <=> (\A i \in DOMAIN backlog' : backlog'[i] # d)
    <3>1. ASSUME \A i \in DOMAIN backlog' : backlog'[i] # d, NEW i \in DOMAIN backlog
          PROVE  backlog[i] # d
      <4>1. CASE backlog[i] = c
        BY <2>2, <4>1
      <4>2. CASE i - 1 \in DOMAIN backlog'
        <5>1. backlog'[i - 1] = backlog[(i - 1) + 1] /\ (i - 1) + 1 = i
          BY <1>2, <4>2
        <5> QED
          BY <3>1, <4>2, <5>1
      <4> QED
        BY <1>2, <4>1, <4>2
    <3>2. ASSUME \A i \in DOMAIN backlog : backlog[i] # d, NEW i \in DOMAIN backlog'
          PROVE  backlog'[i] # d
      <4>1. i + 1 \in DOMAIN backlog
        BY <1>2
      <4> QED
        BY <1>2, <3>2, <4>1
    <3> QED
      BY <3>1, <3>2
  <2> QED
    BY <1>1, <2>1, <2>2 DEF Seen
<1>6. Seen' = Seen \cup {c}
  BY <1>3, <1>5 DEF Seen
<1>7. Abstract!Begin(c)
  <2>1. (pc' = "exited") = (pc = "exited") /\ pc # "exited"
    BY <1>1
  <2> QED
    BY <1>1, <1>3, <1>6, <2>1 DEF Abstract!Begin, Seen
<1> QED
  BY <1>7 DEF Abstract!Next

\* HoneypotLog brings its own copy of ModbusFrame and of Cardinality.
LEMMA SameDefinitions ==
  /\ \A u, c : Abstract!EventOf(u, c) = EventOf(u, c)
  /\ \A c : Abstract!Published(c) = NumLogged(c)
<1>1. \A u : Abstract!Malformed(u) <=> Malformed(u)
  BY DEF Abstract!Malformed, Malformed, Abstract!MBAP_LEN, MBAP_LEN
<1>2. \A u : Abstract!parse_frame(u) = parse_frame(u)
  BY Zenon DEF Abstract!parse_frame, parse_frame, Abstract!Decodable, Decodable, Abstract!BodyLen,
         BodyLen, Abstract!BodyNeeded, BodyNeeded, Abstract!NumValues, NumValues,
         Abstract!Least, Least, Abstract!MBAP_LEN, MBAP_LEN, Abstract!None, None,
         Abstract!READ_CODES, READ_CODES, Abstract!WRITE_CODES, WRITE_CODES
<1>3. \A f : Abstract!Category(f) = Category(f)
  BY Zenon DEF Abstract!Category, Category, Abstract!READ_CODES, READ_CODES,
               Abstract!WRITE_CODES, WRITE_CODES, Abstract!CONTROL_CODES, CONTROL_CODES
<1>4. \A f : Abstract!Severity(f) = Severity(f)
  BY Zenon DEF Abstract!Severity, Severity, Abstract!BaseSeverity, BaseSeverity,
         Abstract!Oversized, Oversized, Abstract!Category, Category,
         Abstract!READ_CODES, READ_CODES, Abstract!WRITE_CODES, WRITE_CODES,
         Abstract!CONTROL_CODES, CONTROL_CODES, Abstract!SUSPICIOUS_CODES, SUSPICIOUS_CODES
<1>5. \A u, c : Abstract!EventOf(u, c) = EventOf(u, c)
  BY <1>1, <1>2, <1>3, <1>4, Zenon
     DEF Abstract!EventOf, EventOf, Abstract!frame_to_event, frame_to_event,
         Abstract!unparseable_event, unparseable_event, Abstract!None, None
<1>6. \A c : Abstract!Published(c) = NumLogged(c)
  BY Zenon DEF Abstract!Published, NumLogged, Abstract!Cardinality, Cardinality
<1> QED
  BY <1>5, <1>6

LEMMA PrintPublishes ==
  ASSUME TInv, PlaceInv, PrintEvent
  PROVE  Abstract!Next
<1>0. PICK c \in Peers : c = conn
  BY DEF PrintEvent, TInv, TypeOK
<1>1. /\ pc = "print" /\ pc' = "head" /\ log' = Append(log, event)
      /\ UNCHANGED <<stream, link, backlog, conn>>
  BY DEF PrintEvent, peerVars
<1>2. HeldBy(c) /\ conn = c
  BY <1>0, HeldFacts, PeersAssumption
<1>3. /\ NumLogged(c) < Len(stream[c])
      /\ event = EventOf(stream[c][NumLogged(c) + 1], c)
  BY <1>1, <1>2 DEF HeldBy
<1>4. /\ Abstract!Published(c) = NumLogged(c)
      /\ event = Abstract!EventOf(stream[c][NumLogged(c) + 1], c)
  BY <1>3, SameDefinitions
<1>5. Abstract!Publish
  <2>1. (pc' = "exited") = (pc = "exited")
    BY <1>1
  <2>2. Seen' = Seen
    BY <1>1 DEF Seen
  <2> QED
    BY <1>1, <1>2, <1>3, <1>4, <2>1, <2>2 DEF Abstract!Publish, Seen
<1> QED
  BY <1>5 DEF Abstract!Next

LEMMA EofLeaves ==
  ASSUME TInv, RecvEof
  PROVE  Abstract!Next
<1>1. /\ conn \in Peers /\ conn' = NoPeer
      /\ UNCHANGED <<stream, link, backlog, log>>
      /\ (pc' = "exited") = (pc = "exited")
  BY DEF RecvEof, Reading, peerVars, TInv, TypeOK
<1>2. Seen' = Seen
  BY <1>1 DEF Seen
<1>3. Abstract!Leave
  BY <1>1, <1>2 DEF Abstract!Leave, Seen
<1> QED
  BY <1>3 DEF Abstract!Next

LEMMA ExitStops ==
  ASSUME pc # "exited", NEW why, Exit(why)
  PROVE  Abstract!Next
<1>1. /\ conn' = NoPeer /\ UNCHANGED <<stream, link, backlog, log>>
      /\ (pc' = "exited") = TRUE /\ pc' = "exited"
  BY DEF Exit, peerVars
<1>2. Seen' = Seen
  BY <1>1 DEF Seen
<1>3. Abstract!Stop
  BY <1>1, <1>2 DEF Abstract!Stop, Seen
<1> QED
  BY <1>3 DEF Abstract!Next

LEMMA ThreadStepIsQuiet ==
  ASSUME \/ Recv \/ HeadRead \/ RestRead
         \/ Bind \/ Refuse \/ Parse \/ Answer \/ Flag
  PROVE  UNCHANGED Abstract!vars
<1>1. /\ UNCHANGED <<stream, link, backlog, conn, log>>
      /\ pc' = "exited" <=> pc = "exited"
  BY DEF Recv, Reading, HeadRead, RestRead, Bind, Refuse, Parse, Answer, Flag, peerVars
<1>2. Seen' = Seen
  BY <1>1 DEF Seen
<1> QED
  BY <1>1, <1>2, QuietStep

LEMMA StepImplements ==
  ASSUME TInv, PlaceInv, [Next]_vars
  PROVE  [Abstract!Next]_Abstract!vars
<1>1. CASE Leaves
  <2>1. pc # "exited"
    BY <1>1 DEF Leaves, BindFails, AcceptFails, RecvError, Reading, BuildFails, SendFails, PrintFails,
                Interrupt
  <2> QED
    BY <1>1, <2>1, LeavesExit, ExitStops
<1>2. CASE UNCHANGED vars
  <2>1. Seen' = Seen
    BY <1>2 DEF vars, peerVars, Seen
  <2> QED
    BY <1>2, <2>1, QuietStep DEF vars, peerVars, serverVars
<1> QED
  BY <1>1, <1>2, StepsOf, PeerStepIsQuiet, AcceptBegins, PrintPublishes, EofLeaves,
     ThreadStepIsQuiet

\* Chunked reads, the accept queue, answers and failures do not show on stdout: the
\* log is that of a service taking whole frames, one connection after another.
THEOREM ImplementsHoneypotLogHolds == Spec => ImplementsHoneypotLog
<1>1. TInv /\ PlaceInv /\ [Next]_vars => [Abstract!Next]_Abstract!vars
  BY StepImplements
<1> QED
  BY InitImplements, TInvHolds, PlaceInvHolds, <1>1, PTL
     DEF Spec, ImplementsHoneypotLog, Abstract!Spec
=============================================================================
