---------------------------- MODULE HoneypotServer ----------------------------
(***************************************************************************)
(* `modlure serve`: the accept loop of _cmd_serve in modlure/cli.py, its   *)
(* peers, and the TCP connections between them.                            *)
(*                                                                         *)
(* The server is one thread.  It takes one connection at a time and reads  *)
(* one MBAP frame at a time with _recv_exact: seven header bytes, then as  *)
(* many as the header announces.  A frame is parsed, answered and printed  *)
(* before the next one is read.  KeyboardInterrupt may strike between any  *)
(* two steps, and an exception other than ParseError ends the process.     *)
(* No call has a timeout: accept and recv wait for a peer, sendall waits   *)
(* for one that reads its answers, print for whoever reads stdout.         *)
(*                                                                         *)
(* A peer's byte stream is a sequence of frames laid end to end: every     *)
(* byte sequence is one, up to an incomplete frame at its end, which is    *)
(* the case of a peer that closes before its last frame has been sent.     *)
(* Some peers are a `modlure probe`, which keeps in step with its answers.  *)
(***************************************************************************)
EXTENDS ModbusFrame, FiniteSets, Sequences

CONSTANTS
  Peers,      \* one element per TCP connection that is ever made
  NoPeer,     \* the server is between two connections
  Streams,    \* the byte streams a peer may send, as sequences of frames
  ProbeStreams, \* those of a `modlure probe`: its three requests
  Chunks,     \* how many bytes the network may deliver at once
  Backlog     \* connections the kernel queues for accept(); listen(8)

\* A frame on the wire is a buffer of ModbusFrame, its size fixed by its
\* header, with the offset in the stream of its first byte.
OnWire(u) == /\ {u.at, u.tid, u.pid, u.length, u.uid, u.fc,
                 u.addr, u.word, u.count} \subseteq Nat
             /\ u.size = MBAP_LEN + (IF u.length >= 1 THEN u.length - 1 ELSE 0)

\* The frames of a stream tile it from its first byte.
Tiled(s) ==
  /\ \A i \in DOMAIN s : OnWire(s[i]) /\ (i = 1 => s[i].at = 0)
  /\ \A i, j \in DOMAIN s : i < j  => s[i].at + s[i].size <= s[j].at
  /\ \A i, j \in DOMAIN s : j = i + 1 => s[i].at + s[i].size = s[j].at

ASSUME StreamsAssumption == \A s \in Streams : s \in Seq(UNION {{s[i] : i \in DOMAIN s}}) /\ Tiled(s)
ASSUME ProbesAssumption  == ProbeStreams \subseteq Streams
ASSUME PeersAssumption   == NoPeer \notin Peers
ASSUME ChunksAssumption  == Chunks \subseteq Nat \ {0}
ASSUME BacklogAssumption == Backlog \in Nat \ {0}

VARIABLES
  stream,     \* what each peer sends
  link,       \* the state of its connection: none, up, fin (closed), rst (reset)
  arrived,    \* how many bytes of the stream have reached the server's host
  backlog,    \* connections established and not yet accepted
  pc,         \* where the server's thread is
  conn,       \* the connection it holds
  pos,        \* how many bytes of each stream it has received
  got,        \* len(buf) in the current _recv_exact
  raw,        \* the frame whose header was read last
  event,      \* the event being built
  saw_high,
  replies,    \* what was sent on each connection
  log,        \* the events printed on stdout
  outcome,    \* why the process ended
  taken       \* history: the complete frames read, with their connection

peerVars   == <<stream, link, arrived>>
serverVars == <<pc, conn, pos, got, raw, event, saw_high, replies, log,
                outcome, taken>>
vars == <<peerVars, backlog, serverVars>>

\* What a read finds where no frame begins: a header that parse_frame refuses.
Garbage == [ at |-> 0, size |-> 0, tid |-> 0, pid |-> 1, length |-> 0, uid |-> 0,
             fc |-> 0, addr |-> 0, word |-> 0, count |-> 0 ]

FrameAt(s, p) == IF \E i \in DOMAIN s : s[i].at = p
                   THEN s[CHOOSE i \in DOMAIN s : s[i].at = p]
                   ELSE Garbage

End(s, i) == IF i = 0 THEN 0 ELSE s[i].at + s[i].size

-----------------------------------------------------------------------------
(* The peers and the network.  A connection is made once. *)

Connect(c) ==
  /\ pc \notin {"bind", "exited"}
  /\ link[c] = "none"
  /\ Len(backlog) < Backlog
  /\ link' = [link EXCEPT ![c] = "up"]
  /\ backlog' = Append(backlog, c)
  /\ UNCHANGED <<stream, arrived, serverVars>>

Probes(c) == stream[c] \in ProbeStreams

\* How many of its frames a peer has sent at most: probe_target does not send a
\* request before it has read the answer to the one before.
SentFrames(c) == IF Probes(c) THEN Least(Len(replies[c]) + 1, Len(stream[c]))
                              ELSE Len(stream[c])

Deliver(c) ==
  /\ link[c] = "up"
  /\ LET left == End(stream[c], SentFrames(c)) - arrived[c]
     IN  \E n \in 1..left :
           /\ n \in Chunks \/ n = left
           /\ arrived' = [arrived EXCEPT ![c] = @ + n]
  /\ UNCHANGED <<stream, link, backlog, serverVars>>

Close(c) ==
  /\ link[c] = "up"
  /\ link' = [link EXCEPT ![c] = "fin"]
  /\ UNCHANGED <<stream, arrived, backlog, serverVars>>

Reset(c) ==
  /\ link[c] \in {"up", "fin"}
  /\ link' = [link EXCEPT ![c] = "rst"]
  /\ UNCHANGED <<stream, arrived, backlog, serverVars>>

PeerStep(c) == Connect(c) \/ Deliver(c) \/ Close(c) \/ Reset(c)

-----------------------------------------------------------------------------
(* Leaving the process: `with conn` and `finally` close both sockets. *)

Exit(why) ==
  /\ pc' = "exited"
  /\ outcome' = why
  /\ conn' = NoPeer
  /\ UNCHANGED <<peerVars, backlog, pos, got, raw, event, saw_high, replies,
                 log, taken>>

\* _cmd_serve returns 2 when it cannot bind and `1 if saw_high else 0` after
\* Ctrl-C; an exception that escapes it makes the interpreter exit with 1, and
\* with 120 when it then cannot flush stdout.
ExitStatus == CASE outcome = "no_bind"   -> 2
                [] outcome = "exception" -> 1
                [] outcome = "no_stdout" -> 120
                [] OTHER                 -> IF saw_high THEN 1 ELSE 0

Bind ==
  /\ pc = "bind"
  /\ pc' = "accept"
  /\ UNCHANGED <<peerVars, backlog, conn, pos, got, raw, event, saw_high,
                 replies, log, outcome, taken>>

BindFails == pc = "bind" /\ Exit("no_bind")

Interrupt == pc \notin {"bind", "exited"} /\ Exit("ctrl_c")

-----------------------------------------------------------------------------
(* Accepting and reading *)

Accept ==
  /\ pc = "accept"
  /\ backlog # <<>>
  /\ conn' = Head(backlog)
  /\ backlog' = Tail(backlog)
  /\ pc' = "head"
  /\ got' = 0
  /\ UNCHANGED <<peerVars, pos, raw, event, saw_high, replies, log, outcome,
                 taken>>

\* accept raised OSError: no file descriptor left, or a connection aborted.
AcceptFails == pc = "accept" /\ Exit("exception")

\* Mutant of RestLen: the unit id is counted twice.
RestLenWithUnit(length) == length

\* The n of the second _recv_exact: max(length - 1, 0).
RestLen(length) == IF length >= 1 THEN length - 1 ELSE 0

\* The n of the _recv_exact the thread is in.
Wanted == IF pc = "head" THEN MBAP_LEN ELSE RestLen(raw.length)

Reading == pc \in {"head", "rest"} /\ got < Wanted

Unread == arrived[conn] - pos[conn]

\* recv(n - len(buf)) returns what has arrived, at most what was asked for.
\* Bytes that arrived before a reset can still be returned.
Recv ==
  /\ Reading
  /\ Unread > 0
  /\ LET n == Least(Unread, Wanted - got)
     IN  /\ got' = got + n
         /\ pos' = [pos EXCEPT ![conn] = @ + n]
  /\ UNCHANGED <<peerVars, backlog, pc, conn, raw, event, saw_high, replies,
                 log, outcome, taken>>

\* Mutants of RecvEof: the connection is closed but still held; the loop over
\* the frames of the connection is not left.
RecvEofKeepsConn ==
  /\ Reading
  /\ Unread = 0
  /\ link[conn] = "fin"
  /\ pc' = "accept"
  /\ UNCHANGED <<peerVars, backlog, conn, pos, got, raw, event, saw_high,
                 replies, log, outcome, taken>>

RecvEofStays ==
  /\ Reading
  /\ Unread = 0
  /\ link[conn] = "fin"
  /\ pc' = "head"
  /\ got' = 0
  /\ UNCHANGED <<peerVars, backlog, conn, pos, raw, event, saw_high, replies,
                 log, outcome, taken>>

\* recv returns b"": _recv_exact gives None and the loop leaves the connection,
\* whatever part of a frame it already holds.
RecvEof ==
  /\ Reading
  /\ Unread = 0
  /\ link[conn] = "fin"
  /\ pc' = "accept"
  /\ conn' = NoPeer
  /\ UNCHANGED <<peerVars, backlog, pos, got, raw, event, saw_high, replies,
                 log, outcome, taken>>

\* recv raises ConnectionResetError, which nothing in _cmd_serve catches.
RecvError == Reading /\ link[conn] = "rst" /\ Exit("exception")

HeadRead ==
  /\ pc = "head"
  /\ ~Reading
  /\ raw' = FrameAt(stream[conn], pos[conn] - MBAP_LEN)
  /\ pc' = "rest"
  /\ got' = 0
  /\ UNCHANGED <<peerVars, backlog, conn, pos, event, saw_high, replies, log,
                 outcome, taken>>

\* Mutant of RestRead: `if not rest` for `if rest is None`, which takes an empty
\* rest for the end of the connection.
RestReadOrEmpty ==
  /\ pc = "rest"
  /\ ~Reading
  /\ IF Wanted = 0
       THEN pc' = "accept" /\ conn' = NoPeer /\ UNCHANGED taken
       ELSE /\ pc' = "parse"
            /\ taken' = Append(taken, [src |-> conn, frame |-> raw])
            /\ UNCHANGED conn
  /\ UNCHANGED <<peerVars, backlog, pos, got, raw, event, saw_high, replies,
                 log, outcome>>

RestRead ==
  /\ pc = "rest"
  /\ ~Reading
  /\ pc' = "parse"
  /\ taken' = Append(taken, [src |-> conn, frame |-> raw])
  /\ UNCHANGED <<peerVars, backlog, conn, pos, got, raw, event, saw_high,
                 replies, log, outcome>>

-----------------------------------------------------------------------------
(* Handling one frame *)

\* Mutants of Refuse: the frame is answered all the same; it is skipped.
RefuseAnswers ==
  /\ pc = "parse"
  /\ Malformed(raw)
  /\ event' = EventOf(raw, conn)
  /\ pc' = "answer"
  /\ UNCHANGED <<peerVars, backlog, conn, pos, got, raw, saw_high, replies,
                 log, outcome, taken>>

RefuseSkips ==
  /\ pc = "parse"
  /\ Malformed(raw)
  /\ pc' = "head"
  /\ got' = 0
  /\ UNCHANGED <<peerVars, backlog, conn, pos, raw, event, saw_high, replies,
                 log, outcome, taken>>

\* parse_frame raised ParseError: an event all the same, and no answer.
Refuse ==
  /\ pc = "parse"
  /\ Malformed(raw)
  /\ event' = EventOf(raw, conn)
  /\ pc' = "flag"
  /\ UNCHANGED <<peerVars, backlog, conn, pos, got, raw, saw_high, replies,
                 log, outcome, taken>>

Parse ==
  /\ pc = "parse"
  /\ ~Malformed(raw)
  /\ event' = EventOf(raw, conn)
  /\ pc' = "answer"
  /\ UNCHANGED <<peerVars, backlog, conn, pos, got, raw, saw_high, replies,
                 log, outcome, taken>>

\* Mutant of BuildFails: the exception is swallowed, and the event with it.
BuildFailureSkipped ==
  /\ pc = "answer"
  /\ Unanswerable(parse_frame(raw))
  /\ pc' = "head"
  /\ got' = 0
  /\ UNCHANGED <<peerVars, backlog, conn, pos, raw, event, saw_high, replies,
                 log, outcome, taken>>

\* build_response raised ValueError.
BuildFails ==
  /\ pc = "answer"
  /\ Unanswerable(parse_frame(raw))
  /\ Exit("exception")

\* Mutant of Answer: a function the honeypot does not implement is not answered.
AnswerKnownOnly ==
  /\ pc = "answer"
  /\ ~Unanswerable(parse_frame(raw))
  /\ link[conn] # "rst"
  /\ replies' = IF raw.fc \in READ_CODES \cup WRITE_CODES
                  THEN [replies EXCEPT ![conn] =
                          Append(@, build_response(parse_frame(raw)))]
                  ELSE replies
  /\ pc' = "flag"
  /\ UNCHANGED <<peerVars, backlog, conn, pos, got, raw, event, saw_high, log,
                 outcome, taken>>

\* sendall returns once the kernel has taken all of the answer.  It has no
\* timeout: how long the step is put off is up to the peer (AnswersRead).
Answer ==
  /\ pc = "answer"
  /\ ~Unanswerable(parse_frame(raw))
  /\ link[conn] # "rst"
  /\ replies' = [replies EXCEPT ![conn] =
                   Append(@, build_response(parse_frame(raw)))]
  /\ pc' = "flag"
  /\ UNCHANGED <<peerVars, backlog, conn, pos, got, raw, event, saw_high, log,
                 outcome, taken>>

\* sendall raised BrokenPipeError or ConnectionResetError.
SendFails ==
  /\ pc = "answer"
  /\ ~Unanswerable(parse_frame(raw))
  /\ link[conn] = "rst"
  /\ Exit("exception")

\* Mutant of Flag: only the last event counts.
FlagLastOnly ==
  /\ pc = "flag"
  /\ saw_high' = (event.severity = "high")
  /\ pc' = "print"
  /\ UNCHANGED <<peerVars, backlog, conn, pos, got, raw, event, replies, log,
                 outcome, taken>>

Flag ==
  /\ pc = "flag"
  /\ saw_high' = (saw_high \/ event.severity = "high")
  /\ pc' = "print"
  /\ UNCHANGED <<peerVars, backlog, conn, pos, got, raw, event, replies, log,
                 outcome, taken>>

\* print with flush=True waits as long as stdout takes nothing.
PrintEvent ==
  /\ pc = "print"
  /\ log' = Append(log, event)
  /\ pc' = "head"
  /\ got' = 0
  /\ UNCHANGED <<peerVars, backlog, conn, pos, raw, event, saw_high, replies,
                 outcome, taken>>

\* print raised: the reader of stdout has gone.
PrintFails == pc = "print" /\ Exit("no_stdout")

-----------------------------------------------------------------------------
Init ==
  /\ stream \in [Peers -> Streams]
  /\ link = [c \in Peers |-> "none"]
  /\ arrived = [c \in Peers |-> 0]
  /\ backlog = <<>>
  /\ pc = "bind"
  /\ conn = NoPeer
  /\ pos = [c \in Peers |-> 0]
  /\ got = 0
  /\ raw = Garbage
  /\ event = unparseable_event(NoPeer)
  /\ saw_high = FALSE
  /\ replies = [c \in Peers |-> <<>>]
  /\ log = <<>>
  /\ outcome = "none"
  /\ taken = <<>>

\* The steps the thread takes as soon as their guards hold.  Accept and Recv wait
\* in theirs for a peer.
RunningStep == \/ Bind \/ BindFails \/ Accept
               \/ Recv \/ RecvEof \/ RecvError \/ HeadRead \/ RestRead
               \/ Refuse \/ Parse \/ BuildFails \/ SendFails \/ Flag

\* The other steps wait for the reader of an answer or of stdout, or need not
\* happen at all.
ServerStep == RunningStep \/ AcceptFails \/ Answer \/ PrintEvent \/ PrintFails

Next == ServerStep \/ Interrupt \/ \E c \in Peers : PeerStep(c)

Spec == Init /\ [][Next]_vars

\* The scheduler runs the thread of the server, and that of a probe, whose bytes
\* get through while its connection is up.
ThreadFairness == WF_vars(RunningStep)
ProbeFairness  == \A c \in Peers : WF_vars(Probes(c) /\ Deliver(c))

\* Who takes the answers: a probe reads each of its own, and what is sent to a
\* peer that has closed waits for nobody, as its host answers with a reset.
\* Any other peer that is connected may read nothing, and then sendall blocks.
Takes(c) == Probes(c) \/ link[c] = "fin"

AnswersRead == WF_vars(Answer /\ Takes(conn))

\* Nothing is assumed of the other peers, nor of the reader of stdout.
FairSpec == Spec /\ ThreadFairness /\ ProbeFairness /\ AnswersRead

-----------------------------------------------------------------------------
(* Properties *)

Statuses == {"none", "up", "fin", "rst"}
Labels == {"bind", "accept", "head", "rest", "parse", "answer", "flag",
           "print", "exited"}

\* Every variable has its type, and the thread holds a connection exactly
\* while it is inside the `with conn` block.
TypeOK ==
  /\ stream \in [Peers -> Streams]
  /\ link \in [Peers -> Statuses]
  /\ arrived \in [Peers -> Nat]
  /\ backlog \in Seq(Peers)
  /\ pc \in Labels
  /\ conn \in Peers \cup {NoPeer}
  /\ conn = NoPeer <=> pc \in {"bind", "accept", "exited"}
  /\ pos \in [Peers -> Nat]
  /\ got \in Nat
  /\ raw.length \in Nat
  /\ saw_high \in BOOLEAN
  /\ outcome \in {"none", "ctrl_c", "exception", "no_stdout", "no_bind"}
  /\ outcome = "none" <=> pc # "exited"

IsHigh(e) == e.severity = "high"

\* The events printed for a connection so far, and for that of the j-th event
\* up to the j-th.
NumLogged(c) == Cardinality({l \in DOMAIN log : log[l].src = c})
Rank(j)      == Cardinality({l \in 1..j : log[l].src = log[j].src})

\* However the network cuts the bytes up, the events printed for a connection
\* are those of the first frames its peer sent, in the order sent, none twice
\* and none skipped.
LogFollowsStream ==
  \A j \in DOMAIN log :
    LET c == log[j].src
    IN  /\ c \in Peers
        /\ Rank(j) \in DOMAIN stream[c]
        /\ log[j] = EventOf(stream[c][Rank(j)], c)

\* The first n frames of a stream but for those that get no answer.
Answerable(s, n) == {i \in 1..n : ~Malformed(s[i])}

\* rs holds the answers that the first n frames of s call for: one for each
\* well-formed frame, at the place of that frame among them.
AreAnswers(rs, s, n) ==
  /\ Len(rs) = Cardinality(Answerable(s, n))
  /\ \A i \in Answerable(s, n) :
       rs[Cardinality(Answerable(s, i))] = build_response(parse_frame(s[i]))

\* A master pairs answers with its requests: it gets exactly one per
\* well-formed frame, carrying that frame's transaction id, and never the
\* answer of a frame before the event of the previous one is printed.
RepliesFollowLog ==
  \A c \in Peers :
    LET n == NumLogged(c)
    IN  \/ AreAnswers(replies[c], stream[c], n)
        \/ /\ pc \in {"flag", "print", "exited"}
           /\ n < Len(stream[c])
           /\ AreAnswers(replies[c], stream[c], n + 1)

\* A complete frame is never silently dropped while the server goes on: at most
\* the frame in hand is not in the log, and that one is lost only with the
\* process.
OnlyFrameInHandUnlogged ==
  /\ Len(taken) - Len(log) \in {0, 1}
  /\ pc \in {"bind", "accept", "head", "rest"} => Len(taken) = Len(log)

\* Ctrl-C at any moment still reports what the log shows: a high-severity event
\* that reached stdout makes the exit status 1.
HighLoggedMeansStatus1 ==
  (\E i \in DOMAIN log : IsHigh(log[i])) =>
    saw_high /\ (outcome = "ctrl_c" => ExitStatus = 1)

\* The doc's claim (help text of `serve`): every request is logged.  Stopping
\* the server by hand and the loss of stdout may cost the frame in hand; an
\* answer that cannot be built or sent should not.
EveryRequestLogged ==
  pc = "exited" /\ outcome \notin {"ctrl_c", "no_stdout"} => Len(log) = Len(taken)

\* How many frames of its stream have arrived from a peer, complete.
Complete(c) == Cardinality({i \in DOMAIN stream[c] : arrived[c] >= End(stream[c], i)})

\* stdout is read: no print blocks for ever.
StdoutRead == []<>(pc # "print")

\* The thread is in sendall, for a peer that need not read its answers.
Blocked(c) == conn = c /\ pc = "answer" /\ ~Takes(c)

\* The thread never gives up on a frame that has fully arrived on a connection
\* it serves: as long as stdout is read, it prints the events of all of them,
\* also when the peer closes.  Only the end of the process keeps it from that,
\* or a peer that stays connected and takes no answers, for ever.
ArrivedFrameGetsLogged ==
  StdoutRead => \A c \in Peers :
    (conn = c) ~> \/ NumLogged(c) >= Complete(c)
                  \/ pc = "exited"
                  \/ []Blocked(c)

\* A probe and the honeypot each wait for the other's bytes and never wait for
\* each other at once: every request of a probe whose connection is served and
\* stays up is answered, those the honeypot does not implement included.
ProbeCompletes ==
  StdoutRead => \A c \in Peers :
    (conn = c /\ Probes(c)) ~>
      \/ Len(replies[c]) = Len(stream[c])
      \/ link[c] # "up"
      \/ pc = "exited"

\* No peer stays connected for ever.  A connection is made once, so it is enough
\* that there are always moments again at which nobody is connected.
PeersLeave == []<>(\A c \in Peers : link[c] # "up")

\* One thread serves everybody: as long as peers do not stay connected for
\* ever and stdout is read, whoever waits in the backlog, full or not, is
\* accepted, or the process ends.  A peer that blocks the thread in sendall
\* holds everybody up only until it leaves.
QueuedPeerGetsServed ==
  StdoutRead /\ PeersLeave => \A c \in Peers :
    (\E i \in DOMAIN backlog : backlog[i] = c) ~> (conn = c \/ pc = "exited")

-----------------------------------------------------------------------------
(* The server implements HoneypotLog. *)

Abstract == INSTANCE HoneypotLog WITH
              serving <- conn,
              seen    <- {c \in Peers : /\ link[c] # "none"
                                        /\ \A i \in DOMAIN backlog :
                                             backlog[i] # c},
              stopped <- (pc = "exited")

\* Chunked reads, the queue, answers and failures are invisible on stdout: the
\* printed log is that of a service which takes whole frames, one connection
\* after another.
ImplementsHoneypotLog == Abstract!Spec
=============================================================================
