------------------------------ MODULE ActiveProbe ------------------------------
(***************************************************************************)
(* `modlure probe`: Probe.run and Probe.probe_target of modlure/probe.py,  *)
(* the exit status _cmd_probe of modlure/cli.py makes of their results,    *)
(* and the devices at the other end.                                       *)
(*                                                                         *)
(* One thread probes a batch of targets, one connection at a time and      *)
(* three requests per connection, each answered before the next is sent.   *)
(* Time is counted in ticks of the monotonic clock.  It may pass between   *)
(* any two steps of the thread.                                            *)
(***************************************************************************)
EXTENDS Integers, Sequences, FiniteSets

CONSTANTS
  Targets,      \* host:port keys
  Scope,        \* those of the allowlist
  Batches,      \* the sequences of targets run() may be given
  Quantities,   \* values of the qty argument
  Rates,        \* values of the rate argument, in ticks
  Timeout,      \* --timeout in ticks, the limit of each recv
  TidMod,       \* 2^16 in the code: _next_tid masks with 0xFFFF
  Boots,        \* readings of the clock when the probe is created
  Horizon,      \* bound: idle time stops here
  MaxOdd,       \* bound: short, repeated and piecemeal answers in a run
  NoTarget

ASSUME TargetsAssumption == /\ Scope \subseteq Targets
                            /\ Batches \subseteq Seq(Targets)
                            /\ NoTarget \notin Targets
ASSUME TimeAssumption == /\ Rates \subseteq Int
                         /\ Timeout \in Nat \ {0}
                         /\ Horizon \in Nat
                         /\ Boots \subseteq Nat
ASSUME TidAssumption  == TidMod \in Nat /\ TidMod >= 3
ASSUME OtherAssumption == /\ Quantities \subseteq Int
                          /\ MaxOdd \in Nat

VARIABLES
  args,         \* what the probe was created and called with
  pc,           \* where the thread is
  i,            \* index in args.batch of the target at hand
  conn,         \* the target whose connection is open, or NoTarget
  peer,         \* the other end of it: up, or gone after closing
  inbox,        \* answers that have arrived and were not read
  asked,        \* transaction ids of the requests that reached the device
  answered,     \* how many of them it has answered
  tid,          \* _tid
  last_send,    \* _last_send
  now,          \* the clock
  wake,         \* when the sleep of _throttle is over
  deadline,     \* when the current recv times out
  odd,          \* short, repeated and piecemeal answers so far
  tids,         \* transaction ids of the three requests of this connection
  k,            \* which of them is being handled
  responses,    \* result["responses"]
  out,          \* the results so far
  repeats,      \* history: how often the device at the other end has sent an
                \* answer again, for each target of the batch
  sent          \* history: the requests sent, with target, tid, the stamp
                \* _throttle took for it and the time it left

deviceVars == <<peer, inbox, asked, answered, odd, repeats>>
timeVars   == <<now, last_send, wake, deadline>>
vars == <<args, pc, i, conn, deviceVars, tid, timeVars, tids, k, responses,
          out, sent>>

\* self.rate = max(0.0, float(rate))
Rate == IF args.rate < 0 THEN 0 ELSE args.rate

Target == args.batch[i]
InFlight == pc \in {"build", "throttle", "sleep", "stamp", "send", "read", "close"}
AtTarget == pc = "connect" \/ InFlight
Ended == pc \in {"done", "raised"}

-----------------------------------------------------------------------------
(* Time.  Idle time is bounded by Horizon; the ticks that end a sleep or a  *)
(* timeout always come.                                                     *)

AwaitingClock == \/ pc = "sleep" /\ now < wake
                 \/ pc = "read" /\ now < deadline

Tick ==
  /\ ~Ended
  /\ now < Horizon \/ AwaitingClock
  /\ now' = now + 1
  /\ UNCHANGED <<args, pc, i, conn, deviceVars, tid, last_send, wake, deadline,
                 tids, k, responses, out, sent>>

-----------------------------------------------------------------------------
(* The device.  It answers its requests in order, each under the transaction *)
(* id of that request, and may send an answer again.  An answer is a full    *)
(* one (interpret_response makes an error of it when it carries an exception *)
(* code) or one too short to interpret, which is also what read_response     *)
(* makes of one that the device breaks off after the header by closing.      *)

Tids  == 0..(TidMod - 1)
NoTid == -1
Kinds == {"full", "short"}

Answer(kind) ==
  /\ conn # NoTarget
  /\ peer = "up"
  /\ answered < Len(asked)
  /\ answered' = answered + 1
  /\ IF kind = "full" THEN odd' = odd ELSE odd < MaxOdd /\ odd' = odd + 1
  /\ inbox' = Append(inbox, [tid |-> asked[answered + 1], got |-> kind])
  /\ UNCHANGED <<args, pc, i, conn, peer, asked, repeats, tid, timeVars, tids, k,
                 responses, out, sent>>

Repeat ==
  /\ conn # NoTarget
  /\ peer = "up"
  /\ answered \in DOMAIN asked
  /\ odd < MaxOdd
  /\ odd' = odd + 1
  /\ repeats' = [repeats EXCEPT ![i] = @ + 1]
  /\ inbox' = Append(inbox, [tid |-> asked[answered], got |-> "full"])
  /\ UNCHANGED <<args, pc, i, conn, peer, asked, answered, tid, timeVars, tids,
                 k, responses, out, sent>>

DeviceCloses ==
  /\ conn # NoTarget
  /\ peer = "up"
  /\ peer' = "gone"
  /\ UNCHANGED <<args, pc, i, conn, inbox, asked, answered, odd, repeats, tid,
                 timeVars, tids, k, responses, out, sent>>

\* recv returned part of an answer, and the next recv has its own timeout.
Drip ==
  /\ pc = "read"
  /\ peer = "up"
  /\ inbox = <<>>
  /\ odd < MaxOdd
  /\ odd' = odd + 1
  /\ deadline' = now + Timeout
  /\ UNCHANGED <<args, pc, i, conn, peer, inbox, asked, answered, repeats, tid,
                 now, last_send, wake, tids, k, responses, out, sent>>

DeviceStep == \/ \E kind \in Kinds : Answer(kind)
              \/ Repeat \/ DeviceCloses \/ Drip

-----------------------------------------------------------------------------
(* run() *)

\* conn.close(): nothing that was sent or received on the connection remains.
DropSocket ==
  /\ conn' = NoTarget /\ peer' = "gone" /\ inbox' = <<>> /\ asked' = <<>>
  /\ answered' = 0 /\ deadline' = 0

\* An exception leaves run(): the `finally` of probe_target closes the
\* connection, and the results collected so far are never returned.
Raise ==
  /\ pc' = "raised"
  /\ DropSocket
  /\ UNCHANGED <<args, i, odd, repeats, tid, now, last_send, wake, tids, k, responses,
                 out, sent>>

\* _require_authorized
Unauthorized == pc = "start" /\ ~args.authorized /\ Raise

Start ==
  /\ pc = "start"
  /\ args.authorized
  /\ pc' = "next"
  /\ UNCHANGED <<args, i, conn, deviceVars, tid, timeVars, tids, k, responses,
                 out, sent>>

\* The result of the target at hand is appended and the loop goes on.
Report(result) ==
  /\ out' = Append(out, result)
  /\ i' = i + 1
  /\ pc' = "next"

Skip ==
  /\ pc = "next"
  /\ i <= Len(args.batch)
  /\ Target \notin Scope
  /\ Report([target |-> Target, status |-> "skipped", responses |-> <<>>])
  /\ UNCHANGED <<args, conn, deviceVars, tid, timeVars, tids, k, responses, sent>>

QtyInRange == args.qty >= 1 /\ args.qty <= 125

BadQty ==
  /\ pc = "next"
  /\ i <= Len(args.batch)
  /\ Target \in Scope
  /\ ~QtyInRange
  /\ Raise

\* Mutant of Admit: the allowlist is not consulted.
AdmitAnyTarget ==
  /\ pc = "next"
  /\ i <= Len(args.batch)
  /\ QtyInRange
  /\ pc' = "connect"
  /\ responses' = <<>>
  /\ UNCHANGED <<args, i, conn, deviceVars, tid, timeVars, tids, k, out, sent>>

Admit ==
  /\ pc = "next"
  /\ i <= Len(args.batch)
  /\ Target \in Scope
  /\ QtyInRange
  /\ pc' = "connect"
  /\ responses' = <<>>
  /\ UNCHANGED <<args, i, conn, deviceVars, tid, timeVars, tids, k, out, sent>>

Finish ==
  /\ pc = "next"
  /\ i > Len(args.batch)
  /\ pc' = "done"
  /\ UNCHANGED <<args, i, conn, deviceVars, tid, timeVars, tids, k, responses,
                 out, sent>>

-----------------------------------------------------------------------------
(* probe_target(): connecting and building the requests *)

\* create_connection raised OSError, a timeout included.
ConnectFails ==
  /\ pc = "connect"
  /\ Report([target |-> Target, status |-> "down", responses |-> <<>>])
  /\ UNCHANGED <<args, conn, deviceVars, tid, timeVars, tids, k, responses, sent>>

\* create_connection raised something else: a host name that cannot be encoded
\* is a UnicodeError, which is no OSError.
ConnectRaises == pc = "connect" /\ Raise

\* Mutant of ConnectOk: the throttle starts afresh with each connection.
ConnectForgetsLastSend ==
  /\ pc = "connect"
  /\ conn' = Target
  /\ peer' = "up"
  /\ last_send' = 0
  /\ pc' = "build"
  /\ UNCHANGED <<args, i, inbox, asked, answered, odd, repeats, tid, now, wake,
                 deadline, tids, k, responses, out, sent>>

ConnectOk ==
  /\ pc = "connect"
  /\ conn' = Target
  /\ peer' = "up"
  /\ pc' = "build"
  /\ UNCHANGED <<args, i, inbox, asked, answered, odd, repeats, tid, timeVars,
                 tids, k, responses, out, sent>>

\* Mutants of NextTid: the counter is not masked; it saturates.
NextTidUnmasked(t) == t + 1
NextTidSaturating(t) == IF t + 1 < TidMod THEN t + 1 ELSE t

NextTid(t) == (t + 1) % TidMod

\* The three requests are built, and take their transaction ids, before the
\* first one is sent.
BuildRequests ==
  /\ pc = "build"
  /\ args.fits
  /\ tids' = <<NextTid(tid), NextTid(NextTid(tid)), NextTid(NextTid(NextTid(tid)))>>
  /\ tid' = NextTid(NextTid(NextTid(tid)))
  /\ k' = 1
  /\ pc' = "throttle"
  /\ UNCHANGED <<args, i, conn, deviceVars, timeVars, responses, out, sent>>

\* The address or the unit id does not fit its field: struct.error.
BuildRaises == pc = "build" /\ ~args.fits /\ Raise

-----------------------------------------------------------------------------
(* _throttle() *)

NoThrottle ==
  /\ pc = "throttle"
  /\ Rate = 0
  /\ pc' = "send"
  /\ UNCHANGED <<args, i, conn, deviceVars, tid, timeVars, tids, k, responses,
                 out, sent>>

\* wait = rate - (now - last_send), slept only when positive.
Throttle ==
  /\ pc = "throttle"
  /\ Rate > 0
  /\ LET wait == Rate - (now - last_send)
     IN  /\ pc' = IF wait > 0 THEN "sleep" ELSE "stamp"
         /\ wake' = IF wait > 0 THEN now + wait ELSE wake
  /\ UNCHANGED <<args, i, conn, deviceVars, tid, now, last_send, deadline, tids,
                 k, responses, out, sent>>

Wake ==
  /\ pc = "sleep"
  /\ now >= wake
  /\ pc' = "stamp"
  /\ wake' = 0
  /\ UNCHANGED <<args, i, conn, deviceVars, tid, now, last_send, deadline, tids,
                 k, responses, out, sent>>

Stamp ==
  /\ pc = "stamp"
  /\ last_send' = now
  /\ pc' = "send"
  /\ UNCHANGED <<args, i, conn, deviceVars, tid, now, wake, deadline, tids, k,
                 responses, out, sent>>

-----------------------------------------------------------------------------
(* Sending one request and reading its answer *)

Send ==
  /\ pc = "send"
  /\ sent' = Append(sent, [target |-> conn, tid |-> tids[k],
                           stamp |-> last_send, at |-> now])
  /\ asked' = IF peer = "up" THEN Append(asked, tids[k]) ELSE asked
  /\ deadline' = now + Timeout
  /\ pc' = "read"
  /\ UNCHANGED <<args, i, conn, peer, inbox, answered, odd, repeats, tid, now,
                 last_send, wake, tids, k, responses, out>>

\* sendall timed out or the connection is broken: an OSError nothing catches.
SendFails == pc = "send" /\ Raise

\* interpret_response: the transaction id is that of the frame, whichever it
\* is, and nobody compares it with the request's.  A short frame has no fields.
Interpreted(frame) ==
  [query |-> k, tid |-> IF frame.got = "full" THEN frame.tid ELSE NoTid,
   got |-> frame.got]

EofResponse == [query |-> k, tid |-> NoTid, got |-> "eof"]

\* read_response took a frame, and the conversation goes on.
ReadAnswer ==
  /\ pc = "read"
  /\ inbox # <<>>
  /\ responses' = Append(responses, Interpreted(Head(inbox)))
  /\ inbox' = Tail(inbox)
  /\ deadline' = 0
  /\ IF k < 3 THEN pc' = "throttle" /\ k' = k + 1
              ELSE pc' = "close" /\ k' = k
  /\ UNCHANGED <<args, i, conn, peer, asked, answered, odd, repeats, tid, now,
                 last_send, wake, tids, out, sent>>

\* Mutants of ReadEof: the loop goes on after an EOF; the EOF is not reported.
ReadEofGoesOn ==
  /\ pc = "read"
  /\ inbox = <<>>
  /\ peer = "gone"
  /\ responses' = Append(responses, EofResponse)
  /\ IF k < 3 THEN pc' = "throttle" /\ k' = k + 1
              ELSE pc' = "close" /\ k' = k
  /\ UNCHANGED <<args, i, conn, deviceVars, tid, timeVars, tids, out, sent>>

ReadEofUnreported ==
  /\ pc = "read"
  /\ inbox = <<>>
  /\ peer = "gone"
  /\ pc' = "close"
  /\ UNCHANGED <<args, i, conn, deviceVars, tid, timeVars, tids, k, responses,
                 out, sent>>

ReadEof ==
  /\ pc = "read"
  /\ inbox = <<>>
  /\ peer = "gone"
  /\ responses' = Append(responses, EofResponse)
  /\ pc' = "close"
  /\ UNCHANGED <<args, i, conn, deviceVars, tid, timeVars, tids, k, out, sent>>

\* recv raised: an OSError that, unlike that of connect, nothing catches.
ReadReset == pc = "read" /\ peer = "gone" /\ Raise

\* Mutants of ReadTimeout: the timeout of connect is not kept for recv; a timeout
\* is noted and the next request sent, so that a late answer meets it.
ReadWaitsForEver == FALSE

ReadTimeoutGoesOn ==
  /\ pc = "read"
  /\ peer = "up"
  /\ inbox = <<>>
  /\ now >= deadline
  /\ responses' = Append(responses, EofResponse)
  /\ IF k < 3 THEN pc' = "throttle" /\ k' = k + 1
              ELSE pc' = "close" /\ k' = k
  /\ UNCHANGED <<args, i, conn, deviceVars, tid, timeVars, tids, out, sent>>

ReadTimeout ==
  /\ pc = "read"
  /\ peer = "up"
  /\ inbox = <<>>
  /\ now >= deadline
  /\ Raise

CloseConn ==
  /\ pc = "close"
  /\ DropSocket
  /\ Report([target |-> Target, status |-> "up", responses |-> responses])
  /\ UNCHANGED <<args, odd, repeats, tid, now, last_send, wake, tids, k, responses,
                 sent>>

\* Ctrl-C: KeyboardInterrupt is not handled on this path.
Interrupt == ~Ended /\ Raise

-----------------------------------------------------------------------------
Init ==
  /\ args \in [authorized : BOOLEAN, batch : Batches, qty : Quantities,
               fits : BOOLEAN, rate : Rates]
  /\ pc = "start"
  /\ i = 1
  /\ conn = NoTarget
  /\ peer = "gone"
  /\ inbox = <<>>
  /\ asked = <<>>
  /\ answered = 0
  /\ tid = 0
  /\ last_send = 0
  /\ now \in Boots
  /\ wake = 0
  /\ deadline = 0
  /\ odd = 0
  /\ repeats = [j \in DOMAIN args.batch |-> 0]
  /\ tids = <<0, 0, 0>>
  /\ k = 1
  /\ responses = <<>>
  /\ out = <<>>
  /\ sent = <<>>

ThreadStep ==
  \/ Unauthorized \/ Start \/ Skip \/ BadQty \/ Admit \/ Finish
  \/ ConnectFails \/ ConnectRaises \/ ConnectOk \/ BuildRequests \/ BuildRaises
  \/ NoThrottle \/ Throttle \/ Wake \/ Stamp
  \/ Send \/ SendFails \/ ReadAnswer \/ ReadEof \/ ReadReset \/ ReadTimeout
  \/ CloseConn

Next == ThreadStep \/ DeviceStep \/ Tick \/ Interrupt

Spec == Init /\ [][Next]_vars

\* The thread is scheduled and the clock runs; the device owes nothing.
Fairness == WF_vars(ThreadStep) /\ WF_vars(Tick)

FairSpec == Spec /\ Fairness

-----------------------------------------------------------------------------
(* _cmd_probe: `skipped` results do not count, and the status is 1 only when *)
(* no probed target could be reached.  An escaping exception exits with 1.   *)

Probed == {j \in DOMAIN out : out[j].status # "skipped"}

ExitStatus ==
  IF \/ pc = "raised"
     \/ Probed # {} /\ \A j \in Probed : out[j].status = "down"
    THEN 1 ELSE 0

-----------------------------------------------------------------------------
(* Properties *)

Pcs == {"start", "next", "connect", "build", "throttle", "sleep", "stamp",
        "send", "read", "close", "done", "raised"}
Outcomes == {"full", "short", "eof"}
Answers == [tid : Tids, got : Kinds]
Responses == [query : 1..3, tid : Tids \cup {NoTid}, got : Outcomes]
Results == [target : Targets, status : {"skipped", "down", "up"},
            responses : Seq(Responses)]
Requests == [target : Targets, tid : Tids, stamp : Nat, at : Nat]

\* Every variable has its type.
TypeOK ==
  /\ args \in [authorized : BOOLEAN, batch : Batches, qty : Quantities,
                fits : BOOLEAN, rate : Rates]
  /\ pc \in Pcs
  /\ i \in Nat \ {0}
  /\ conn \in Targets \cup {NoTarget}
  /\ peer \in {"up", "gone"}
  /\ inbox \in Seq(Answers)
  /\ asked \in Seq(Tids)
  /\ answered \in Nat
  /\ tid \in Tids
  /\ last_send \in Nat
  /\ now \in Nat
  /\ wake \in Nat
  /\ deadline \in Nat
  /\ odd \in 0..MaxOdd
  /\ repeats \in [DOMAIN args.batch -> Nat]
  /\ tids \in [1..3 -> Tids]
  /\ k \in 1..3
  /\ responses \in Seq(Responses)
  /\ out \in Seq(Results)
  /\ sent \in Seq(Requests)

\* The guarantee of the README's "gated four ways": whatever batch run() is
\* given, a connection exists only inside an authorized call with legal
\* arguments, to the target at hand, which the allowlist contains, and never
\* before or after that target's turn; no request ever left for another one.
OnlyAuthorizedScope ==
  /\ conn # NoTarget <=> InFlight
  /\ pc = "next" \/ AtTarget => args.authorized
  /\ AtTarget => /\ QtyInRange
                 /\ i \in DOMAIN args.batch
                 /\ Target \in Scope
  /\ InFlight => conn = Target
  /\ InFlight /\ pc # "build" => args.fits
  /\ \A j \in DOMAIN sent : sent[j].target \in Scope
  /\ sent # <<>> => args.authorized /\ args.fits

\* The rate limit over any stretch of a run, targets changing in between or
\* not: the n-th request after a given one leaves no earlier than n periods
\* after the instant _throttle let that one go.
RateLimit ==
  \A j, l \in DOMAIN sent :
    j <= l => sent[l].at >= sent[j].stamp + (l - j) * Rate

\* Why RateLimit is inductive.  The last stamp is already n periods after the
\* stamp of the request n places back; once _throttle has let the next one go
\* it is n + 1 periods after.
Ahead == IF pc = "send" THEN Len(sent) + 1 ELSE Len(sent)

PaceInv ==
  /\ RateLimit
  /\ last_send <= now
  /\ pc = "sleep" => wake >= last_send + Rate
  /\ pc = "stamp" => now >= last_send + Rate
  /\ \A j \in DOMAIN sent : last_send >= sent[j].stamp + (Ahead - j) * Rate

\* No two requests of a connection carry the same transaction id, also when
\* the 16-bit counter wraps in the middle of them.
TidsDistinct ==
  InFlight /\ pc # "build" =>
    \A a, b \in 1..3 : a # b => tids[a] # tids[b]

ConversationEnds(rs) ==
  /\ rs # <<>>
  /\ \A j \in DOMAIN rs : rs[j].query = j
  /\ \A j \in DOMAIN rs : rs[j].got = "eof" => j = Len(rs)
  /\ Len(rs) < 3 => rs[Len(rs)].got = "eof"

\* run() reports one result per target, in the order of the batch: skipped
\* exactly when out of scope, and for a reachable target three answers or
\* fewer with an EOF at the end.
ResultsFollowBatch ==
  /\ \A j \in DOMAIN out :
       /\ j \in DOMAIN args.batch
       /\ out[j].target = args.batch[j]
       /\ out[j].status = "skipped" <=> out[j].target \notin Scope
       /\ out[j].status = "up" => ConversationEnds(out[j].responses)
  /\ pc = "done" => Len(out) = Len(args.batch)

\* Responses in the first j results.
ReportedUpTo == LET n[j \in 0..Len(out)] ==
                      IF j = 0 THEN 0 ELSE n[j - 1] + Len(out[j].responses)
                IN  n

\* No request reaches a device unreported: what was sent is what the results
\* account for, plus at most the one whose answer is being waited for.
EverySentReported ==
  pc # "raised" => Len(sent) = ReportedUpTo[Len(out)]
                               + (IF InFlight THEN Len(responses) ELSE 0)
                               + (IF pc = "read" THEN 1 ELSE 0)

\* Nothing pairs an answer with its request but the order of arrival.  Still,
\* what a result shows was sent to the target of that result, on the same
\* connection, for the query it stands under or for an earlier one, and for an
\* earlier one only as far back as the device has repeated itself on that
\* connection: one that repeats nothing has each answer under its query,
\* whatever short or piecemeal answers it gave and however the device before
\* it behaved.
AnswersLagByRepeats ==
  \A j \in DOMAIN out : \A r \in DOMAIN out[j].responses :
    out[j].responses[r].got = "full" =>
      \E q \in 1..r :
        LET request == sent[ReportedUpTo[j - 1] + q]
        IN  /\ r - q <= repeats[j]
            /\ request.target = out[j].target
            /\ request.tid = out[j].responses[r].tid

\* A run always comes to an end, whatever the devices do, silence included.
RunEnds == <>Ended

\* The comment at the exit of _cmd_probe: non-zero if any authorized target
\* was unreachable.
AnyUnreachableIsNonZero ==
  pc = "done" /\ (\E j \in Probed : out[j].status = "down") => ExitStatus # 0
=============================================================================
