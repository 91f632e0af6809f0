-------------------------- MODULE ActiveProbe_proofs --------------------------
(***************************************************************************)
(* Proofs about ActiveProbe for every batch, rate, timeout and clock.      *)
(***************************************************************************)
EXTENDS ActiveProbe, WellFoundedInduction, TLAPS

-----------------------------------------------------------------------------
(* Types and authorization.  Neither is inductive alone: that `conn` and the *)
(* result of a target have their types rests on the index lying within the   *)
(* batch, which holds because a target's turn begins with that check.        *)

GateInv == TypeOK /\ OnlyAuthorizedScope

LEMMA NextTidType ==
  ASSUME NEW t \in Nat
  PROVE  NextTid(t) \in 0..(TidMod - 1)
BY TidAssumption DEF NextTid

LEMMA RateType ==
  ASSUME TypeOK
  PROVE  Rate \in Nat
<1>1. args.rate \in Rates
  BY DEF TypeOK
<1>2. args.rate \in Int
  BY <1>1, TimeAssumption
<1>3. QED
  BY <1>2 DEF Rate

LEMMA TargetType ==
  ASSUME TypeOK, i \in DOMAIN args.batch
  PROVE  Target \in Targets
<1>1. args.batch \in Seq(Targets)
  BY TargetsAssumption DEF TypeOK
<1>2. QED
  BY <1>1 DEF Target

\* Raise leaves every property of this section alone: it closes the connection
\* and changes nothing else.
LEMMA RaiseKeepsGate ==
  ASSUME GateInv, Raise
  PROVE  GateInv'
<1>1. TypeOK'
  BY DEF GateInv, Raise, DropSocket, TypeOK, Pcs
<1>2. OnlyAuthorizedScope'
  BY DEF GateInv, Raise, DropSocket, OnlyAuthorizedScope, InFlight, AtTarget,
         Target, QtyInRange
<1>3. QED
  BY <1>1, <1>2 DEF GateInv

LEMMA InitGate == Init => GateInv
<1> SUFFICES ASSUME Init PROVE GateInv
  OBVIOUS
<1>1. TypeOK
  BY TimeAssumption, TidAssumption, OtherAssumption DEF Init, TypeOK, Pcs, Tids
<1>2. OnlyAuthorizedScope
  BY DEF Init, OnlyAuthorizedScope, InFlight, AtTarget
<1>3. QED
  BY <1>1, <1>2 DEF GateInv

(* Counting one element of a function of naturals up keeps its type. *)
LEMMA CountedUp ==
  ASSUME NEW S, NEW f \in [S -> Nat], NEW x
  PROVE  [f EXCEPT ![x] = @ + 1] \in [S -> Nat]
<1>1. CASE x \in S
  <2>1. f[x] + 1 \in Nat
    BY <1>1
  <2>2. QED
    BY <2>1, Zenon
<1>2. CASE x \notin S
  BY <1>2
<1>3. QED
  BY <1>1, <1>2

LEMMA NextKeepsType ==
  ASSUME GateInv, [Next]_vars
  PROVE  TypeOK'
<1> USE DEF Pcs, deviceVars, timeVars
<1>0. TypeOK
  BY DEF GateInv
<1>1. CASE Tick
  BY <1>0, <1>1 DEF Tick, TypeOK
<1>2. CASE DeviceStep
  <2>1. ASSUME NEW kind \in Kinds, Answer(kind)
        PROVE  TypeOK'
    <3>1. asked[answered + 1] \in Tids
      BY <1>0, <2>1 DEF Answer, TypeOK
    <3>2. inbox' \in Seq(Answers)
      BY <1>0, <2>1, <3>1 DEF Answer, Answers, TypeOK
    <3>a. odd \in 0..MaxOdd /\ (odd' = odd \/ (odd < MaxOdd /\ odd' = odd + 1))
      BY <1>0, <2>1, Zenon DEF Answer, TypeOK
    <3>3. odd' \in 0..MaxOdd
      BY <3>a, OtherAssumption
    <3>4. /\ answered' \in Nat
          /\ UNCHANGED <<args, pc, i, conn, peer, asked, repeats, tid, timeVars, tids, k,
                          responses, out, sent>>
      BY <1>0, <2>1 DEF Answer, TypeOK
    <3>5. QED
      BY <1>0, <3>2, <3>3, <3>4 DEF TypeOK
  <2>5. CASE Repeat
    <3>1. asked[answered] \in Tids
      BY <1>0, <2>5 DEF Repeat, TypeOK
    <3>2. inbox' \in Seq(Answers)
      BY <1>0, <2>5, <3>1 DEF Repeat, Answers, Kinds, TypeOK
    <3>a. /\ repeats \in [DOMAIN args.batch -> Nat] /\ args' = args
          /\ repeats' = [repeats EXCEPT ![i] = @ + 1]
      BY <1>0, <2>5 DEF Repeat, TypeOK
    <3>3. repeats' \in [DOMAIN args'.batch -> Nat]
      BY <3>a, CountedUp
    <3>4. odd' \in 0..MaxOdd
      BY <1>0, <2>5, OtherAssumption DEF Repeat, TypeOK
    <3>5. UNCHANGED <<args, pc, i, conn, peer, asked, answered, tid, timeVars, tids,
                       k, responses, out, sent>>
      BY <2>5 DEF Repeat
    <3>6. QED
      BY <1>0, <3>2, <3>3, <3>4, <3>5 DEF TypeOK
  <2>2. CASE DeviceCloses
    BY <1>0, <2>2 DEF DeviceCloses, TypeOK
  <2>3. CASE Drip
    BY <1>0, <2>3, OtherAssumption, TimeAssumption DEF Drip, TypeOK
  <2>4. QED
    BY <1>2, <2>1, <2>2, <2>3, <2>5 DEF DeviceStep
<1>3. CASE Raise
  BY <1>3, RaiseKeepsGate DEF GateInv
<1>4. ASSUME NEW status \in {"skipped", "down", "up"},
             NEW rs \in Seq(Responses),
             i \in DOMAIN args.batch,
             Report([target |-> Target, status |-> status, responses |-> rs])
      PROVE  out' \in Seq(Results) /\ i' \in Nat \ {0} /\ pc' = "next"
  BY <1>0, <1>4, TargetType DEF Report, Results, TypeOK
<1>5. CASE Skip
  <2>1. i \in DOMAIN args.batch
    BY <1>0, <1>5, TargetsAssumption DEF Skip, TypeOK
  <2>2. Report([target |-> Target, status |-> "skipped", responses |-> <<>>])
    BY <1>5 DEF Skip
  <2>3. <<>> \in Seq(Responses)
    OBVIOUS
  <2>4. out' \in Seq(Results) /\ i' \in Nat \ {0} /\ pc' = "next"
    BY <1>4, <2>1, <2>2, <2>3
  <2>5. QED
    BY <1>0, <1>5, <2>4 DEF Skip, TypeOK
<1>6. CASE ConnectFails
  <2>1. i \in DOMAIN args.batch
    BY <1>6 DEF ConnectFails, GateInv, OnlyAuthorizedScope, AtTarget
  <2>2. Report([target |-> Target, status |-> "down", responses |-> <<>>])
    BY <1>6 DEF ConnectFails
  <2>3. <<>> \in Seq(Responses)
    OBVIOUS
  <2>4. out' \in Seq(Results) /\ i' \in Nat \ {0} /\ pc' = "next"
    BY <1>4, <2>1, <2>2, <2>3
  <2>5. QED
    BY <1>0, <1>6, <2>4 DEF ConnectFails, TypeOK
<1>7. CASE CloseConn
  <2>1. responses \in Seq(Responses) /\ i \in DOMAIN args.batch
    BY <1>7 DEF CloseConn, GateInv, TypeOK, OnlyAuthorizedScope, AtTarget,
                InFlight
  <2>2. out' \in Seq(Results) /\ i' \in Nat \ {0} /\ pc' = "next"
    BY <1>4, <1>7, <2>1 DEF CloseConn
  <2>3. QED
    BY <1>0, <1>7, <2>2 DEF CloseConn, DropSocket, TypeOK
<1>8. CASE Start
  BY <1>0, <1>8 DEF Start, TypeOK
<1>9. CASE Admit
  BY <1>0, <1>9 DEF Admit, TypeOK
<1>10. CASE Finish
  BY <1>0, <1>10 DEF Finish, TypeOK
<1>11. CASE ConnectOk
  <2>1. Target \in Targets
    BY <1>0, <1>11, TargetType DEF ConnectOk, GateInv, OnlyAuthorizedScope,
                                   AtTarget
  <2>2. QED
    BY <1>0, <1>11, <2>1 DEF ConnectOk, TypeOK
<1>12. CASE BuildRequests
  <2>1. tid \in Nat
    BY <1>0, TidAssumption DEF TypeOK, Tids
  <2>2. /\ NextTid(tid) \in 0..(TidMod - 1)
        /\ NextTid(NextTid(tid)) \in 0..(TidMod - 1)
        /\ NextTid(NextTid(NextTid(tid))) \in 0..(TidMod - 1)
    BY <2>1, NextTidType, TidAssumption
  <2>3. tids' \in [1..3 -> Tids]
    BY <1>12, <2>2 DEF BuildRequests, Tids
  <2>4. QED
    BY <1>0, <1>12, <2>2, <2>3 DEF BuildRequests, TypeOK, Tids
<1>13. CASE NoThrottle
  BY <1>0, <1>13 DEF NoThrottle, TypeOK
<1>14. CASE Throttle
  <2>1. Rate \in Nat
    BY <1>0, RateType
  <2>2. wake' \in Nat /\ pc' \in Pcs
    BY <1>0, <1>14, <2>1 DEF Throttle, TypeOK
  <2>3. QED
    BY <1>0, <1>14, <2>2 DEF Throttle, TypeOK
<1>15. CASE Wake
  BY <1>0, <1>15 DEF Wake, TypeOK
<1>16. CASE Stamp
  BY <1>0, <1>16 DEF Stamp, TypeOK
<1>17. CASE Send
  <2>1. conn \in Targets
    BY <1>0, <1>17 DEF Send, GateInv, TypeOK, OnlyAuthorizedScope, InFlight
  <2>2. tids[k] \in Tids
    BY <1>0 DEF TypeOK
  <2>3. sent' \in Seq(Requests)
    BY <1>0, <1>17, <2>1, <2>2 DEF Send, Requests, TypeOK
  <2>4. asked' \in Seq(Tids)
    BY <1>0, <1>17, <2>2 DEF Send, TypeOK
  <2>5. QED
    BY <1>0, <1>17, <2>3, <2>4, TimeAssumption DEF Send, TypeOK
<1>18. CASE ReadAnswer
  <2>1. Head(inbox) \in Answers
    BY <1>0, <1>18 DEF ReadAnswer, TypeOK
  <2>2. Interpreted(Head(inbox)) \in Responses
    BY <1>0, <2>1 DEF Interpreted, Answers, Kinds, Responses, Outcomes, TypeOK
  <2>3. responses' \in Seq(Responses)
    BY <1>0, <1>18, <2>2 DEF ReadAnswer, TypeOK
  <2>4. QED
    BY <1>0, <1>18, <2>3 DEF ReadAnswer, TypeOK
<1>19. CASE ReadEof
  <2>1. EofResponse \in Responses
    BY <1>0 DEF EofResponse, Responses, Outcomes, TypeOK
  <2>2. responses' \in Seq(Responses)
    BY <1>0, <1>19, <2>1 DEF ReadEof, TypeOK
  <2>3. QED
    BY <1>0, <1>19, <2>2 DEF ReadEof, TypeOK
<1>20. CASE UNCHANGED vars
  BY <1>0, <1>20 DEF vars, TypeOK
<1>21. QED
  BY <1>1, <1>2, <1>3, <1>5, <1>6, <1>7, <1>8, <1>9, <1>10, <1>11, <1>12,
     <1>13, <1>14, <1>15, <1>16, <1>17, <1>18, <1>19, <1>20
     DEF Next, ThreadStep, Unauthorized, BadQty, ConnectRaises, BuildRaises,
         SendFails, ReadReset, ReadTimeout, Interrupt

LEMMA NextKeepsScope ==
  ASSUME GateInv, [Next]_vars
  PROVE  OnlyAuthorizedScope'
<1> USE DEF InFlight, AtTarget, Target, QtyInRange, deviceVars, timeVars
<1>0. TypeOK /\ OnlyAuthorizedScope
  BY DEF GateInv
<1>1. CASE Tick
  BY <1>0, <1>1 DEF Tick, OnlyAuthorizedScope
<1>2. CASE DeviceStep
  BY <1>0, <1>2 DEF DeviceStep, Answer, Repeat, DeviceCloses, Drip,
                    OnlyAuthorizedScope
<1>3. CASE Raise
  BY <1>3, RaiseKeepsGate DEF GateInv
<1>4. CASE Skip \/ ConnectFails \/ CloseConn
  BY <1>0, <1>4 DEF Skip, ConnectFails, CloseConn, DropSocket, Report,
                    OnlyAuthorizedScope
<1>5. CASE Start \/ Admit \/ Finish
  <2>1. i <= Len(args.batch) => i \in DOMAIN args.batch
    BY <1>0, TargetsAssumption DEF TypeOK
  <2>2. QED
    BY <1>0, <1>5, <2>1 DEF Start, Admit, Finish, OnlyAuthorizedScope
<1>6. CASE ConnectOk
  <2>1. Target \in Targets /\ NoTarget \notin Targets
    BY <1>0, <1>6, TargetsAssumption DEF ConnectOk, OnlyAuthorizedScope
  <2>2. QED
    BY <1>0, <1>6, <2>1 DEF ConnectOk, OnlyAuthorizedScope
<1>7. CASE BuildRequests
  BY <1>0, <1>7 DEF BuildRequests, OnlyAuthorizedScope
<1>8. CASE NoThrottle \/ Throttle \/ Wake \/ Stamp
  BY <1>0, <1>8 DEF NoThrottle, Throttle, Wake, Stamp, OnlyAuthorizedScope
<1>9. CASE Send
  <2>1. conn \in Scope /\ args.authorized /\ args.fits
    BY <1>0, <1>9 DEF Send, OnlyAuthorizedScope
  <2> DEFINE r == [target |-> conn, tid |-> tids[k],
                   stamp |-> last_send, at |-> now]
  <2>2. sent' = Append(sent, r) /\ r.target = conn /\ sent \in Seq(Requests)
    BY <1>0, <1>9 DEF Send, TypeOK
  <2> HIDE DEF r
  <2>3. ASSUME NEW j \in DOMAIN sent'
        PROVE  sent'[j].target \in Scope
    <3>1. CASE j = Len(sent) + 1
      BY <2>1, <2>2, <3>1
    <3>2. CASE j # Len(sent) + 1
      BY <1>0, <2>2, <3>2 DEF OnlyAuthorizedScope
    <3>3. QED
      BY <3>1, <3>2
  <2>4. QED
    BY <1>0, <1>9, <2>1, <2>3 DEF Send, OnlyAuthorizedScope
<1>10. CASE ReadAnswer \/ ReadEof
  BY <1>0, <1>10 DEF ReadAnswer, ReadEof, OnlyAuthorizedScope
<1>11. CASE UNCHANGED vars
  BY <1>0, <1>11 DEF vars, OnlyAuthorizedScope
<1>12. QED
  BY <1>1, <1>2, <1>3, <1>4, <1>5, <1>6, <1>7, <1>8, <1>9, <1>10, <1>11
     DEF Next, ThreadStep, Unauthorized, BadQty, ConnectRaises, BuildRaises,
         SendFails, ReadReset, ReadTimeout, Interrupt

LEMMA GateInvariant == Spec => []GateInv
<1>1. GateInv /\ [Next]_vars => GateInv'
  BY NextKeepsType, NextKeepsScope DEF GateInv
<1>2. QED
  BY InitGate, <1>1, PTL DEF Spec

\* Every variable of the probe keeps its type.
THEOREM TypeCorrect == Spec => []TypeOK
<1>1. GateInv => TypeOK
  BY DEF GateInv
<1>2. QED
  BY <1>1, GateInvariant, PTL

\* Whatever run() is given, only authorized calls with legal arguments open a
\* connection, and only targets of the allowlist are ever sent a request.
THEOREM ScopeEnforced == Spec => []OnlyAuthorizedScope
<1>1. GateInv => OnlyAuthorizedScope
  BY DEF GateInv
<1>2. QED
  BY <1>1, GateInvariant, PTL

-----------------------------------------------------------------------------
(* The rate limit *)

LEMMA StampType ==
  ASSUME TypeOK, NEW j \in DOMAIN sent
  PROVE  sent[j].stamp \in Nat /\ Len(sent) \in Nat /\ j \in Nat
<1>1. sent \in Seq(Requests)
  BY DEF TypeOK
<1>2. sent[j] \in Requests /\ Len(sent) \in Nat /\ j \in Nat
  BY <1>1
<1>3. QED
  BY <1>2 DEF Requests

LEMMA OnePeriodMore ==
  ASSUME NEW r \in Nat, NEW n \in Int
  PROVE  (n + 1) * r = n * r + r
OBVIOUS

\* A step that sends nothing, takes no stamp and does not enter the throttle
\* keeps the pace; leaving the "send" label without sending only weakens it.
LEMMA QuietStepKeepsPace ==
  ASSUME TypeOK, TypeOK', PaceInv,
         UNCHANGED <<args, sent, last_send>>,
         now' >= now,
         pc' \notin {"sleep", "stamp", "send"}
  PROVE  PaceInv'
<1>1. Rate' = Rate /\ Rate \in Nat
  BY RateType DEF Rate
<1>2. RateLimit'
  BY <1>1 DEF PaceInv, RateLimit
<1>3. last_send' <= now'
  BY DEF PaceInv, TypeOK
<1>4. ASSUME NEW j \in DOMAIN sent
      PROVE  last_send >= sent[j].stamp + (Len(sent) - j) * Rate
  <2>1. sent[j].stamp \in Nat /\ Len(sent) \in Nat /\ j \in Nat /\ last_send \in Nat
    BY StampType DEF TypeOK
  <2>2. CASE pc = "send"
    <3>1. last_send >= sent[j].stamp + (Len(sent) + 1 - j) * Rate
      BY <2>2 DEF PaceInv, Ahead
    <3>2. ((Len(sent) - j) + 1) * Rate = (Len(sent) - j) * Rate + Rate
      BY <1>1, <2>1, OnePeriodMore
    <3>3. (Len(sent) + 1 - j) = (Len(sent) - j) + 1
      BY <2>1
    <3>4. (Len(sent) - j) * Rate \in Int
      BY <1>1, <2>1
    <3> DEFINE p == (Len(sent) - j) * Rate
    <3>5. last_send >= sent[j].stamp + (p + Rate) /\ p \in Int
      BY <3>1, <3>2, <3>3, <3>4
    <3> HIDE DEF p
    <3>6. last_send >= sent[j].stamp + p
      BY <1>1, <2>1, <3>5
    <3>7. QED
      BY <3>6 DEF p
  <2>3. CASE pc # "send"
    BY <2>3 DEF PaceInv, Ahead
  <2>4. QED
    BY <2>2, <2>3
<1>5. \A j \in DOMAIN sent' : last_send' >= sent'[j].stamp + (Ahead' - j) * Rate'
  BY <1>1, <1>4 DEF Ahead
<1>6. QED
  BY <1>2, <1>3, <1>5 DEF PaceInv

LEMMA SendKeepsPace ==
  ASSUME TypeOK, PaceInv, Send
  PROVE  PaceInv'
<1> DEFINE r == [target |-> conn, tid |-> tids[k], stamp |-> last_send, at |-> now]
           n == Len(sent)
<1>1. /\ sent' = Append(sent, r)
      /\ sent \in Seq(Requests)
      /\ r.stamp = last_send /\ r.at = now
      /\ n \in Nat
      /\ pc = "send" /\ pc' = "read"
      /\ UNCHANGED <<args, last_send, now>>
      /\ now \in Nat /\ last_send \in Nat /\ last_send <= now
  BY DEF Send, TypeOK, PaceInv
<1>2. Rate' = Rate /\ Rate \in Nat
  BY <1>1, RateType DEF Rate
<1> HIDE DEF r
<1>3. /\ DOMAIN sent = 1..n /\ DOMAIN sent' = 1..(n + 1) /\ Len(sent') = n + 1
      /\ \A j \in 1..n : sent'[j] = sent[j]
      /\ sent'[n + 1] = r
  BY <1>1
<1>4. ASSUME NEW j \in 1..(n + 1)
      PROVE  last_send >= sent'[j].stamp + (n + 1 - j) * Rate
  <2>1. CASE j = n + 1
    <3>1. (n + 1 - j) * Rate = 0
      BY <1>1, <1>2, <2>1
    <3>2. QED
      BY <1>1, <1>3, <2>1, <3>1
  <2>2. CASE j # n + 1
    <3>1. j \in 1..n /\ sent'[j] = sent[j]
      BY <1>1, <1>3, <2>2
    <3>2. Ahead = n + 1
      BY <1>1 DEF Ahead
    <3>3. \A x \in DOMAIN sent : last_send >= sent[x].stamp + (Ahead - x) * Rate
      BY DEF PaceInv
    <3> QED
      BY <1>3, <3>1, <3>2, <3>3
  <2>3. QED
    BY <2>1, <2>2
<1>5. ASSUME NEW j \in 1..(n + 1), NEW l \in 1..(n + 1), j <= l
      PROVE  sent'[l].at >= sent'[j].stamp + (l - j) * Rate
  <2>1. CASE l = n + 1
    <3> DEFINE p == (n + 1 - j) * Rate
    <3>1. last_send >= sent'[j].stamp + p
      BY <1>4
    <3>2. sent'[j].stamp \in Nat /\ p \in Int
      <4>1. j \in 1..n => sent[j].stamp \in Nat
        BY <1>3, StampType
      <4>2. QED
        BY <1>1, <1>2, <1>3, <4>1
    <3> HIDE DEF p
    <3>3. now >= sent'[j].stamp + p
      BY <1>1, <3>1, <3>2
    <3>4. QED
      BY <1>1, <1>3, <2>1, <3>3 DEF p
  <2>2. CASE l # n + 1
    <3>1. j \in 1..n /\ l \in 1..n
      BY <1>1, <1>5, <2>2
    <3>2. QED
      BY <1>3, <1>5, <3>1 DEF PaceInv, RateLimit
  <2>3. QED
    BY <2>1, <2>2
<1>6. RateLimit'
  BY <1>2, <1>3, <1>5 DEF RateLimit
<1>7. \A j \in DOMAIN sent' : last_send' >= sent'[j].stamp + (Ahead' - j) * Rate'
  BY <1>1, <1>2, <1>3, <1>4 DEF Ahead
<1>8. QED
  BY <1>1, <1>6, <1>7 DEF PaceInv

\* Taking the stamp is where a period is gained.
LEMMA StampKeepsPace ==
  ASSUME TypeOK, PaceInv, Stamp
  PROVE  PaceInv'
<1>1. Rate' = Rate /\ Rate \in Nat
  BY RateType DEF Rate, Stamp
<1>2. /\ UNCHANGED <<sent, now>> /\ last_send' = now
      /\ pc = "stamp" /\ pc' = "send"
      /\ now \in Nat /\ last_send \in Nat
      /\ now >= last_send + Rate
  BY DEF Stamp, PaceInv, TypeOK
<1>3. RateLimit'
  BY <1>1, <1>2 DEF PaceInv, RateLimit
<1>4. ASSUME NEW j \in DOMAIN sent
      PROVE  now >= sent[j].stamp + (Len(sent) + 1 - j) * Rate
  <2> DEFINE p == (Len(sent) - j) * Rate
  <2>1. sent[j].stamp \in Nat /\ Len(sent) \in Nat /\ j \in Nat
    BY StampType
  <2>2. last_send >= sent[j].stamp + p /\ p \in Int
    <3>1. Len(sent) - j \in Int
      BY <2>1
    <3>2. last_send >= sent[j].stamp + p
      BY <1>2 DEF PaceInv, Ahead
    <3> QED
      BY <1>1, <3>1, <3>2
  <2>3. (Len(sent) + 1 - j) * Rate = p + Rate
    <3>1. Len(sent) + 1 - j = (Len(sent) - j) + 1
      BY <2>1
    <3>2. QED
      BY <1>1, <2>1, <3>1, OnePeriodMore
  <2> HIDE DEF p
  <2>4. now >= sent[j].stamp + (p + Rate)
    BY <1>1, <1>2, <2>1, <2>2
  <2>5. QED
    BY <2>3, <2>4
<1>5. \A j \in DOMAIN sent' : last_send' >= sent'[j].stamp + (Ahead' - j) * Rate'
  BY <1>1, <1>2, <1>4 DEF Ahead
<1>6. QED
  BY <1>2, <1>3, <1>5 DEF PaceInv

\* Steps inside _throttle that change neither the stamp nor what was sent.
LEMMA ThrottleKeepsPace ==
  ASSUME TypeOK, PaceInv, NoThrottle \/ Throttle \/ Wake
  PROVE  PaceInv'
<1>1. Rate' = Rate /\ Rate \in Nat
  BY RateType DEF Rate, NoThrottle, Throttle, Wake, timeVars
<1>2. /\ UNCHANGED <<sent, last_send, now>> /\ pc # "send"
      /\ now \in Nat /\ last_send \in Nat /\ wake \in Nat /\ last_send <= now
  BY DEF NoThrottle, Throttle, Wake, timeVars, TypeOK, PaceInv
<1>3. RateLimit'
  BY <1>1, <1>2 DEF PaceInv, RateLimit
<1>4. pc' = "sleep" => wake' >= last_send' + Rate'
  BY <1>1, <1>2 DEF NoThrottle, Throttle, Wake
<1>5. pc' = "stamp" => now' >= last_send' + Rate'
  BY <1>1, <1>2 DEF NoThrottle, Throttle, Wake, PaceInv
<1>6. ASSUME NEW j \in DOMAIN sent
      PROVE  last_send' >= sent[j].stamp + (Ahead' - j) * Rate
  <2>1. CASE Rate = 0
    <3>1. Len(sent) \in Nat /\ j \in Nat /\ sent[j].stamp \in Nat
      BY StampType
    <3>2. (Len(sent) - j) * Rate = 0 /\ (Len(sent) + 1 - j) * Rate = 0
      BY <2>1, <3>1
    <3>3. last_send >= sent[j].stamp + 0
      BY <1>2, <3>2 DEF PaceInv, Ahead
    <3>4. QED
      BY <1>2, <3>1, <3>2, <3>3 DEF Ahead
  <2>2. CASE Rate # 0
    <3>1. pc' # "send"
      BY <2>2 DEF NoThrottle, Throttle, Wake
    <3>2. QED
      BY <1>2, <3>1 DEF PaceInv, Ahead
  <2>3. QED
    BY <2>1, <2>2
<1>7. QED
  BY <1>1, <1>2, <1>3, <1>4, <1>5, <1>6 DEF PaceInv

LEMMA InitPace == Init => PaceInv
<1> SUFFICES ASSUME Init PROVE PaceInv
  OBVIOUS
<1>1. now \in Nat
  BY TimeAssumption DEF Init
<1>2. QED
  BY <1>1 DEF Init, PaceInv, RateLimit

\* The clock may run in the middle of anything: it never takes pace away.
LEMMA TickKeepsPace ==
  ASSUME TypeOK, PaceInv, Tick
  PROVE  PaceInv'
<1>1. /\ UNCHANGED <<args, pc, sent, last_send, wake>> /\ now' = now + 1
      /\ now \in Nat /\ last_send \in Nat
  BY DEF Tick, TypeOK
<1>2. Rate' = Rate /\ Rate \in Nat /\ Ahead' = Ahead
  BY <1>1, RateType DEF Rate, Ahead
<1>3. RateLimit'
  BY <1>1, <1>2 DEF PaceInv, RateLimit
<1>4. QED
  BY <1>1, <1>2, <1>3 DEF PaceInv

LEMMA DeviceKeepsPace ==
  ASSUME TypeOK, PaceInv, DeviceStep
  PROVE  PaceInv'
<1>1. UNCHANGED <<args, pc, sent, last_send, now, wake>>
  BY DEF DeviceStep, Answer, Repeat, DeviceCloses, Drip, timeVars
<1>2. Rate' = Rate /\ Ahead' = Ahead
  BY <1>1 DEF Rate, Ahead
<1>3. QED
  BY <1>1, <1>2 DEF PaceInv, RateLimit

LEMMA NextKeepsPace ==
  ASSUME TypeOK, TypeOK', PaceInv, [Next]_vars
  PROVE  PaceInv'
<1>1. now \in Nat
  BY DEF TypeOK
<1>2. CASE Tick
  BY <1>2, TickKeepsPace
<1>3. CASE DeviceStep
  BY <1>3, DeviceKeepsPace
<1>4. CASE NoThrottle \/ Throttle \/ Wake
  BY <1>4, ThrottleKeepsPace
<1>5. CASE Stamp
  BY <1>5, StampKeepsPace
<1>6. CASE Send
  BY <1>6, SendKeepsPace
<1>7. CASE Raise
  BY <1>1, <1>7, QuietStepKeepsPace DEF Raise
<1>8. CASE \/ Start \/ Skip \/ Admit \/ Finish \/ ConnectFails \/ ConnectOk
           \/ BuildRequests \/ ReadAnswer \/ ReadEof \/ CloseConn
  <2>1. /\ UNCHANGED <<args, sent, last_send, now>>
        /\ pc' \notin {"sleep", "stamp", "send"}
    BY <1>8 DEF Start, Skip, Admit, Finish, ConnectFails, ConnectOk,
                BuildRequests, ReadAnswer, ReadEof, CloseConn, Report, timeVars
  <2>2. QED
    BY <1>1, <2>1, QuietStepKeepsPace
<1>9. CASE UNCHANGED vars
  <2>1. Rate' = Rate /\ Ahead' = Ahead
    BY <1>9 DEF vars, Rate, Ahead
  <2>2. QED
    BY <1>9, <2>1 DEF vars, timeVars, PaceInv, RateLimit
<1>10. QED
  BY <1>2, <1>3, <1>4, <1>5, <1>6, <1>7, <1>8, <1>9
     DEF Next, ThreadStep, Unauthorized, BadQty, ConnectRaises, BuildRaises,
         SendFails, ReadReset, ReadTimeout, Interrupt

\* The rate limit over every stretch of every run, across targets, timeouts and
\* whatever pauses the scheduler inserts: the n-th request after a given one
\* leaves at least n periods after the instant that one was let go.
THEOREM RateLimitHolds == Spec => []RateLimit
<1>1. TypeOK /\ TypeOK' /\ PaceInv /\ [Next]_vars => PaceInv'
  BY NextKeepsPace
<1>2. PaceInv => RateLimit
  BY DEF PaceInv
<1>3. QED
  BY InitPace, TypeCorrect, <1>1, <1>2, PTL DEF Spec

-----------------------------------------------------------------------------
(* Transaction ids *)

\* The masked counter goes round: only its greatest value is followed by 0.
LEMMA NextTidWraps ==
  ASSUME NEW t \in 0..(TidMod - 1)
  PROVE  NextTid(t) = IF t = TidMod - 1 THEN 0 ELSE t + 1
<1>1. TidMod \in Nat /\ TidMod >= 3 /\ t \in Nat
  BY TidAssumption
<1>2. CASE t = TidMod - 1
  <2>1. TidMod % TidMod = 0
    BY <1>1
  <2>2. QED
    BY <1>1, <1>2, <2>1 DEF NextTid
<1>3. CASE t # TidMod - 1
  <2>1. t + 1 \in 0..(TidMod - 1)
    BY <1>1, <1>3
  <2>2. (t + 1) % TidMod = t + 1
    BY <1>1, <2>1
  <2>3. QED
    BY <1>3, <2>2 DEF NextTid
<1>4. QED
  BY <1>2, <1>3

LEMMA ThreeTidsDiffer ==
  ASSUME NEW t \in 0..(TidMod - 1)
  PROVE  /\ NextTid(t) # NextTid(NextTid(t))
         /\ NextTid(t) # NextTid(NextTid(NextTid(t)))
         /\ NextTid(NextTid(t)) # NextTid(NextTid(NextTid(t)))
<1> DEFINE a == NextTid(t)
           b == NextTid(a)
           c == NextTid(b)
<1>1. TidMod \in Nat /\ TidMod >= 3 /\ t \in Nat
  BY TidAssumption
<1>2. a = (IF t = TidMod - 1 THEN 0 ELSE t + 1) /\ a \in 0..(TidMod - 1)
  BY <1>1, NextTidWraps
<1> HIDE DEF a
<1>3. b = (IF a = TidMod - 1 THEN 0 ELSE a + 1) /\ b \in 0..(TidMod - 1)
  BY <1>1, <1>2, NextTidWraps
<1> HIDE DEF b
<1>4. c = (IF b = TidMod - 1 THEN 0 ELSE b + 1)
  BY <1>1, <1>3, NextTidWraps
<1> HIDE DEF c
<1>5. a # b /\ a # c /\ b # c
  BY <1>1, <1>2, <1>3, <1>4
<1>6. QED
  BY <1>5 DEF a, b, c

LEMMA NextKeepsTids ==
  ASSUME TypeOK, TidsDistinct, [Next]_vars
  PROVE  TidsDistinct'
<1>1. CASE BuildRequests
  <2> DEFINE a == NextTid(tid)
             b == NextTid(a)
             c == NextTid(b)
  <2>1. a # b /\ a # c /\ b # c
    BY ThreeTidsDiffer DEF TypeOK, Tids
  <2>2. tids' = <<a, b, c>>
    BY <1>1 DEF BuildRequests
  <2> HIDE DEF a, b, c
  <2>3. \A x, y \in 1..3 : x # y => tids'[x] # tids'[y]
    <3>1. tids'[1] = a /\ tids'[2] = b /\ tids'[3] = c
      BY <2>2
    <3>2. QED
      BY <2>1, <3>1
  <2>4. QED
    BY <2>3 DEF TidsDistinct
<1>2. CASE \/ Tick \/ DeviceStep \/ NoThrottle \/ Throttle \/ Wake \/ Stamp
           \/ Send \/ ReadAnswer \/ ReadEof
  BY <1>2 DEF Tick, DeviceStep, Answer, Repeat, DeviceCloses, Drip, NoThrottle,
              Throttle, Wake, Stamp, Send, ReadAnswer, ReadEof, TidsDistinct,
              InFlight
<1>3. CASE \/ Raise \/ Start \/ Skip \/ Admit \/ Finish \/ ConnectFails
           \/ ConnectOk \/ CloseConn
  BY <1>3 DEF Raise, Start, Skip, Admit, Finish, ConnectFails, ConnectOk,
              CloseConn, Report, TidsDistinct, InFlight
<1>4. CASE UNCHANGED vars
  BY <1>4 DEF vars, TidsDistinct, InFlight
<1>5. QED
  BY <1>1, <1>2, <1>3, <1>4
     DEF Next, ThreadStep, Unauthorized, BadQty, ConnectRaises, BuildRaises,
         SendFails, ReadReset, ReadTimeout, Interrupt

\* The three requests of a connection never share a transaction id, wherever
\* the counter stands when they are built.
THEOREM TidsDiffer == Spec => []TidsDistinct
<1>1. Init => TidsDistinct
  BY DEF Init, TidsDistinct, InFlight
<1>2. TypeOK /\ TidsDistinct /\ [Next]_vars => TidsDistinct'
  BY NextKeepsTids
<1>3. QED
  BY <1>1, <1>2, TypeCorrect, PTL DEF Spec

-----------------------------------------------------------------------------
(* Induction over a set of naturals, and sums over the results of a run.    *)

LessOnNat == {ss \in Nat \X Nat : ss[1] < ss[2]}

LEMMA LessWellFounded == IsWellFoundedOn(LessOnNat, Nat)
BY NatLessThanWellFounded DEF OpToRel, LessOnNat

LEMMA SetInduction ==
  ASSUME NEW S, 0 \in S, \A n \in Nat : n \in S => n + 1 \in S
  PROVE  \A n \in Nat : n \in S
<1> DEFINE T == Nat \ S
<1>1. SUFFICES ASSUME T # {} PROVE FALSE
  OBVIOUS
<1>2. T \subseteq Nat
  OBVIOUS
<1>3. \E x \in T : \A y \in T : ~ (<<y, x>> \in LessOnNat)
  <2> HIDE DEF T
  <2> QED BY <1>1, <1>2, LessWellFounded, WFMin
<1>4. PICK x \in T : \A y \in T : ~ (<<y, x>> \in LessOnNat)
  BY <1>3
<1>5. x \in Nat /\ x \notin S /\ x # 0
  BY <1>4
<1>6. x - 1 \in Nat /\ x - 1 \notin S
  BY <1>5, SMT
<1>7. <<x - 1, x>> \in LessOnNat
  BY <1>5, <1>6 DEF LessOnNat
<1> QED BY <1>4, <1>6, <1>7

\* f counts the responses of the first j results of o.
Counts(f, o) ==
  f = [j \in 0..Len(o) |-> IF j = 0 THEN 0 ELSE f[j - 1] + Len(o[j].responses)]

LEMMA ReportedIsChosen == (\E f : Counts(f, out)) => Counts(ReportedUpTo, out)
BY Zenon DEF Counts, ReportedUpTo

LEMMA CountsEquations ==
  ASSUME NEW o \in Seq(Results), NEW f, Counts(f, o)
  PROVE  /\ f[0] = 0
         /\ \A j \in 1..Len(o) : f[j] = f[j - 1] + Len(o[j].responses)
<1>1. Len(o) \in Nat
  OBVIOUS
<1>2. \A j \in 0..Len(o) : f[j] = IF j = 0 THEN 0 ELSE f[j - 1] + Len(o[j].responses)
  BY Zenon DEF Counts
<1> QED
  BY <1>1, <1>2

LEMMA CountsExist ==
  ASSUME NEW o \in Seq(Results)
  PROVE  \E f : Counts(f, o)
<1> DEFINE UpTo(f, n) ==
             f = [j \in 0..n |-> IF j = 0 THEN 0 ELSE f[j - 1] + Len(o[j].responses)]
           S == {n \in Nat : \E f : UpTo(f, n)}
<1>1. 0 \in S
  <2> DEFINE f == [j \in 0..0 |-> 0]
  <2>1. UpTo(f, 0)
    OBVIOUS
  <2> QED
    BY <2>1, Zenon
<1>2. ASSUME NEW n \in Nat, n \in S PROVE n + 1 \in S
  <2>1. PICK f : UpTo(f, n)
    BY <1>2
  <2> DEFINE g == [j \in 0..(n + 1) |-> IF j = n + 1 THEN f[n] + Len(o[n + 1].responses)
                                                      ELSE f[j]]
  <2>2. \A j \in 0..n : f[j] = IF j = 0 THEN 0 ELSE f[j - 1] + Len(o[j].responses)
    BY <2>1, Zenon
  <2>3. ASSUME NEW j \in 0..(n + 1)
        PROVE  g[j] = IF j = 0 THEN 0 ELSE g[j - 1] + Len(o[j].responses)
    <3>1. CASE j = n + 1
      <4>1. j # 0 /\ j - 1 = n /\ n \in 0..(n + 1) /\ n # n + 1
        BY <3>1
      <4> QED
        BY <3>1, <4>1
    <3>2. CASE j # n + 1 /\ j # 0
      <4>1. j \in 0..n /\ j - 1 \in 0..(n + 1) /\ j - 1 # n + 1
        BY <3>2
      <4> QED
        BY <2>2, <3>2, <4>1
    <3>3. CASE j = 0
      <4>1. j \in 0..n /\ j # n + 1
        BY <3>3
      <4> QED
        BY <2>2, <3>3, <4>1
    <3> QED
      BY <3>1, <3>2, <3>3
  <2>4. UpTo(g, n + 1)
    <3>1. g = [j \in 0..(n + 1) |-> g[j]]
      OBVIOUS
    <3> QED
      BY <2>3, <3>1, Zenon
  <2>5. \E h : UpTo(h, n + 1)
    <3> HIDE DEF g, UpTo
    <3> QED
      BY <2>4, Zenon
  <2>6. n + 1 \in Nat
    OBVIOUS
  <2> QED
    BY <2>5, <2>6, Zenon
<1>3. \A n \in Nat : n \in S
  <2> HIDE DEF S
  <2> QED
    BY <1>1, <1>2, SetInduction
<1>4. \E f : UpTo(f, Len(o))
  <2>1. Len(o) \in Nat
    OBVIOUS
  <2> QED
    BY <1>3, <2>1, Zenon
<1> QED
  BY <1>4, Zenon DEF Counts

LEMMA CountsAgree ==
  ASSUME NEW o \in Seq(Results), NEW x \in Results, NEW f, NEW g,
         Counts(f, o), Counts(g, Append(o, x))
  PROVE  /\ \A j \in 0..Len(o) : g[j] = f[j]
         /\ g[Len(o) + 1] = f[Len(o)] + Len(x.responses)
<1> DEFINE p == Append(o, x)
           S == {n \in Nat : n <= Len(o) => g[n] = f[n]}
<1>1. /\ p \in Seq(Results) /\ Len(p) = Len(o) + 1 /\ Len(o) \in Nat
      /\ \A j \in 1..Len(o) : p[j] = o[j]
      /\ p[Len(o) + 1] = x
  OBVIOUS
<1>2. /\ f[0] = 0
      /\ \A j \in 1..Len(o) : f[j] = f[j - 1] + Len(o[j].responses)
  BY CountsEquations
<1>3. /\ g[0] = 0
      /\ \A j \in 1..Len(p) : g[j] = g[j - 1] + Len(p[j].responses)
  <2> HIDE DEF p
  <2> QED
    BY <1>1, CountsEquations DEF p
<1> HIDE DEF p
<1>4. 0 \in S
  BY <1>2, <1>3
<1>5. ASSUME NEW n \in Nat, n \in S PROVE n + 1 \in S
  <2>1. SUFFICES ASSUME n + 1 <= Len(o) PROVE g[n + 1] = f[n + 1]
    OBVIOUS
  <2>2. n + 1 \in 1..Len(o) /\ n + 1 \in 1..Len(p) /\ (n + 1) - 1 = n /\ g[n] = f[n]
    BY <1>1, <1>5, <2>1
  <2> QED
    BY <1>1, <1>2, <1>3, <2>2
<1>6. \A n \in Nat : n \in S
  <2> HIDE DEF S
  <2> QED
    BY <1>4, <1>5, SetInduction
<1>7. \A j \in 0..Len(o) : g[j] = f[j]
  BY <1>1, <1>6
<1>8. g[Len(o) + 1] = f[Len(o)] + Len(x.responses)
  <2>1. Len(o) + 1 \in 1..Len(p) /\ (Len(o) + 1) - 1 = Len(o) /\ Len(o) \in 0..Len(o)
    BY <1>1
  <2> QED
    BY <1>1, <1>3, <1>7, <2>1
<1> QED
  BY <1>7, <1>8

LEMMA CountsType ==
  ASSUME NEW o \in Seq(Results), NEW f, Counts(f, o)
  PROVE  \A j \in 0..Len(o) : f[j] \in Nat
<1> DEFINE S == {n \in Nat : n <= Len(o) => f[n] \in Nat}
<1>1. Len(o) \in Nat
  OBVIOUS
<1>2. /\ f[0] = 0
      /\ \A j \in 1..Len(o) : f[j] = f[j - 1] + Len(o[j].responses)
  BY CountsEquations
<1>3. 0 \in S
  BY <1>2
<1>4. ASSUME NEW n \in Nat, n \in S PROVE n + 1 \in S
  <2>1. SUFFICES ASSUME n + 1 <= Len(o) PROVE f[n + 1] \in Nat
    OBVIOUS
  <2>2. n + 1 \in 1..Len(o) /\ (n + 1) - 1 = n /\ f[n] \in Nat
    BY <1>1, <1>4, <2>1
  <2>3. Len(o[n + 1].responses) \in Nat
    BY <2>2 DEF Results
  <2> QED
    BY <1>2, <2>2, <2>3
<1>5. \A n \in Nat : n \in S
  <2> HIDE DEF S
  <2> QED
    BY <1>3, <1>4, SetInduction
<1> QED
  BY <1>1, <1>5

\* What the proofs need to know of ReportedUpTo.
LEMMA ReportedFacts ==
  ASSUME TypeOK
  PROVE  /\ ReportedUpTo[0] = 0
         /\ \A j \in 0..Len(out) : ReportedUpTo[j] \in Nat
         /\ \A j \in 1..Len(out) :
              ReportedUpTo[j] = ReportedUpTo[j - 1] + Len(out[j].responses)
<1>1. out \in Seq(Results) /\ Counts(ReportedUpTo, out)
  BY CountsExist, ReportedIsChosen DEF TypeOK
<1> QED
  BY <1>1, CountsEquations, CountsType

LEMMA ReportedAppended ==
  ASSUME TypeOK, NEW x \in Results, out' = Append(out, x)
  PROVE  /\ \A j \in 0..Len(out) : ReportedUpTo'[j] = ReportedUpTo[j]
         /\ ReportedUpTo'[Len(out) + 1] = ReportedUpTo[Len(out)] + Len(x.responses)
<1>1. out \in Seq(Results) /\ Append(out, x) \in Seq(Results)
  BY DEF TypeOK
<1>2. Counts(ReportedUpTo, out)
  BY <1>1, CountsExist, ReportedIsChosen
<1>3. (\E f : Counts(f, out')) => Counts(ReportedUpTo', out')
  BY Zenon DEF Counts, ReportedUpTo
<1>4. Counts(ReportedUpTo', Append(out, x))
  BY <1>1, <1>3, CountsExist
<1> QED
  BY <1>1, <1>2, <1>4, CountsAgree

LEMMA ReportedKept ==
  ASSUME UNCHANGED out
  PROVE  ReportedUpTo' = ReportedUpTo
BY Zenon DEF ReportedUpTo

-----------------------------------------------------------------------------
(* One conversation, and the results of those that are over.               *)

Conversing == {"throttle", "sleep", "stamp", "send", "read"}

\* The responses of the conversation at hand answer its first requests, and an
\* end of file is the last of them.
TalkInv ==
  /\ \A j \in DOMAIN responses : responses[j].query = j
  /\ pc \in {"connect", "build"} => responses = <<>>
  /\ pc \in Conversing => /\ Len(responses) = k - 1
                          /\ \A j \in DOMAIN responses : responses[j].got # "eof"
  /\ pc = "close" => ConversationEnds(responses)

\* One result per target that had its turn.
OneResultEach ==
  \A j \in DOMAIN out :
    /\ j \in DOMAIN args.batch
    /\ out[j].target = args.batch[j]
    /\ out[j].status = "skipped" <=> out[j].target \notin Scope
    /\ out[j].status = "up" => ConversationEnds(out[j].responses)

BatchInv ==
  /\ Len(out) = i - 1
  /\ i <= Len(args.batch) + 1
  /\ pc = "done" => i = Len(args.batch) + 1
  /\ OneResultEach

\* The requests sent on the connection at hand.
Asking == Len(responses) + (IF pc = "read" THEN 1 ELSE 0)

\* The position of the first of them in the history.
Base == ReportedUpTo[Len(out)]

\* Those requests, as the history has them and as the device got them: all of
\* them unless the device has closed.
Requested ==
  \A q \in 1..Asking : sent[Base + q].target = conn /\ sent[Base + q].tid = tids[q]

Delivered ==
  /\ Len(asked) <= Asking
  /\ peer = "up" => Len(asked) = Asking
  /\ answered <= Len(asked)
  /\ \A q \in DOMAIN asked : asked[q] = tids[q]

\* How often the device at the other end has repeated itself.
Again == IF i \in DOMAIN args.batch THEN repeats[i] ELSE 0

\* The answers that came, those read included, exceed the requests answered by
\* no more than that ...
Arrived == Len(responses) + Len(inbox)

Surplus == peer = "up" => answered <= Arrived /\ Arrived - answered <= Again

\* ... and an answer is no more places late than that.
LateBy(n, ids, answer, place) ==
  answer.got = "full" =>
    \E q \in 1..place : place - q <= n /\ q <= 3 /\ answer.tid = ids[q]

Late ==
  /\ \A r \in DOMAIN responses : LateBy(Again, tids, responses[r], r)
  /\ \A x \in DOMAIN inbox : LateBy(Again, tids, inbox[x], Len(responses) + x)

WireInv ==
  /\ ~InFlight \/ pc = "build" => inbox = <<>> /\ asked = <<>> /\ answered = 0
  /\ InFlight /\ pc # "build" => Requested /\ Delivered /\ Surplus /\ Late

\* AnswersLagByRepeats, with the request known to be in the history.
LagInv ==
  \A j \in DOMAIN out : \A r \in DOMAIN out[j].responses :
    out[j].responses[r].got = "full" =>
      \E q \in 1..r :
        LET n == ReportedUpTo[j - 1] + q
        IN  /\ r - q <= repeats[j]
            /\ n \in DOMAIN sent
            /\ sent[n].target = out[j].target
            /\ sent[n].tid = out[j].responses[r].tid

AnswerInv == TalkInv /\ BatchInv /\ EverySentReported /\ WireInv /\ LagInv

LEMMA StepsOf ==
  [Next]_vars => \/ Tick \/ DeviceStep \/ Raise \/ Start \/ Skip \/ Admit \/ Finish
                 \/ ConnectFails \/ ConnectOk \/ BuildRequests
                 \/ NoThrottle \/ Throttle \/ Wake \/ Stamp
                 \/ Send \/ ReadAnswer \/ ReadEof \/ CloseConn
                 \/ UNCHANGED vars
BY DEF Next, ThreadStep, Unauthorized, BadQty, ConnectRaises, BuildRaises,
       SendFails, ReadReset, ReadTimeout, Interrupt

\* What one more response does to the list.
LEMMA ResponseAppended ==
  ASSUME NEW rs \in Seq(Responses), NEW r \in Responses
  PROVE  /\ Append(rs, r) \in Seq(Responses)
         /\ Len(rs) \in Nat /\ Len(Append(rs, r)) = Len(rs) + 1
         /\ DOMAIN rs = 1..Len(rs) /\ DOMAIN Append(rs, r) = 1..(Len(rs) + 1)
         /\ \A j \in 1..Len(rs) : Append(rs, r)[j] = rs[j]
         /\ Append(rs, r)[Len(rs) + 1] = r
OBVIOUS

LEMMA AnswerRead ==
  ASSUME TypeOK, ReadAnswer
  PROVE  /\ Interpreted(Head(inbox)) \in Responses
         /\ Interpreted(Head(inbox)).query = k
         /\ Interpreted(Head(inbox)).got # "eof"
<1>1. Head(inbox) \in Answers
  BY DEF ReadAnswer, TypeOK
<1>2. Head(inbox).got \in Kinds /\ Head(inbox).tid \in Tids
  BY <1>1 DEF Answers
<1> QED
  BY <1>2 DEF Interpreted, Kinds, Responses, Outcomes, TypeOK

LEMMA EofTyped ==
  ASSUME TypeOK
  PROVE  EofResponse \in Responses /\ EofResponse.query = k /\ EofResponse.got = "eof"
BY DEF EofResponse, Responses, Outcomes, TypeOK

LEMMA ReadAnswerKeepsTalk ==
  ASSUME TypeOK, TalkInv, ReadAnswer
  PROVE  TalkInv'
<1>0. PICK r \in Responses : r = Interpreted(Head(inbox))
  BY AnswerRead
<1>1. /\ pc = "read" /\ responses' = Append(responses, r)
      /\ \/ k < 3 /\ pc' = "throttle" /\ k' = k + 1
         \/ ~(k < 3) /\ pc' = "close" /\ k' = k
      /\ responses \in Seq(Responses) /\ k \in 1..3
      /\ r.query = k /\ r.got # "eof"
  BY <1>0, AnswerRead DEF ReadAnswer, TypeOK
<1>2. /\ Len(responses) = k - 1
      /\ \A j \in DOMAIN responses : responses[j].got # "eof" /\ responses[j].query = j
  BY <1>1 DEF TalkInv, Conversing
<1>3. /\ Len(responses') = k /\ DOMAIN responses' = 1..k
      /\ \A j \in 1..k : responses'[j].query = j /\ responses'[j].got # "eof"
  <2>1. /\ Len(responses') = Len(responses) + 1 /\ DOMAIN responses' = 1..(Len(responses) + 1)
        /\ \A j \in 1..Len(responses) : responses'[j] = responses[j]
        /\ responses'[Len(responses) + 1] = r
        /\ DOMAIN responses = 1..Len(responses)
    BY <1>1, ResponseAppended
  <2>2. Len(responses) + 1 = k
    BY <1>1, <1>2
  <2>3. ASSUME NEW j \in 1..k PROVE responses'[j].query = j /\ responses'[j].got # "eof"
    <3>1. CASE j = k
      BY <1>1, <2>1, <2>2, <3>1
    <3>2. CASE j # k
      <4>1. j \in 1..Len(responses)
        BY <1>1, <1>2, <3>2
      <4> QED
        BY <1>2, <2>1, <4>1
    <3> QED
      BY <3>1, <3>2
  <2> QED
    BY <2>1, <2>2, <2>3
<1>4. CASE k < 3
  BY <1>1, <1>3, <1>4 DEF TalkInv, Conversing
<1>5. CASE ~(k < 3)
  <2>1. k = 3 /\ pc' = "close"
    BY <1>1, <1>5
  <2>2. ConversationEnds(responses')
    BY <1>3, <2>1 DEF ConversationEnds
  <2> QED
    BY <1>3, <2>1, <2>2 DEF TalkInv, Conversing
<1> QED
  BY <1>4, <1>5

LEMMA ReadEofKeepsTalk ==
  ASSUME TypeOK, TalkInv, ReadEof
  PROVE  TalkInv'
<1>0. PICK r \in Responses : r = EofResponse
  BY EofTyped
<1>1. /\ pc = "read" /\ responses' = Append(responses, r) /\ pc' = "close"
      /\ responses \in Seq(Responses) /\ k \in 1..3
      /\ r.query = k /\ r.got = "eof"
  BY <1>0, EofTyped DEF ReadEof, TypeOK
<1>2. /\ Len(responses) = k - 1
      /\ \A j \in DOMAIN responses : responses[j].got # "eof" /\ responses[j].query = j
  BY <1>1 DEF TalkInv, Conversing
<1>3. /\ Len(responses') = k /\ DOMAIN responses' = 1..k
      /\ \A j \in 1..k : responses'[j].query = j /\ (responses'[j].got = "eof" <=> j = k)
  <2>1. /\ Len(responses') = Len(responses) + 1 /\ DOMAIN responses' = 1..(Len(responses) + 1)
        /\ \A j \in 1..Len(responses) : responses'[j] = responses[j]
        /\ responses'[Len(responses) + 1] = r
        /\ DOMAIN responses = 1..Len(responses)
    BY <1>1, ResponseAppended
  <2>2. Len(responses) + 1 = k
    BY <1>1, <1>2
  <2>3. ASSUME NEW j \in 1..k
        PROVE  responses'[j].query = j /\ (responses'[j].got = "eof" <=> j = k)
    <3>1. CASE j = k
      BY <1>1, <2>1, <2>2, <3>1
    <3>2. CASE j # k
      <4>1. j \in 1..Len(responses)
        BY <1>1, <1>2, <3>2
      <4> QED
        BY <1>2, <2>1, <3>2, <4>1
    <3> QED
      BY <3>1, <3>2
  <2> QED
    BY <2>1, <2>2, <2>3
<1>4. ConversationEnds(responses')
  <2>1. responses' # <<>> /\ responses'[Len(responses')].got = "eof"
    BY <1>1, <1>3
  <2> QED
    BY <1>3, <2>1 DEF ConversationEnds
<1> QED
  BY <1>1, <1>3, <1>4 DEF TalkInv, Conversing

LEMMA NextKeepsTalk ==
  ASSUME TypeOK, TalkInv, [Next]_vars
  PROVE  TalkInv'
<1>1. CASE Tick \/ DeviceStep \/ UNCHANGED vars
  <2>1. UNCHANGED <<pc, k, responses>>
    BY <1>1 DEF Tick, DeviceStep, Answer, Repeat, DeviceCloses, Drip, vars
  <2> QED
    BY <2>1 DEF TalkInv, Conversing, ConversationEnds
<1>2. CASE \/ Raise \/ Start \/ Skip \/ Finish \/ ConnectFails \/ CloseConn
  <2>1. UNCHANGED responses /\ pc' \in {"raised", "next", "done"}
    BY <1>2 DEF Raise, Start, Skip, Finish, ConnectFails, CloseConn, Report
  <2> QED
    BY <2>1 DEF TalkInv, Conversing
<1>3. CASE Admit
  BY <1>3 DEF Admit, TalkInv, Conversing
<1>4. CASE ConnectOk
  BY <1>4 DEF ConnectOk, TalkInv, Conversing
<1>5. CASE BuildRequests
  <2>1. responses' = <<>> /\ k' = 1 /\ pc' = "throttle"
    BY <1>5 DEF BuildRequests, TalkInv
  <2> QED
    BY <2>1 DEF TalkInv, Conversing
<1>6. CASE NoThrottle \/ Throttle \/ Wake \/ Stamp \/ Send
  <2>1. pc \in Conversing /\ pc' \in Conversing /\ UNCHANGED <<k, responses>>
    BY <1>6 DEF NoThrottle, Throttle, Wake, Stamp, Send, Conversing
  <2> QED
    BY <2>1 DEF TalkInv, Conversing
<1>7. CASE ReadAnswer
  BY <1>7, ReadAnswerKeepsTalk
<1>8. CASE ReadEof
  BY <1>8, ReadEofKeepsTalk
<1> QED
  BY <1>1, <1>2, <1>3, <1>4, <1>5, <1>6, <1>7, <1>8, StepsOf

-----------------------------------------------------------------------------
(* Results and the batch *)

LEMMA BatchTyped ==
  ASSUME TypeOK
  PROVE  Len(args.batch) \in Nat /\ DOMAIN args.batch = 1..Len(args.batch)
<1>1. args.batch \in Seq(Targets)
  BY TargetsAssumption DEF TypeOK
<1> QED
  BY <1>1

LEMMA ResultAppended ==
  ASSUME TypeOK, NEW x \in Results, out' = Append(out, x)
  PROVE  /\ Len(out) \in Nat /\ Len(out') = Len(out) + 1
         /\ DOMAIN out = 1..Len(out) /\ DOMAIN out' = 1..(Len(out) + 1)
         /\ \A j \in 1..Len(out) : out'[j] = out[j]
         /\ out'[Len(out) + 1] = x
BY DEF TypeOK

LEMMA ReportKeepsBatch ==
  ASSUME TypeOK, BatchInv, i \in DOMAIN args.batch, UNCHANGED args, pc' = "next",
         NEW x \in Results, out' = Append(out, x), i' = i + 1,
         x.target = Target,
         x.status = "skipped" <=> Target \notin Scope,
         x.status = "up" => ConversationEnds(x.responses)
  PROVE  BatchInv'
<1>1. Len(args.batch) \in Nat /\ DOMAIN args.batch = 1..Len(args.batch) /\ i \in Nat
  BY BatchTyped DEF TypeOK
<1>2. /\ Len(out) \in Nat /\ Len(out') = Len(out) + 1
      /\ DOMAIN out = 1..Len(out) /\ DOMAIN out' = 1..(Len(out) + 1)
      /\ \A j \in 1..Len(out) : out'[j] = out[j]
      /\ out'[Len(out) + 1] = x
  BY ResultAppended
<1>3. Len(out) = i - 1
  BY DEF BatchInv
<1>4. Len(out') = i' - 1 /\ i' <= Len(args'.batch) + 1 /\ pc' # "done"
  BY <1>1, <1>2, <1>3
<1>5. ASSUME NEW j \in DOMAIN out'
      PROVE  /\ j \in DOMAIN args.batch
             /\ out'[j].target = args.batch[j]
             /\ out'[j].status = "skipped" <=> out'[j].target \notin Scope
             /\ out'[j].status = "up" => ConversationEnds(out'[j].responses)
  <2>1. CASE j = Len(out) + 1
    <3>1. j = i /\ out'[j] = x
      BY <1>1, <1>2, <1>3, <2>1
    <3> QED
      BY <3>1 DEF Target
  <2>2. CASE j # Len(out) + 1
    <3>1. j \in DOMAIN out /\ out'[j] = out[j]
      BY <1>2, <2>2
    <3> QED
      BY <3>1 DEF BatchInv, OneResultEach
  <2> QED
    BY <2>1, <2>2
<1>6. OneResultEach'
  BY <1>5 DEF OneResultEach
<1> QED
  BY <1>4, <1>6 DEF BatchInv

LEMMA SettledBatchKept ==
  ASSUME BatchInv, UNCHANGED <<args, i, out>>,
         pc' = "done" => i = Len(args.batch) + 1
  PROVE  BatchInv'
BY DEF BatchInv, OneResultEach

\* The results that Skip, ConnectFails and CloseConn report.
LEMMA ResultsTyped ==
  ASSUME TypeOK, i \in DOMAIN args.batch
  PROVE  /\ [target |-> Target, status |-> "skipped", responses |-> <<>>] \in Results
         /\ [target |-> Target, status |-> "down", responses |-> <<>>] \in Results
         /\ [target |-> Target, status |-> "up", responses |-> responses] \in Results
<1>1. Target \in Targets /\ responses \in Seq(Responses)
  BY TargetType DEF TypeOK
<1>2. <<>> \in Seq(Responses)
  OBVIOUS
<1> QED
  BY <1>1, <1>2 DEF Results

LEMMA NextKeepsBatch ==
  ASSUME GateInv, TalkInv, BatchInv, [Next]_vars
  PROVE  BatchInv'
<1>0. TypeOK /\ OnlyAuthorizedScope
  BY DEF GateInv
<1>1. CASE Tick \/ DeviceStep \/ UNCHANGED vars
  <2>1. UNCHANGED <<args, i, out, pc>>
    BY <1>1 DEF Tick, DeviceStep, Answer, Repeat, DeviceCloses, Drip, vars
  <2> QED
    BY <2>1, SettledBatchKept DEF BatchInv
<1>2. CASE \/ Raise \/ Start \/ Admit \/ ConnectOk \/ BuildRequests \/ NoThrottle
           \/ Throttle \/ Wake \/ Stamp \/ Send \/ ReadAnswer \/ ReadEof
  <2>1. UNCHANGED <<args, i, out>> /\ pc' # "done"
    BY <1>2 DEF Raise, Start, Admit, ConnectOk, BuildRequests, NoThrottle,
                Throttle, Wake, Stamp, Send, ReadAnswer, ReadEof
  <2> QED
    BY <2>1, SettledBatchKept
<1>3. CASE Finish
  <2>1. UNCHANGED <<args, i, out>> /\ i > Len(args.batch) /\ i \in Nat
    BY <1>0, <1>3 DEF Finish, TypeOK
  <2>2. i = Len(args.batch) + 1
    BY <1>0, <2>1, BatchTyped DEF BatchInv
  <2> QED
    BY <2>1, <2>2, SettledBatchKept
<1>4. CASE Skip
  <2>1. i \in DOMAIN args.batch
    BY <1>0, <1>4, BatchTyped DEF Skip, TypeOK
  <2> DEFINE x == [target |-> Target, status |-> "skipped", responses |-> <<>>]
  <2>2. /\ x \in Results /\ x.target = Target /\ x.status = "skipped" /\ x.status # "up"
    BY <1>0, <2>1, ResultsTyped
  <2>3. /\ UNCHANGED args /\ pc' = "next" /\ out' = Append(out, x) /\ i' = i + 1
        /\ Target \notin Scope
    BY <1>4 DEF Skip, Report
  <2> HIDE DEF x
  <2> QED
    BY <1>0, <2>1, <2>2, <2>3, ReportKeepsBatch
<1>5. CASE ConnectFails
  <2>1. i \in DOMAIN args.batch /\ Target \in Scope
    BY <1>0, <1>5 DEF ConnectFails, OnlyAuthorizedScope, AtTarget
  <2> DEFINE x == [target |-> Target, status |-> "down", responses |-> <<>>]
  <2>2. /\ x \in Results /\ x.target = Target /\ x.status # "skipped" /\ x.status # "up"
    BY <1>0, <2>1, ResultsTyped
  <2>3. /\ UNCHANGED args /\ pc' = "next" /\ out' = Append(out, x) /\ i' = i + 1
    BY <1>5 DEF ConnectFails, Report
  <2> HIDE DEF x
  <2> QED
    BY <1>0, <2>1, <2>2, <2>3, ReportKeepsBatch
<1>6. CASE CloseConn
  <2>1. i \in DOMAIN args.batch /\ Target \in Scope
    BY <1>0, <1>6 DEF CloseConn, OnlyAuthorizedScope, AtTarget, InFlight
  <2> DEFINE x == [target |-> Target, status |-> "up", responses |-> responses]
  <2>2. /\ x \in Results /\ x.target = Target /\ x.status # "skipped"
        /\ ConversationEnds(x.responses)
    <3>1. ConversationEnds(responses)
      BY <1>6 DEF CloseConn, TalkInv
    <3> QED
      BY <1>0, <2>1, <3>1, ResultsTyped
  <2>3. /\ UNCHANGED args /\ pc' = "next" /\ out' = Append(out, x) /\ i' = i + 1
    BY <1>6 DEF CloseConn, Report
  <2> HIDE DEF x
  <2> QED
    BY <1>0, <2>1, <2>2, <2>3, ReportKeepsBatch
<1> QED
  BY <1>1, <1>2, <1>3, <1>4, <1>5, <1>6, StepsOf

-----------------------------------------------------------------------------
(* What was sent and what the results account for *)

\* The count is a number, and of the results of a step that reports none it is
\* what it was.
LEMMA BaseType ==
  ASSUME TypeOK
  PROVE  Base \in Nat /\ Len(out) \in Nat
<1>1. Len(out) \in Nat /\ Len(out) \in 0..Len(out)
  BY DEF TypeOK
<1> QED
  BY <1>1, ReportedFacts DEF Base

LEMMA BaseKept ==
  ASSUME UNCHANGED out
  PROVE  Base' = Base
BY ReportedKept DEF Base

LEMMA BaseAppended ==
  ASSUME TypeOK, NEW x \in Results, out' = Append(out, x)
  PROVE  Base' = Base + Len(x.responses)
<1>1. Len(out') = Len(out) + 1 /\ ReportedUpTo'[Len(out) + 1] = Base + Len(x.responses)
  BY ResultAppended, ReportedAppended DEF Base
<1> QED
  BY <1>1 DEF Base

LEMMA SentByBase ==
  EverySentReported <=>
    (pc # "raised" => Len(sent) = Base + (IF InFlight THEN Len(responses) ELSE 0)
                                  + (IF pc = "read" THEN 1 ELSE 0))
BY DEF EverySentReported, Base

LEMMA NothingToReport == Len(<<>>) = 0
OBVIOUS

LEMMA NextKeepsSent ==
  ASSUME GateInv, TalkInv, EverySentReported, [Next]_vars
  PROVE  EverySentReported'
<1>0. TypeOK /\ OnlyAuthorizedScope
  BY DEF GateInv
<1>i. pc # "raised" => Len(sent) = Base + (IF InFlight THEN Len(responses) ELSE 0)
                                   + (IF pc = "read" THEN 1 ELSE 0)
  BY SentByBase
<1>s. SUFFICES pc' # "raised" =>
                 Len(sent') = Base' + (IF InFlight' THEN Len(responses') ELSE 0)
                              + (IF pc' = "read" THEN 1 ELSE 0)
  BY DEF EverySentReported, Base
<1>t. Base \in Nat /\ Len(responses) \in Nat /\ Len(sent) \in Nat
  BY <1>0, BaseType DEF TypeOK
<1>1. CASE Tick \/ DeviceStep \/ UNCHANGED vars
  <2>1. UNCHANGED <<pc, out, responses, sent>>
    BY <1>1 DEF Tick, DeviceStep, Answer, Repeat, DeviceCloses, Drip, vars
  <2> QED
    BY <1>i, <2>1, BaseKept DEF InFlight
<1>2. CASE Raise
  BY <1>2 DEF Raise
<1>3. CASE Start \/ Finish \/ Admit
  <2>1. UNCHANGED <<out, sent>> /\ pc \in {"start", "next"}
        /\ pc' \in {"next", "done", "connect"}
    BY <1>3 DEF Start, Finish, Admit
  <2> QED
    BY <1>i, <2>1, BaseKept DEF InFlight
<1>4. CASE ConnectOk
  <2>1. UNCHANGED <<out, sent, responses>> /\ pc = "connect" /\ pc' = "build"
    BY <1>4 DEF ConnectOk
  <2>2. responses = <<>>
    BY <2>1 DEF TalkInv
  <2> QED
    BY <1>i, <1>t, <2>1, <2>2, BaseKept, NothingToReport DEF InFlight
<1>5. CASE BuildRequests \/ NoThrottle \/ Throttle \/ Wake \/ Stamp
  <2>1. /\ UNCHANGED <<out, sent, responses>>
        /\ pc \in {"build", "throttle", "sleep", "stamp"}
        /\ pc' \in {"throttle", "sleep", "stamp", "send"}
    BY <1>5 DEF BuildRequests, NoThrottle, Throttle, Wake, Stamp
  <2> QED
    BY <1>i, <2>1, BaseKept DEF InFlight
<1>6. CASE Send
  <2>1. UNCHANGED <<out, responses>> /\ pc = "send" /\ pc' = "read"
    BY <1>6 DEF Send
  <2>2. Len(sent') = Len(sent) + 1
    BY <1>0, <1>6 DEF Send, TypeOK
  <2> QED
    BY <1>i, <1>t, <2>1, <2>2, BaseKept DEF InFlight
<1>7. CASE ReadAnswer \/ ReadEof
  <2>1. /\ UNCHANGED <<out, sent>> /\ pc = "read" /\ pc' \in {"throttle", "close"}
    BY <1>7 DEF ReadAnswer, ReadEof
  <2>2. Len(responses') = Len(responses) + 1
    <3>1. PICK r \in Responses : responses' = Append(responses, r)
      BY <1>0, <1>7, AnswerRead, EofTyped DEF ReadAnswer, ReadEof
    <3>2. responses \in Seq(Responses)
      BY <1>0 DEF TypeOK
    <3> QED
      BY <3>1, <3>2, ResponseAppended
  <2>3. Base' = Base
    BY <2>1, BaseKept
  <2>4. Len(sent') = Base + Len(responses) + 1
    BY <1>i, <1>t, <2>1 DEF InFlight
  <2>5. CASE pc' = "throttle"
    BY <1>t, <2>2, <2>3, <2>4, <2>5 DEF InFlight
  <2>6. CASE pc' = "close"
    BY <1>t, <2>2, <2>3, <2>4, <2>6 DEF InFlight
  <2> QED
    BY <2>1, <2>5, <2>6
<1>8. CASE Skip
  <2>1. i \in DOMAIN args.batch
    BY <1>0, <1>8, BatchTyped DEF Skip, TypeOK
  <2>2. PICK x \in Results : out' = Append(out, x) /\ x.responses = <<>>
    BY <1>0, <1>8, <2>1, ResultsTyped DEF Skip, Report
  <2>3. Base' = Base
    BY <1>0, <1>t, <2>2, BaseAppended, NothingToReport
  <2>4. UNCHANGED sent /\ pc = "next" /\ pc' = "next"
    BY <1>8 DEF Skip, Report
  <2> QED
    BY <1>i, <2>3, <2>4 DEF InFlight
<1>9. CASE ConnectFails
  <2>1. i \in DOMAIN args.batch
    BY <1>0, <1>9 DEF ConnectFails, OnlyAuthorizedScope, AtTarget
  <2>2. PICK x \in Results : out' = Append(out, x) /\ x.responses = <<>>
    BY <1>0, <1>9, <2>1, ResultsTyped DEF ConnectFails, Report
  <2>3. Base' = Base
    BY <1>0, <1>t, <2>2, BaseAppended, NothingToReport
  <2>4. UNCHANGED sent /\ pc = "connect" /\ pc' = "next"
    BY <1>9 DEF ConnectFails, Report
  <2> QED
    BY <1>i, <2>3, <2>4 DEF InFlight
<1>10. CASE CloseConn
  <2>1. i \in DOMAIN args.batch
    BY <1>0, <1>10 DEF CloseConn, OnlyAuthorizedScope, AtTarget, InFlight
  <2>2. PICK x \in Results : out' = Append(out, x) /\ x.responses = responses
    BY <1>0, <1>10, <2>1, ResultsTyped DEF CloseConn, Report
  <2>3. Base' = Base + Len(responses)
    BY <1>0, <2>2, BaseAppended
  <2>4. UNCHANGED sent /\ pc = "close" /\ pc' = "next"
    BY <1>10 DEF CloseConn, Report
  <2> QED
    BY <1>i, <1>t, <2>3, <2>4 DEF InFlight
<1> QED
  BY <1>1, <1>2, <1>3, <1>4, <1>5, <1>6, <1>7, <1>8, <1>9, <1>10, StepsOf

-----------------------------------------------------------------------------
(* The connection at hand *)

Wired == Requested /\ Delivered /\ Surplus /\ Late

LEMMA AskingType ==
  ASSUME TypeOK, TalkInv
  PROVE  /\ Len(responses) \in Nat /\ Len(inbox) \in Nat /\ Len(asked) \in Nat
         /\ Asking \in Nat /\ Asking <= 3
<1>1. /\ Len(responses) \in Nat /\ Len(inbox) \in Nat /\ Len(asked) \in Nat
      /\ DOMAIN responses = 1..Len(responses)
  BY DEF TypeOK
<1>2. Len(responses) <= 3
  <2>1. CASE Len(responses) = 0
    BY <2>1
  <2>2. CASE Len(responses) # 0
    <3>1. Len(responses) \in DOMAIN responses
      BY <1>1, <2>2
    <3>2. responses[Len(responses)] \in Responses
      BY <3>1 DEF TypeOK
    <3>3. responses[Len(responses)].query = Len(responses)
      BY <3>1 DEF TalkInv
    <3> QED
      BY <3>2, <3>3 DEF Responses
  <2> QED
    BY <2>1, <2>2
<1>3. pc = "read" => Len(responses) <= 2
  BY <1>1 DEF TalkInv, Conversing, TypeOK
<1> QED
  BY <1>1, <1>2, <1>3 DEF Asking

\* A device that repeats itself more does not make an answer less late.
LEMMA LaterStill ==
  ASSUME NEW n \in Nat, NEW m \in Nat, n <= m, NEW ids, NEW answer, NEW place \in Nat,
         LateBy(n, ids, answer, place)
  PROVE  LateBy(m, ids, answer, place)
BY DEF LateBy

LEMMA WireTypes ==
  ASSUME TypeOK
  PROVE  /\ Again \in Nat /\ answered \in Nat
         /\ Len(responses) \in Nat /\ Len(inbox) \in Nat /\ Len(asked) \in Nat
         /\ DOMAIN responses = 1..Len(responses) /\ DOMAIN inbox = 1..Len(inbox)
         /\ DOMAIN asked = 1..Len(asked)
<1>1. Again \in Nat
  BY DEF TypeOK, Again
<1> QED
  BY <1>1 DEF TypeOK

\* A step that sends, delivers and reads nothing.
LEMMA QuietStepKeepsWired ==
  ASSUME TypeOK, TypeOK', Wired, Again <= Again', Asking' = Asking,
         peer' = peer \/ peer' = "gone",
         UNCHANGED <<conn, inbox, asked, answered, tids, responses, out, sent>>
  PROVE  Wired'
<1>1. Again \in Nat /\ Again' \in Nat /\ Len(responses) \in Nat
      /\ DOMAIN responses = 1..Len(responses) /\ DOMAIN inbox = 1..Len(inbox)
      /\ Len(inbox) \in Nat /\ answered \in Nat
  <2>1. Again' \in Nat
    BY DEF TypeOK, Again
  <2> QED
    BY <2>1, WireTypes
<1>2. Requested'
  BY BaseKept DEF Wired, Requested
<1>3. Delivered'
  BY DEF Wired, Delivered
<1>4. Surplus'
  BY <1>1 DEF Wired, Surplus, Arrived
<1>5. Late'
  <2>1. ASSUME NEW r \in DOMAIN responses PROVE LateBy(Again', tids, responses[r], r)
    <3>1. r \in Nat /\ LateBy(Again, tids, responses[r], r)
      BY <1>1 DEF Wired, Late
    <3> QED
      BY <1>1, <3>1, LaterStill
  <2>2. ASSUME NEW x \in DOMAIN inbox
        PROVE  LateBy(Again', tids, inbox[x], Len(responses) + x)
    <3>1. Len(responses) + x \in Nat /\ LateBy(Again, tids, inbox[x], Len(responses) + x)
      BY <1>1 DEF Wired, Late
    <3> QED
      BY <1>1, <3>1, LaterStill
  <2> QED
    BY <2>1, <2>2 DEF Late
<1> QED
  BY <1>2, <1>3, <1>4, <1>5 DEF Wired

LEMMA AnswerTyped ==
  ASSUME NEW s \in Seq(Answers), NEW a \in Answers
  PROVE  /\ Len(s) \in Nat /\ Len(Append(s, a)) = Len(s) + 1
         /\ DOMAIN s = 1..Len(s) /\ DOMAIN Append(s, a) = 1..(Len(s) + 1)
         /\ \A x \in 1..Len(s) : Append(s, a)[x] = s[x]
         /\ Append(s, a)[Len(s) + 1] = a
OBVIOUS

\* One more answer arrives, to the q-th request.
LEMMA ArrivalKeepsWired ==
  ASSUME TypeOK, TypeOK', TalkInv, Wired, peer = "up",
         NEW a \in Answers, inbox' = Append(inbox, a),
         NEW q \in 1..Len(asked), a.tid = asked[q],
         answered' = q, Again <= Again',
         \/ q = answered + 1
         \/ q = answered /\ Again + 1 <= Again',
         UNCHANGED <<pc, conn, peer, asked, tids, responses, out, sent>>
  PROVE  Wired'
<1>1. /\ Again \in Nat /\ Again' \in Nat /\ answered \in Nat
      /\ Len(responses) \in Nat /\ Len(inbox) \in Nat /\ Len(asked) \in Nat
      /\ DOMAIN responses = 1..Len(responses) /\ DOMAIN inbox = 1..Len(inbox)
      /\ DOMAIN asked = 1..Len(asked)
      /\ Asking \in Nat /\ Asking <= 3
  <2>1. Again' \in Nat
    BY DEF TypeOK, Again
  <2> QED
    BY <2>1, WireTypes, AskingType
<1>2. /\ Len(inbox') = Len(inbox) + 1 /\ DOMAIN inbox' = 1..(Len(inbox) + 1)
      /\ \A x \in 1..Len(inbox) : inbox'[x] = inbox[x]
      /\ inbox'[Len(inbox) + 1] = a
  BY AnswerTyped DEF TypeOK
<1>3. /\ Len(asked) = Asking
      /\ answered <= Arrived /\ Arrived - answered <= Again
      /\ a.tid = tids[q]
  BY <1>1 DEF Wired, Delivered, Surplus
<1>4. Requested'
  BY BaseKept DEF Wired, Requested, Asking
<1>5. Delivered'
  BY <1>1, <1>3 DEF Wired, Delivered, Asking
<1>6. Arrived' = Arrived + 1 /\ Arrived \in Nat
  BY <1>1, <1>2 DEF Arrived
<1>7. q <= Arrived + 1 /\ (Arrived + 1) - q <= Again'
  <2>1. q \in Nat /\ Arrived \in Nat /\ answered <= Arrived /\ Arrived - answered <= Again
    BY <1>1, <1>3, <1>6
  <2>2. CASE q = answered + 1
    BY <1>1, <2>1, <2>2
  <2>3. CASE q = answered /\ Again + 1 <= Again'
    BY <1>1, <2>1, <2>3
  <2> QED
    BY <2>2, <2>3
<1>8. Surplus'
  BY <1>1, <1>3, <1>6 DEF Surplus
<1>9. LateBy(Again', tids, a, Arrived + 1)
  <2>1. q \in 1..(Arrived + 1) /\ q <= 3
    BY <1>1, <1>3, <1>6, <1>7
  <2> QED
    BY <1>3, <1>7, <2>1 DEF LateBy
<1>10. Late'
  <2>1. ASSUME NEW r \in DOMAIN responses PROVE LateBy(Again', tids, responses[r], r)
    <3>1. r \in Nat /\ LateBy(Again, tids, responses[r], r)
      BY <1>1 DEF Wired, Late
    <3> QED
      BY <1>1, <3>1, LaterStill
  <2>2. ASSUME NEW x \in DOMAIN inbox'
        PROVE  LateBy(Again', tids, inbox'[x], Len(responses) + x)
    <3>1. CASE x \in DOMAIN inbox
      <4>1. Len(responses) + x \in Nat /\ inbox'[x] = inbox[x]
            /\ LateBy(Again, tids, inbox[x], Len(responses) + x)
        BY <1>1, <1>2, <3>1 DEF Wired, Late
      <4> QED
        BY <1>1, <4>1, LaterStill
    <3>2. CASE x \notin DOMAIN inbox
      <4>1. x = Len(inbox) + 1
        BY <1>1, <1>2, <3>2
      <4>2. Len(responses) + x = Arrived + 1 /\ inbox'[x] = a
        BY <1>1, <1>2, <4>1 DEF Arrived
      <4> QED
        BY <1>9, <4>2
    <3> QED
      BY <3>1, <3>2
  <2> QED
    BY <2>1, <2>2 DEF Late
<1> QED
  BY <1>4, <1>5, <1>8, <1>10 DEF Wired

\* What one more request does to the history, and to what the device got.
LEMMA RequestAppended ==
  ASSUME NEW s \in Seq(Requests), NEW r \in Requests
  PROVE  /\ Len(s) \in Nat /\ Len(Append(s, r)) = Len(s) + 1
         /\ \A n \in 1..Len(s) : Append(s, r)[n] = s[n]
         /\ Append(s, r)[Len(s) + 1] = r
OBVIOUS

LEMMA TidAppended ==
  ASSUME NEW s \in Seq(Tids), NEW t \in Tids
  PROVE  /\ Len(s) \in Nat /\ Len(Append(s, t)) = Len(s) + 1
         /\ DOMAIN s = 1..Len(s) /\ DOMAIN Append(s, t) = 1..(Len(s) + 1)
         /\ \A n \in 1..Len(s) : Append(s, t)[n] = s[n]
         /\ Append(s, t)[Len(s) + 1] = t
OBVIOUS

LEMMA RequestTyped ==
  ASSUME GateInv, Send
  PROVE  [target |-> conn, tid |-> tids[k], stamp |-> last_send, at |-> now] \in Requests
<1>1. conn \in Targets
  BY DEF GateInv, OnlyAuthorizedScope, Send, InFlight, TypeOK
<1>2. tids[k] \in Tids /\ last_send \in Nat /\ now \in Nat
  BY DEF GateInv, TypeOK
<1> QED
  BY <1>1, <1>2 DEF Requests

LEMMA SendKeepsWired ==
  ASSUME GateInv, TalkInv, EverySentReported, Wired, Send
  PROVE  Wired'
<1>0. TypeOK /\ Asking \in Nat /\ Base \in Nat /\ Len(responses) \in Nat
  BY AskingType, BaseType, WireTypes DEF GateInv
<1>1. /\ pc = "send" /\ pc' = "read"
      /\ asked' = IF peer = "up" THEN Append(asked, tids[k]) ELSE asked
      /\ UNCHANGED <<conn, peer, inbox, answered, tids, responses, out>>
  BY DEF Send
<1>a. Again' = Again
  BY DEF Send, Again
<1>2. Asking = Len(responses) /\ Len(responses) = k - 1 /\ k \in 1..3
  BY <1>0, <1>1 DEF Asking, TalkInv, Conversing, TypeOK
<1>3. Asking' = Asking + 1 /\ Asking + 1 = k
  BY <1>0, <1>1, <1>2 DEF Asking
<1>4. Len(sent) = Base + Asking
  BY <1>0, <1>1, <1>2, SentByBase DEF InFlight
<1>5. Requested'
  <2>1. PICK r \in Requests : sent' = Append(sent, r) /\ r.target = conn /\ r.tid = tids[k]
    BY RequestTyped DEF Send
  <2>2. /\ sent \in Seq(Requests)
        /\ \A n \in 1..Len(sent) : sent'[n] = sent[n]
        /\ sent'[Len(sent) + 1] = r
    BY <1>0, <2>1, RequestAppended DEF TypeOK
  <2>3. ASSUME NEW q \in 1..(Asking + 1)
        PROVE  sent'[Base + q].target = conn /\ sent'[Base + q].tid = tids[q]
    <3>1. CASE q = Asking + 1
      <4>1. Base + q = Len(sent) + 1 /\ q = k
        BY <1>0, <1>3, <1>4, <3>1
      <4> QED
        BY <2>1, <2>2, <4>1
    <3>2. CASE q # Asking + 1
      <4>1. q \in 1..Asking /\ Base + q \in 1..Len(sent)
        BY <1>0, <1>4, <3>2
      <4> QED
        BY <2>2, <4>1 DEF Wired, Requested
    <3> QED
      BY <3>1, <3>2
  <2>4. Base' = Base
    BY <1>1, BaseKept
  <2> QED
    BY <1>1, <1>3, <2>3, <2>4 DEF Requested
<1>6. Delivered'
  <2>1. /\ Len(asked) <= Asking /\ answered <= Len(asked)
        /\ peer = "up" => Len(asked) = Asking
        /\ \A q \in DOMAIN asked : asked[q] = tids[q]
        /\ Len(asked) \in Nat /\ answered \in Nat
    BY <1>0, WireTypes DEF Wired, Delivered
  <2>2. CASE peer = "up"
    <3>1. asked \in Seq(Tids) /\ tids[k] \in Tids /\ asked' = Append(asked, tids[k])
      BY <1>0, <1>1, <1>2, <2>2 DEF TypeOK
    <3>2. PICK t \in Tids : t = tids[k] /\ asked' = Append(asked, t)
      BY <3>1
    <3>3. /\ Len(asked') = Len(asked) + 1 /\ DOMAIN asked' = 1..(Len(asked) + 1)
          /\ DOMAIN asked = 1..Len(asked)
          /\ \A n \in 1..Len(asked) : asked'[n] = asked[n]
          /\ asked'[Len(asked) + 1] = t
      BY <3>1, <3>2, TidAppended
    <3>4. Len(asked) + 1 = k
      BY <1>3, <2>1, <2>2
    <3>5. ASSUME NEW q \in DOMAIN asked' PROVE asked'[q] = tids[q]
      <4>1. CASE q = Len(asked) + 1
        BY <3>2, <3>3, <3>4, <4>1
      <4>2. CASE q # Len(asked) + 1
        <5>1. q \in DOMAIN asked /\ asked'[q] = asked[q]
          BY <2>1, <3>3, <4>2
        <5> QED
          BY <2>1, <5>1
      <4> QED
        BY <4>1, <4>2
    <3>6. Len(asked') = Asking' /\ Asking' \in Nat /\ answered' <= Len(asked')
      BY <1>0, <1>1, <1>3, <2>1, <2>2, <3>3
    <3> QED
      BY <1>1, <3>5, <3>6 DEF Delivered
  <2>3. CASE peer # "up"
    <3>1. asked' = asked /\ peer' # "up"
      BY <1>1, <2>3
    <3> QED
      BY <1>0, <1>1, <1>3, <2>1, <3>1 DEF Delivered
  <2> QED
    BY <2>2, <2>3
<1>7. Surplus' /\ Late'
  BY <1>1, <1>a DEF Wired, Surplus, Arrived, Late
<1> QED
  BY <1>5, <1>6, <1>7 DEF Wired

LEMMA ReadAnswerKeepsWired ==
  ASSUME TypeOK, TalkInv, Wired, ReadAnswer
  PROVE  Wired'
<1>1. /\ pc = "read" /\ inbox # <<>> /\ inbox' = Tail(inbox) /\ pc' # "read"
      /\ UNCHANGED <<conn, peer, asked, answered, tids, out, sent>>
  BY DEF ReadAnswer
<1>a. Again' = Again
  BY DEF ReadAnswer, Again
<1>2. /\ Len(responses) \in Nat /\ Len(inbox) \in Nat
      /\ DOMAIN responses = 1..Len(responses) /\ DOMAIN inbox = 1..Len(inbox)
  BY WireTypes
<1>3. PICK r \in Responses : r = Interpreted(Head(inbox)) /\ responses' = Append(responses, r)
  BY AnswerRead DEF ReadAnswer
<1>4. /\ Len(responses') = Len(responses) + 1 /\ DOMAIN responses' = 1..(Len(responses) + 1)
      /\ \A j \in 1..Len(responses) : responses'[j] = responses[j]
      /\ responses'[Len(responses) + 1] = r
  BY <1>3, ResponseAppended DEF TypeOK
<1>5. /\ inbox \in Seq(Answers) /\ Len(inbox) >= 1 /\ Head(inbox) = inbox[1]
      /\ Len(inbox') = Len(inbox) - 1 /\ DOMAIN inbox' = 1..(Len(inbox) - 1)
      /\ \A x \in 1..(Len(inbox) - 1) : inbox'[x] = inbox[x + 1]
  BY <1>1 DEF TypeOK
<1>6. Asking' = Asking
  BY <1>1, <1>2, <1>4 DEF Asking
<1>7. Requested'
  BY <1>1, <1>6, BaseKept DEF Wired, Requested
<1>8. Delivered'
  BY <1>1, <1>6 DEF Wired, Delivered
<1>9. Arrived' = Arrived
  BY <1>2, <1>4, <1>5 DEF Arrived
<1>10. Surplus'
  BY <1>1, <1>9, <1>a DEF Wired, Surplus
<1>11. LateBy(Again, tids, r, Len(responses) + 1)
  <2>1. LateBy(Again, tids, inbox[1], Len(responses) + 1)
    BY <1>2, <1>5 DEF Wired, Late
  <2>2. r.got = inbox[1].got /\ (r.got = "full" => r.tid = inbox[1].tid)
    BY <1>3, <1>5 DEF Interpreted
  <2> QED
    BY <2>1, <2>2 DEF LateBy
<1>12. Late'
  <2>1. ASSUME NEW j \in DOMAIN responses' PROVE LateBy(Again, tids, responses'[j], j)
    <3>1. CASE j = Len(responses) + 1
      BY <1>4, <1>11, <3>1
    <3>2. CASE j # Len(responses) + 1
      <4>1. j \in DOMAIN responses /\ responses'[j] = responses[j]
        BY <1>2, <1>4, <3>2
      <4> QED
        BY <4>1 DEF Wired, Late
    <3> QED
      BY <3>1, <3>2
  <2>2. ASSUME NEW x \in DOMAIN inbox'
        PROVE  LateBy(Again, tids, inbox'[x], Len(responses') + x)
    <3>1. x + 1 \in DOMAIN inbox /\ inbox'[x] = inbox[x + 1]
          /\ Len(responses') + x = Len(responses) + (x + 1)
      <4>1. x \in 1..(Len(inbox) - 1)
        BY <1>5
      <4>2. x \in Nat /\ x + 1 \in 1..Len(inbox)
        BY <1>2, <4>1
      <4>3. Len(responses') + x = Len(responses) + (x + 1)
        BY <1>2, <1>4, <4>2
      <4> QED
        BY <1>2, <1>5, <4>1, <4>2, <4>3
    <3> QED
      BY <3>1 DEF Wired, Late
  <2> QED
    BY <1>1, <1>a, <2>1, <2>2 DEF Late
<1> QED
  BY <1>7, <1>8, <1>10, <1>12 DEF Wired

LEMMA ReadEofKeepsWired ==
  ASSUME TypeOK, TalkInv, Wired, ReadEof
  PROVE  Wired'
<1>1. /\ pc = "read" /\ inbox = <<>> /\ peer = "gone" /\ pc' = "close"
      /\ UNCHANGED <<conn, inbox, peer, asked, answered, tids, out, sent>>
  BY DEF ReadEof, deviceVars
<1>a. Again' = Again
  BY DEF ReadEof, deviceVars, Again
<1>2. /\ Len(responses) \in Nat /\ DOMAIN responses = 1..Len(responses)
      /\ DOMAIN inbox = 1..Len(inbox) /\ Len(inbox) = 0
  BY <1>1, WireTypes
<1>3. PICK r \in Responses : r.got = "eof" /\ responses' = Append(responses, r)
  BY EofTyped DEF ReadEof
<1>4. /\ Len(responses') = Len(responses) + 1 /\ DOMAIN responses' = 1..(Len(responses) + 1)
      /\ \A j \in 1..Len(responses) : responses'[j] = responses[j]
      /\ responses'[Len(responses) + 1] = r
  BY <1>3, ResponseAppended DEF TypeOK
<1>5. Asking' = Asking
  BY <1>1, <1>2, <1>4 DEF Asking
<1>6. Requested'
  BY <1>1, <1>5, BaseKept DEF Wired, Requested
<1>7. Delivered'
  BY <1>1, <1>5 DEF Wired, Delivered
<1>8. Surplus'
  BY <1>1 DEF Surplus
<1>9. Late'
  <2>1. ASSUME NEW j \in DOMAIN responses' PROVE LateBy(Again, tids, responses'[j], j)
    <3>1. CASE j = Len(responses) + 1
      BY <1>3, <1>4, <3>1 DEF LateBy
    <3>2. CASE j # Len(responses) + 1
      <4>1. j \in DOMAIN responses /\ responses'[j] = responses[j]
        BY <1>2, <1>4, <3>2
      <4> QED
        BY <4>1 DEF Wired, Late
    <3> QED
      BY <3>1, <3>2
  <2>2. DOMAIN inbox' = {}
    BY <1>1, <1>2
  <2> QED
    BY <1>1, <1>a, <2>1, <2>2 DEF Late
<1> QED
  BY <1>6, <1>7, <1>8, <1>9 DEF Wired

LEMMA NextKeepsWire ==
  ASSUME GateInv, GateInv', TalkInv, TalkInv', EverySentReported, WireInv, [Next]_vars
  PROVE  WireInv'
<1>0. TypeOK /\ TypeOK' /\ OnlyAuthorizedScope
  BY DEF GateInv
<1>n. Again \in Nat /\ Again' \in Nat
  BY <1>0 DEF TypeOK, Again
<1>w. /\ ~InFlight \/ pc = "build" => inbox = <<>> /\ asked = <<>> /\ answered = 0
      /\ InFlight /\ pc # "build" => Wired
  BY DEF WireInv, Wired
<1>1. CASE Tick \/ UNCHANGED vars \/ DeviceCloses \/ Drip
  <2>1. /\ UNCHANGED <<pc, conn, inbox, asked, answered, tids, responses, out, sent>>
        /\ peer' = peer \/ peer' = "gone"
        /\ UNCHANGED <<args, i, repeats>>
    BY <1>1 DEF Tick, DeviceCloses, Drip, vars, deviceVars
  <2>a. Again' = Again
    BY <2>1 DEF Again
  <2>2. Again <= Again' /\ Asking' = Asking /\ (InFlight' <=> InFlight)
    BY <1>n, <2>1, <2>a DEF Asking, InFlight
  <2>3. CASE InFlight /\ pc # "build"
    <3>1. Wired'
      BY <1>0, <1>w, <2>1, <2>2, <2>3, QuietStepKeepsWired
    <3> QED
      BY <2>1, <2>2, <2>3, <3>1 DEF WireInv, Wired
  <2>4. CASE ~(InFlight /\ pc # "build")
    BY <1>w, <2>1, <2>2, <2>4 DEF WireInv
  <2> QED
    BY <2>3, <2>4
<1>2. ASSUME NEW kind \in Kinds, Answer(kind) PROVE WireInv'
  <2>1. /\ InFlight /\ answered < Len(asked) /\ peer = "up" /\ answered' = answered + 1
        /\ UNCHANGED <<args, i, pc, conn, peer, asked, repeats, tids, responses, out, sent>>
        /\ inbox' = Append(inbox, [tid |-> asked[answered + 1], got |-> kind])
    BY <1>0, <1>2 DEF Answer, OnlyAuthorizedScope
  <2>2. answered \in Nat /\ Len(asked) \in Nat /\ answered + 1 \in 1..Len(asked)
    BY <1>0, <2>1, WireTypes
  <2>3. pc # "build" /\ Wired
    <3>1. Len(<<>>) = 0
      OBVIOUS
    <3> QED
      BY <1>w, <2>1, <2>2, <3>1
  <2>4. asked[answered + 1] \in Tids
    <3>1. asked \in Seq(Tids)
      BY <1>0 DEF TypeOK
    <3> QED
      BY <2>2, <3>1
  <2>5. PICK a \in Answers : inbox' = Append(inbox, a) /\ a.tid = asked[answered + 1]
    BY <2>1, <2>4 DEF Answers
  <2>6. Again <= Again'
    <3>1. Again' = Again
      BY <2>1 DEF Again
    <3> QED
      BY <1>n, <3>1
  <2>7. PICK q \in 1..Len(asked) : q = answered + 1
    BY <2>2
  <2>8. Wired'
    BY <1>0, <2>1, <2>3, <2>5, <2>6, <2>7, ArrivalKeepsWired
  <2> QED
    BY <2>1, <2>3, <2>8 DEF WireInv, Wired, InFlight
<1>3. CASE Repeat
  <2>1. /\ InFlight /\ answered \in DOMAIN asked /\ peer = "up" /\ answered' = answered
        /\ UNCHANGED <<args, i, pc, conn, peer, asked, tids, responses, out, sent>>
        /\ repeats' = [repeats EXCEPT ![i] = @ + 1]
        /\ inbox' = Append(inbox, [tid |-> asked[answered], got |-> "full"])
    BY <1>0, <1>3 DEF Repeat, OnlyAuthorizedScope
  <2>2. answered \in 1..Len(asked) /\ Len(asked) \in Nat
    BY <1>0, <2>1, WireTypes
  <2>3. pc # "build" /\ Wired
    <3>1. Len(<<>>) = 0
      OBVIOUS
    <3> QED
      BY <1>w, <2>1, <2>2, <3>1
  <2>4. asked[answered] \in Tids
    <3>1. asked \in Seq(Tids)
      BY <1>0 DEF TypeOK
    <3> QED
      BY <2>1, <3>1
  <2>5. PICK a \in Answers : inbox' = Append(inbox, a) /\ a.tid = asked[answered]
    BY <2>1, <2>4 DEF Answers, Kinds
  <2>6. Again <= Again' /\ Again + 1 <= Again'
    <3>1. i \in DOMAIN args.batch /\ repeats \in [DOMAIN args.batch -> Nat]
      BY <1>0, <2>1 DEF OnlyAuthorizedScope, AtTarget, TypeOK
    <3>2. Again' = Again + 1
      BY <2>1, <3>1 DEF Again
    <3> QED
      BY <1>n, <3>2
  <2>7. PICK q \in 1..Len(asked) : q = answered
    BY <2>2
  <2>8. Wired'
    BY <1>0, <2>1, <2>3, <2>5, <2>6, <2>7, ArrivalKeepsWired
  <2> QED
    BY <2>1, <2>3, <2>8 DEF WireInv, Wired, InFlight
<1>4. CASE Raise \/ CloseConn
  <2>1. pc' \in {"raised", "next"} /\ inbox' = <<>> /\ asked' = <<>> /\ answered' = 0
    BY <1>4 DEF Raise, CloseConn, Report, DropSocket
  <2> QED
    BY <2>1 DEF WireInv, InFlight
<1>5. CASE Start \/ Skip \/ Finish \/ Admit \/ ConnectFails \/ ConnectOk
  <2>1. /\ ~InFlight /\ (~InFlight' \/ pc' = "build") /\ UNCHANGED <<inbox, asked, answered>>
    BY <1>5 DEF Start, Skip, Finish, Admit, ConnectFails, ConnectOk, Report,
                deviceVars, InFlight
  <2> QED
    BY <1>w, <2>1 DEF WireInv
<1>6. CASE BuildRequests
  <2>1. /\ pc = "build" /\ pc' = "throttle" /\ responses' = <<>>
        /\ inbox' = <<>> /\ asked' = <<>> /\ answered' = 0
    BY <1>6, <1>w DEF BuildRequests, TalkInv, deviceVars
  <2>2. Len(<<>>) = 0
    OBVIOUS
  <2>3. Asking' = 0 /\ Arrived' = 0
    BY <2>1, <2>2 DEF Asking, Arrived
  <2>4. DOMAIN responses' = {} /\ DOMAIN inbox' = {} /\ DOMAIN asked' = {}
    BY <2>1
  <2>5. Requested' /\ Delivered' /\ Late'
    BY <2>1, <2>2, <2>3, <2>4 DEF Requested, Delivered, Late
  <2>6. Surplus'
    BY <1>n, <2>1, <2>3 DEF Surplus
  <2> QED
    BY <2>1, <2>5, <2>6 DEF WireInv, InFlight
<1>7. CASE NoThrottle \/ Throttle \/ Wake \/ Stamp
  <2>1. /\ UNCHANGED <<conn, peer, inbox, asked, answered, tids, responses, out, sent>>
        /\ UNCHANGED <<args, i, repeats>>
        /\ pc \in {"throttle", "sleep", "stamp"} /\ pc' \in {"sleep", "stamp", "send"}
    BY <1>7 DEF NoThrottle, Throttle, Wake, Stamp, deviceVars
  <2>a. Again' = Again
    BY <2>1 DEF Again
  <2>2. Again <= Again' /\ Asking' = Asking
    BY <1>n, <2>1, <2>a DEF Asking
  <2>3. Wired'
    BY <1>0, <1>w, <2>1, <2>2, QuietStepKeepsWired DEF InFlight
  <2> QED
    BY <2>1, <2>3 DEF WireInv, Wired, InFlight
<1>8. CASE Send
  <2>1. pc = "send" /\ pc' = "read"
    BY <1>8 DEF Send
  <2>2. Wired'
    BY <1>8, <1>w, <2>1, SendKeepsWired DEF InFlight
  <2> QED
    BY <2>1, <2>2 DEF WireInv, Wired, InFlight
<1>9. CASE ReadAnswer \/ ReadEof
  <2>1. pc = "read" /\ pc' \in {"throttle", "close"}
    BY <1>9 DEF ReadAnswer, ReadEof
  <2>2. Wired'
    BY <1>0, <1>9, <1>w, <2>1, ReadAnswerKeepsWired, ReadEofKeepsWired DEF InFlight
  <2> QED
    BY <2>1, <2>2 DEF WireInv, Wired, InFlight
<1> QED
  BY <1>1, <1>2, <1>3, <1>4, <1>5, <1>6, <1>7, <1>8, <1>9, StepsOf DEF DeviceStep

-----------------------------------------------------------------------------
(* What the results show *)

LEMMA SentKeepsLag ==
  ASSUME TypeOK, LagInv, UNCHANGED out,
         \A j \in DOMAIN out : repeats'[j] = repeats[j],
         sent' = sent \/ \E r \in Requests : sent' = Append(sent, r)
  PROVE  LagInv'
<1>1. \A n \in DOMAIN sent : n \in DOMAIN sent' /\ sent'[n] = sent[n]
  <2>1. ASSUME NEW r \in Requests, sent' = Append(sent, r)
        PROVE  \A n \in DOMAIN sent : n \in DOMAIN sent' /\ sent'[n] = sent[n]
    BY <2>1 DEF TypeOK
  <2> QED
    BY <2>1
<1> QED
  BY <1>1, ReportedKept DEF LagInv

LEMMA ReportKeepsLag ==
  ASSUME TypeOK, LagInv, UNCHANGED <<repeats, sent>>,
         NEW x \in Results, out' = Append(out, x),
         \A r \in DOMAIN x.responses :
           x.responses[r].got = "full" =>
             \E q \in 1..r : /\ r - q <= repeats[Len(out) + 1]
                             /\ Base + q \in DOMAIN sent
                             /\ sent[Base + q].target = x.target
                             /\ sent[Base + q].tid = x.responses[r].tid
  PROVE  LagInv'
<1>1. /\ Len(out) \in Nat /\ DOMAIN out = 1..Len(out) /\ DOMAIN out' = 1..(Len(out) + 1)
      /\ \A j \in 1..Len(out) : out'[j] = out[j]
      /\ out'[Len(out) + 1] = x
  BY ResultAppended
<1>2. \A j \in 0..Len(out) : ReportedUpTo'[j] = ReportedUpTo[j]
  BY ReportedAppended
<1>3. ASSUME NEW j \in DOMAIN out', NEW r \in DOMAIN (out'[j]).responses,
             (out'[j]).responses[r].got = "full"
      PROVE  \E q \in 1..r : /\ r - q <= repeats'[j]
                             /\ ReportedUpTo'[j - 1] + q \in DOMAIN sent'
                             /\ sent'[ReportedUpTo'[j - 1] + q].target = (out'[j]).target
                             /\ sent'[ReportedUpTo'[j - 1] + q].tid
                                  = (out'[j]).responses[r].tid
  <2>1. CASE j = Len(out) + 1
    <3>1. /\ out'[j] = x /\ ReportedUpTo'[j - 1] = Base
          /\ repeats'[j] = repeats[Len(out) + 1]
      BY <1>1, <1>2, <2>1 DEF Base
    <3> QED
      BY <1>3, <3>1
  <2>2. CASE j # Len(out) + 1
    <3>1. j \in DOMAIN out /\ out'[j] = out[j] /\ j - 1 \in 0..Len(out)
      BY <1>1, <2>2
    <3>2. ReportedUpTo'[j - 1] = ReportedUpTo[j - 1]
      BY <1>2, <3>1
    <3> QED
      BY <1>3, <3>1, <3>2 DEF LagInv
  <2> QED
    BY <2>1, <2>2
<1> QED
  BY <1>3 DEF LagInv

LEMMA CloseKeepsLag ==
  ASSUME GateInv, TalkInv, BatchInv, EverySentReported, WireInv, LagInv, CloseConn
  PROVE  LagInv'
<1>0. TypeOK /\ pc = "close" /\ InFlight /\ Wired /\ UNCHANGED <<repeats, sent>>
  BY DEF GateInv, CloseConn, InFlight, WireInv, Wired
<1>1. /\ i \in DOMAIN args.batch /\ conn = Target
  BY <1>0 DEF GateInv, OnlyAuthorizedScope, AtTarget
<1>2. PICK x \in Results : /\ out' = Append(out, x)
                           /\ x.responses = responses /\ x.target = Target
  BY <1>0, <1>1, ResultsTyped DEF CloseConn, Report
<1>3. /\ Base \in Nat /\ Len(responses) \in Nat
      /\ DOMAIN responses = 1..Len(responses)
      /\ Again \in Nat
  BY <1>0, BaseType, WireTypes
<1>a. Again = repeats[Len(out) + 1]
  <2>1. i = Len(out) + 1
    BY <1>0, BaseType DEF BatchInv, TypeOK
  <2> QED
    BY <1>1, <2>1 DEF Again
<1>4. Asking = Len(responses) /\ Len(sent) = Base + Len(responses)
  BY <1>0, <1>3, SentByBase DEF Asking
<1>5. DOMAIN sent = 1..Len(sent)
  BY <1>0 DEF TypeOK
<1>6. ASSUME NEW r \in DOMAIN responses, responses[r].got = "full"
      PROVE  \E q \in 1..r : /\ r - q <= repeats[Len(out) + 1]
                             /\ Base + q \in DOMAIN sent
                             /\ sent[Base + q].target = Target
                             /\ sent[Base + q].tid = responses[r].tid
  <2>1. PICK q \in 1..r : r - q <= Again /\ q <= 3 /\ responses[r].tid = tids[q]
    BY <1>0, <1>6 DEF Wired, Late, LateBy
  <2>2. q \in 1..Asking /\ Base + q \in DOMAIN sent /\ r - q <= repeats[Len(out) + 1]
    BY <1>3, <1>4, <1>5, <1>a, <2>1
  <2>3. sent[Base + q].target = conn /\ sent[Base + q].tid = tids[q]
    BY <1>0, <2>2 DEF Wired, Requested
  <2> QED
    BY <1>1, <2>1, <2>2, <2>3
<1> QED
  BY <1>0, <1>2, <1>6, ReportKeepsLag

LEMMA NextKeepsLag ==
  ASSUME GateInv, TalkInv, BatchInv, EverySentReported, WireInv, LagInv, [Next]_vars
  PROVE  LagInv'
<1>0. TypeOK
  BY DEF GateInv
<1>5. CASE Repeat
  <2>1. /\ UNCHANGED <<out, sent>>
        /\ repeats' = [repeats EXCEPT ![i] = @ + 1]
    BY <1>5 DEF Repeat
  <2>2. ASSUME NEW j \in DOMAIN out PROVE repeats'[j] = repeats[j]
    <3>1. j # i
      <4>1. DOMAIN out = 1..Len(out) /\ Len(out) = i - 1 /\ i \in Nat
        BY <1>0 DEF TypeOK, BatchInv
      <4> QED
        BY <4>1
    <3>2. j \in DOMAIN repeats
      BY <1>0 DEF TypeOK, BatchInv, OneResultEach
    <3> QED
      BY <2>1, <3>1, <3>2
  <2> QED
    BY <1>0, <2>1, <2>2, SentKeepsLag
<1>1. CASE \/ Tick \/ (DeviceStep /\ ~Repeat) \/ Raise \/ Start \/ Admit \/ Finish \/ ConnectOk
           \/ BuildRequests \/ NoThrottle \/ Throttle \/ Wake \/ Stamp
           \/ ReadAnswer \/ ReadEof \/ UNCHANGED vars
  <2>1. UNCHANGED <<out, sent, repeats>>
    BY <1>1 DEF Tick, DeviceStep, Answer, DeviceCloses, Drip, Raise, Start,
                Admit, Finish, ConnectOk, BuildRequests, NoThrottle, Throttle, Wake,
                Stamp, ReadAnswer, ReadEof, vars, deviceVars
  <2> QED
    BY <1>0, <2>1, SentKeepsLag
<1>2. CASE Send
  <2>1. UNCHANGED <<out, repeats>> /\ \E r \in Requests : sent' = Append(sent, r)
    BY <1>2, RequestTyped DEF Send
  <2> QED
    BY <1>0, <2>1, SentKeepsLag
<1>3. CASE Skip \/ ConnectFails
  <2>1. i \in DOMAIN args.batch
    <3>1. CASE Skip
      BY <1>0, <3>1, BatchTyped DEF Skip, TypeOK
    <3>2. CASE ConnectFails
      BY <3>2 DEF ConnectFails, GateInv, OnlyAuthorizedScope, AtTarget
    <3> QED
      BY <1>3, <3>1, <3>2
  <2>2. PICK x \in Results : out' = Append(out, x) /\ x.responses = <<>>
    BY <1>0, <1>3, <2>1, ResultsTyped DEF Skip, ConnectFails, Report
  <2>3. UNCHANGED <<repeats, sent>> /\ DOMAIN x.responses = {}
    BY <1>3, <2>2 DEF Skip, ConnectFails, deviceVars
  <2> QED
    BY <1>0, <2>2, <2>3, ReportKeepsLag
<1>4. CASE CloseConn
  BY <1>4, CloseKeepsLag
<1> QED
  BY <1>1, <1>2, <1>3, <1>4, <1>5, StepsOf

-----------------------------------------------------------------------------
(* Together *)

LEMMA InitAnswer == Init => AnswerInv
<1> SUFFICES ASSUME Init PROVE AnswerInv
  OBVIOUS
<1>1. TypeOK
  BY InitGate DEF GateInv
<1>2. /\ pc = "start" /\ i = 1 /\ inbox = <<>> /\ asked = <<>> /\ answered = 0
      /\ responses = <<>> /\ out = <<>> /\ sent = <<>>
  BY DEF Init
<1>3. Len(<<>>) = 0 /\ DOMAIN <<>> = {}
  OBVIOUS
<1>4. TalkInv
  BY <1>2, <1>3 DEF TalkInv, Conversing
<1>5. BatchInv
  <2>1. Len(args.batch) \in Nat
    BY <1>1, BatchTyped
  <2> QED
    BY <1>2, <1>3, <2>1 DEF BatchInv, OneResultEach
<1>6. EverySentReported
  <2>1. Base = 0
    BY <1>1, <1>2, <1>3, ReportedFacts DEF Base
  <2> QED
    BY <1>2, <1>3, <2>1, SentByBase DEF InFlight
<1>7. WireInv
  BY <1>2 DEF WireInv, InFlight
<1>8. LagInv
  BY <1>2, <1>3 DEF LagInv
<1> QED
  BY <1>4, <1>5, <1>6, <1>7, <1>8 DEF AnswerInv

LEMMA NextKeepsAnswer ==
  ASSUME GateInv, GateInv', AnswerInv, [Next]_vars
  PROVE  AnswerInv'
<1>1. TalkInv /\ BatchInv /\ EverySentReported /\ WireInv /\ LagInv /\ TypeOK
  BY DEF AnswerInv, GateInv
<1>2. TalkInv'
  BY <1>1, NextKeepsTalk
<1>3. BatchInv'
  BY <1>1, NextKeepsBatch
<1>4. EverySentReported'
  BY <1>1, NextKeepsSent
<1>5. WireInv'
  BY <1>1, <1>2, NextKeepsWire
<1>6. LagInv'
  BY <1>1, NextKeepsLag
<1> QED
  BY <1>2, <1>3, <1>4, <1>5, <1>6 DEF AnswerInv

LEMMA AnswerInvariant == Spec => []AnswerInv
<1>1. GateInv /\ GateInv' /\ AnswerInv /\ [Next]_vars => AnswerInv'
  BY NextKeepsAnswer
<1> QED
  BY <1>1, InitAnswer, GateInvariant, PTL DEF Spec

\* One result per target, in the order of the batch, skipped exactly when it is
\* out of scope, and for a reachable target three answers or fewer with an end
\* of file as the last: whatever the batch, the devices and the interrupts.
THEOREM ResultsFollowBatchHolds == Spec => []ResultsFollowBatch
<1>1. AnswerInv /\ GateInv => ResultsFollowBatch
  <2> SUFFICES ASSUME AnswerInv, GateInv PROVE ResultsFollowBatch
    OBVIOUS
  <2>1. BatchInv /\ Len(args.batch) \in Nat /\ Len(out) \in Nat /\ i \in Nat
    BY BatchTyped, BaseType DEF AnswerInv, GateInv, TypeOK
  <2>2. pc = "done" => Len(out) = Len(args.batch)
    BY <2>1 DEF BatchInv
  <2> QED
    BY <2>1, <2>2 DEF BatchInv, OneResultEach, ResultsFollowBatch
<1> QED
  BY <1>1, AnswerInvariant, GateInvariant, PTL

\* No request reaches a device unreported: as long as run() has not raised, the
\* requests sent are those the results account for, and at most the one whose
\* answer is being waited for.
THEOREM EverySentReportedHolds == Spec => []EverySentReported
<1>1. AnswerInv => EverySentReported
  BY DEF AnswerInv
<1> QED
  BY <1>1, AnswerInvariant, PTL

\* An answer a result shows was asked of the target of that result, at its own
\* query or as many queries earlier as the device has repeated itself: on any
\* number of targets, for every counter width and however many repetitions.
THEOREM AnswersLagByRepeatsHolds == Spec => []AnswersLagByRepeats
<1>1. AnswerInv => AnswersLagByRepeats
  BY DEF AnswerInv, LagInv, AnswersLagByRepeats
<1> QED
  BY <1>1, AnswerInvariant, PTL
=============================================================================
