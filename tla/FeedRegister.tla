----------------------------- MODULE FeedRegister -----------------------------
(***************************************************************************)
(* What the feed cache promises its callers when nobody else uses the same *)
(* directory at the same time and nothing is cut off: each directory is a  *)
(* register.                                                               *)
(*                                                                         *)
(* It holds what a download returned, from the moment it was returned, or  *)
(* nothing.  A snapshot carries it to another directory.  A get answers    *)
(* with what the register holds, or refuses: for want of a network, or,    *)
(* offline, because the register is empty, and for no other reason.        *)
(***************************************************************************)
EXTENDS Integers

CONSTANTS Procs, Sites, SiteOf, None

VARIABLES
  reg,        \* per directory: the time its content was downloaded, or None
  snapshot,   \* the content of the last complete snapshot, or None
  answer,     \* per process: how its last get ended
  now

vars == <<reg, snapshot, answer, now>>

Pending       == [how |-> "", value |-> None]
Answered(v)   == [how |-> "ok", value |-> v]
Refused(why)  == [how |-> why, value |-> None]

Init == /\ reg = [s \in Sites |-> None]
        /\ snapshot = None
        /\ answer = [p \in Procs |-> Pending]
        /\ now = 0

Tick == now' = now + 1 /\ UNCHANGED <<reg, snapshot, answer>>

Download(s) == reg' = [reg EXCEPT ![s] = now] /\ UNCHANGED <<snapshot, answer, now>>

\* A snapshot is being replaced; it is complete.
Discard   == snapshot' = None /\ UNCHANGED <<reg, answer, now>>
Export(s) == snapshot' = reg[s] /\ UNCHANGED <<reg, answer, now>>

Import(s) == /\ snapshot # None
             /\ reg' = [reg EXCEPT ![s] = snapshot]
             /\ UNCHANGED <<snapshot, answer, now>>

Ask(p) == answer' = [answer EXCEPT ![p] = Pending] /\ UNCHANGED <<reg, snapshot, now>>

GetAnswers(p) ==
  /\ reg[SiteOf[p]] # None
  /\ answer' = [answer EXCEPT ![p] = Answered(reg[SiteOf[p]])]
  /\ UNCHANGED <<reg, snapshot, now>>

GetRefuses(p) ==
  /\ \E why \in {"ConnectionError", "HTTPException", "FileNotFoundError"} :
       /\ why = "FileNotFoundError" => reg[SiteOf[p]] = None
       /\ answer' = [answer EXCEPT ![p] = Refused(why)]
  /\ UNCHANGED <<reg, snapshot, now>>

Next == \/ Tick \/ Discard
        \/ \E s \in Sites : Download(s) \/ Export(s) \/ Import(s)
        \/ \E p \in Procs : Ask(p) \/ GetAnswers(p) \/ GetRefuses(p)

Spec == Init /\ [][Next]_vars
=============================================================================
