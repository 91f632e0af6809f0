------------------------------ MODULE HoneypotLog ------------------------------
(***************************************************************************)
(* What `modlure serve` promises whoever reads its standard output.        *)
(*                                                                         *)
(* Connections are served one after another, each at most once.  While one *)
(* is served, the events of its frames are published in the order the peer *)
(* sent them, each once, none left out.  A connection may be left, and the *)
(* whole service may stop, after any event.                                *)
(***************************************************************************)
EXTENDS ModbusFrame, FiniteSets, Sequences

CONSTANTS Peers, NoPeer, Streams

VARIABLES
  stream,     \* what each peer sends
  serving,    \* the connection being served, or NoPeer
  seen,       \* the connections that are or have been served
  log,        \* the published events
  stopped

vars == <<stream, serving, seen, log, stopped>>

\* How many events of a connection are published.
Published(c) == Cardinality({l \in DOMAIN log : log[l].src = c})

Init ==
  /\ stream \in [Peers -> Streams]
  /\ serving = NoPeer
  /\ seen = {}
  /\ log = <<>>
  /\ stopped = FALSE

Begin(c) ==
  /\ ~stopped
  /\ serving = NoPeer
  /\ c \notin seen
  /\ serving' = c
  /\ seen' = seen \cup {c}
  /\ UNCHANGED <<stream, log, stopped>>

Publish ==
  /\ serving \in Peers
  /\ Published(serving) < Len(stream[serving])
  /\ log' = Append(log,
              EventOf(stream[serving][Published(serving) + 1], serving))
  /\ UNCHANGED <<stream, serving, seen, stopped>>

Leave ==
  /\ serving \in Peers
  /\ serving' = NoPeer
  /\ UNCHANGED <<stream, seen, log, stopped>>

Stop ==
  /\ ~stopped
  /\ stopped' = TRUE
  /\ serving' = NoPeer
  /\ UNCHANGED <<stream, seen, log>>

Next == (\E c \in Peers : Begin(c)) \/ Publish \/ Leave \/ Stop

Spec == Init /\ [][Next]_vars
=============================================================================
