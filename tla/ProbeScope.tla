------------------------------ MODULE ProbeScope ------------------------------
(***************************************************************************)
(* Targets of `modlure probe`: Target.parse and Target.key of              *)
(* modlure/probe.py as operators.                                          *)
(*                                                                         *)
(* A text is a sequence of tokens: the four characters the code looks at,  *)
(* blanks, and the words between them, which never stand side by side.     *)
(* A word is a numeral when int() accepts it.                              *)
(***************************************************************************)
EXTENDS Integers, Sequences

CONSTANTS
  Words,
  Numerals,    \* the words that int() accepts
  ValueOf,     \* int() of a numeral
  DecimalOf,   \* the numeral that an f-string writes for a number
  NoPort       \* marks a text that parse refuses

Marks  == {":", "[", "]", "#", "blank"}
Tokens == Words \cup Marks
Ports  == {ValueOf[w] : w \in Numerals}

DefaultPort == 502

ASSUME WordsAssumption == Numerals \subseteq Words /\ Words \cap Marks = {}
ASSUME NumeralsAssumption ==
  /\ ValueOf \in [Numerals -> Int]
  /\ DefaultPort \in Ports /\ NoPort \notin Ports
  /\ DecimalOf \in [Ports -> Numerals]
  /\ \A n \in Ports : ValueOf[DecimalOf[n]] = n

\* What parse raises: ValueError.
NoTarget == [host |-> <<>>, port |-> NoPort]

\* s.strip(): from the first token that is no blank to the last.
Strip(s) == LET first == CHOOSE n \in 1..(Len(s) + 1) :
                           /\ n <= Len(s) => s[n] # "blank"
                           /\ \A j \in 1..(n - 1) : s[j] = "blank"
                last  == CHOOSE n \in 0..Len(s) :
                           /\ n >= 1 => s[n] # "blank"
                           /\ \A j \in (n + 1)..Len(s) : s[j] = "blank"
            IN  SubSeq(s, first, last)

Blank(s) == \A n \in DOMAIN s : s[n] = "blank"

\* s.partition(t): what stands before the first t, and after it; all of s and
\* nothing when there is none.
FirstAt(s, t) == CHOOSE n \in 1..(Len(s) + 1) :
                   /\ n <= Len(s) => s[n] = t
                   /\ \A j \in 1..(n - 1) : s[j] # t
Before(s, t)  == SubSeq(s, 1, FirstAt(s, t) - 1)
After(s, t)   == SubSeq(s, FirstAt(s, t) + 1, Len(s))

\* s.lstrip(":")
DropColons(s) == LET n == CHOOSE n \in 1..(Len(s) + 1) :
                            /\ n <= Len(s) => s[n] # ":"
                            /\ \A j \in 1..(n - 1) : s[j] = ":"
                 IN  SubSeq(s, n, Len(s))

\* s.count(":") == 1
OneColon(s) == \E n \in DOMAIN s : /\ s[n] = ":"
                                   /\ \A j \in DOMAIN s : s[j] = ":" => j = n

\* The port is int() of what is left, 502 when nothing is.  int() strips, too.
WithPort(host, left) ==
  LET digits == Strip(left)
  IN  CASE left = <<>> -> [host |-> host, port |-> DefaultPort]
        [] left # <<>> /\ Len(digits) = 1 /\ digits[1] \in Numerals ->
             [host |-> host, port |-> ValueOf[digits[1]]]
        [] OTHER -> NoTarget

Bracketed(text) == text # <<>> /\ text[1] = "["

ParseStripped(spec) ==
  CASE spec = <<>> -> NoTarget
    [] Bracketed(spec) -> LET inner == Tail(spec)
                          IN  WithPort(Before(inner, "]"), DropColons(After(inner, "]")))
    [] ~Bracketed(spec) /\ OneColon(spec) -> WithPort(Before(spec, ":"), After(spec, ":"))
    [] OTHER -> [host |-> spec, port |-> DefaultPort]

Parse(text) == ParseStripped(Strip(text))

\* Mutant of Key: the port is left out.
KeyHostOnly(target) == target.host

Key(target) == target.host \o <<":", DecimalOf[target.port]>>

\* The hosts that survive being written as a key and parsed again.
Plain(host) == /\ \A n \in DOMAIN host : host[n] # ":"
               /\ host # <<>> => host[1] \notin {"[", "blank"}
=============================================================================
