--------------------------- MODULE ProbeScope_proofs ---------------------------
(***************************************************************************)
(* What a target survives: being written as host:port, the form in which a *)
(* scope compares targets and in which _cmd_probe hands those of a file on. *)
(***************************************************************************)
EXTENDS ProbeScope, WellFoundedInduction, TLAPS

IsTargetOf(t) == t \in [host : Seq(Tokens), port : Ports]

LessOnNat == {ss \in Nat \X Nat : ss[1] < ss[2]}

LEMMA SmallestOf ==
  ASSUME NEW S \in SUBSET Nat, S # {}
  PROVE  \E m \in S : \A n \in S : m <= n
<1>1. IsWellFoundedOn(LessOnNat, Nat)
  BY NatLessThanWellFounded DEF LessOnNat, OpToRel
<1>2. \E m \in S : \A n \in S : ~ (<<n, m>> \in LessOnNat)
  <2>1. S \subseteq Nat
    OBVIOUS
  <2> QED
    BY <1>1, <2>1, WFMin
<1>3. PICK m \in S : \A n \in S : ~ (<<n, m>> \in LessOnNat)
  BY <1>2
<1>4. ASSUME NEW n \in S PROVE m <= n
  <2>1. ~(n < m)
    BY <1>3 DEF LessOnNat
  <2> QED
    BY <2>1
<1> QED
  BY <1>4

-----------------------------------------------------------------------------
(* What strip leaves *)

LEMMA FirstInk ==
  ASSUME NEW s \in Seq(Tokens)
  PROVE  \E n \in 1..(Len(s) + 1) : /\ n <= Len(s) => s[n] # "blank"
                                   /\ \A j \in 1..(n - 1) : s[j] = "blank"
<1> DEFINE P(n) == n <= Len(s) => s[n] # "blank"
           S == {n \in 1..(Len(s) + 1) : P(n)}
<1>1. Len(s) \in Nat
  OBVIOUS
<1>2. S \in SUBSET Nat /\ Len(s) + 1 \in S
  BY <1>1
<1>3. PICK m \in S : \A n \in S : m <= n
  <2> HIDE DEF S
  <2> QED
    BY <1>2, SmallestOf
<1>4. m \in 1..(Len(s) + 1) /\ P(m)
  OBVIOUS
<1>5. \A j \in 1..(m - 1) : s[j] = "blank"
  <2> SUFFICES ASSUME NEW j \in 1..(m - 1), s[j] # "blank" PROVE FALSE
    OBVIOUS
  <2>1. j \in S /\ j < m
    BY <1>1, <1>4
  <2> QED
    BY <1>1, <1>3, <1>4, <2>1
<1> QED
  BY <1>4, <1>5

LEMMA LastInk ==
  ASSUME NEW s \in Seq(Tokens)
  PROVE  \E n \in 0..Len(s) : /\ n >= 1 => s[n] # "blank"
                             /\ \A j \in (n + 1)..Len(s) : s[j] = "blank"
<1> DEFINE P(n) == n < Len(s) => s[Len(s) - n] # "blank"
           S == {n \in 0..Len(s) : P(n)}
<1>1. Len(s) \in Nat
  OBVIOUS
<1>2. S \in SUBSET Nat /\ Len(s) \in S
  BY <1>1
<1>3. PICK m \in S : \A n \in S : m <= n
  <2> HIDE DEF S
  <2> QED
    BY <1>2, SmallestOf
<1>4. m \in 0..Len(s) /\ P(m)
  OBVIOUS
<1>5. \A j \in (Len(s) - m + 1)..Len(s) : s[j] = "blank"
  <2> SUFFICES ASSUME NEW j \in (Len(s) - m + 1)..Len(s), s[j] # "blank" PROVE FALSE
    OBVIOUS
  <2>1. /\ Len(s) - j \in 0..Len(s) /\ Len(s) - j < m
        /\ Len(s) - (Len(s) - j) = j
    BY <1>1, <1>4
  <2>2. Len(s) - j \in S
    BY <2>1
  <2> QED
    BY <1>1, <1>3, <1>4, <2>1, <2>2
<1>6. /\ Len(s) - m \in 0..Len(s)
      /\ Len(s) - m >= 1 => s[Len(s) - m] # "blank"
  BY <1>1, <1>4
<1> QED
  BY <1>5, <1>6

\* strip cuts a piece out of the text that neither begins nor ends with a blank.
LEMMA StripShape ==
  ASSUME NEW s \in Seq(Tokens)
  PROVE  \E a \in 1..(Len(s) + 1), b \in 0..Len(s) :
           /\ Strip(s) = SubSeq(s, a, b)
           /\ a <= Len(s) => s[a] # "blank"
           /\ \A j \in 1..(a - 1) : s[j] = "blank"
           /\ b >= 1 => s[b] # "blank"
           /\ \A j \in (b + 1)..Len(s) : s[j] = "blank"
<1> DEFINE A(n) == /\ n <= Len(s) => s[n] # "blank"
                   /\ \A j \in 1..(n - 1) : s[j] = "blank"
           B(n) == /\ n >= 1 => s[n] # "blank"
                   /\ \A j \in (n + 1)..Len(s) : s[j] = "blank"
           a == CHOOSE n \in 1..(Len(s) + 1) : A(n)
           b == CHOOSE n \in 0..Len(s) : B(n)
<1>1. Strip(s) = SubSeq(s, a, b)
  BY DEF Strip
<1>2. (\E n \in 1..(Len(s) + 1) : A(n)) /\ (\E n \in 0..Len(s) : B(n))
  BY FirstInk, LastInk
<1>3. a \in 1..(Len(s) + 1) /\ A(a) /\ b \in 0..Len(s) /\ B(b)
  <2> HIDE DEF A, B
  <2> QED
    BY <1>2
<1> HIDE DEF a, b
<1> QED
  BY <1>1, <1>3

LEMMA StripTyped ==
  ASSUME NEW s \in Seq(Tokens)
  PROVE  /\ Strip(s) \in Seq(Tokens)
         /\ Strip(s) # <<>> => ~Blank(Strip(s))
<1>1. PICK a \in 1..(Len(s) + 1), b \in 0..Len(s) :
        /\ Strip(s) = SubSeq(s, a, b)
        /\ a <= Len(s) => s[a] # "blank"
  BY StripShape
<1>2. SubSeq(s, a, b) \in Seq(Tokens)
  OBVIOUS
<1>3. ASSUME Strip(s) # <<>> PROVE ~Blank(Strip(s))
  <2>1. a <= b
    BY <1>1, <1>3
  <2>2. 1 \in DOMAIN SubSeq(s, a, b) /\ SubSeq(s, a, b)[1] = s[a]
    BY <2>1
  <2>3. s[a] # "blank"
    BY <1>1, <2>1
  <2> QED
    BY <1>1, <2>2, <2>3 DEF Blank
<1> QED
  BY <1>1, <1>2, <1>3

\* A text with no blank at its ends is left as it is.
LEMMA StripNothing ==
  ASSUME NEW s \in Seq(Tokens), s # <<>>, s[1] # "blank", s[Len(s)] # "blank"
  PROVE  Strip(s) = s
<1>1. PICK a \in 1..(Len(s) + 1), b \in 0..Len(s) :
        /\ Strip(s) = SubSeq(s, a, b)
        /\ \A j \in 1..(a - 1) : s[j] = "blank"
        /\ \A j \in (b + 1)..Len(s) : s[j] = "blank"
  BY StripShape
<1>2. Len(s) \in Nat /\ Len(s) >= 1
  OBVIOUS
<1>3. a = 1 /\ b = Len(s)
  BY <1>1, <1>2
<1>4. SubSeq(s, 1, Len(s)) = s
  OBVIOUS
<1> QED
  BY <1>1, <1>3, <1>4

-----------------------------------------------------------------------------
(* What a key says *)

LEMMA KeyShape ==
  ASSUME NEW t, IsTargetOf(t)
  PROVE  /\ Key(t) \in Seq(Tokens) /\ Len(Key(t)) = Len(t.host) + 2
         /\ \A n \in 1..Len(t.host) : Key(t)[n] = t.host[n]
         /\ Key(t)[Len(t.host) + 1] = ":"
         /\ Key(t)[Len(t.host) + 2] = DecimalOf[t.port]
         /\ DecimalOf[t.port] \in Numerals /\ DecimalOf[t.port] \notin {":", "blank"}
         /\ t.host \in Seq(Tokens) /\ Len(t.host) \in Nat
<1>1. t.host \in Seq(Tokens) /\ t.port \in Ports
  BY DEF IsTargetOf
<1>2. DecimalOf[t.port] \in Numerals
  BY <1>1, NumeralsAssumption
<1>3. DecimalOf[t.port] \in Tokens /\ DecimalOf[t.port] \notin {":", "blank"} /\ ":" \in Tokens
  BY <1>2, WordsAssumption DEF Tokens, Marks
<1> DEFINE w == DecimalOf[t.port]
<1>4. Key(t) = t.host \o <<":", w>>
  BY DEF Key
<1> HIDE DEF w
<1>5. w \in Tokens
  BY <1>3 DEF w
<1>6. <<":", w>> \in Seq(Tokens) /\ Len(<<":", w>>) = 2
  BY <1>3, <1>5
<1> QED
  BY <1>1, <1>2, <1>3, <1>4, <1>6 DEF w

\* Two targets with the same key are the same: a scope that keeps keys allows no
\* target but those it was made from.
THEOREM KeyInjective ==
  ASSUME NEW t, NEW u, IsTargetOf(t), IsTargetOf(u), Key(t) = Key(u)
  PROVE  t = u
<1>1. Len(t.host) = Len(u.host)
  BY KeyShape
<1>2. t.host = u.host
  <2>1. t.host \in Seq(Tokens) /\ u.host \in Seq(Tokens)
    BY KeyShape
  <2>2. /\ \A n \in 1..Len(t.host) : Key(t)[n] = t.host[n]
        /\ \A n \in 1..Len(u.host) : Key(u)[n] = u.host[n]
    BY KeyShape
  <2>3. \A n \in 1..Len(t.host) : t.host[n] = u.host[n]
    BY <1>1, <2>2
  <2> QED
    BY <1>1, <2>1, <2>3
<1>3. t.port = u.port
  <2>1. DecimalOf[t.port] = DecimalOf[u.port]
    BY <1>1, KeyShape
  <2>2. t.port \in Ports /\ u.port \in Ports
    BY DEF IsTargetOf
  <2> QED
    BY <2>1, <2>2, NumeralsAssumption
<1> QED
  BY <1>2, <1>3 DEF IsTargetOf

LEMMA FirstColon ==
  ASSUME NEW s \in Seq(Tokens), NEW m \in 1..Len(s), s[m] = ":",
         \A j \in 1..(m - 1) : s[j] # ":"
  PROVE  FirstAt(s, ":") = m
<1> DEFINE P(n) == /\ n <= Len(s) => s[n] = ":"
                   /\ \A j \in 1..(n - 1) : s[j] # ":"
<1>1. m \in 1..(Len(s) + 1) /\ P(m)
  OBVIOUS
<1>2. ASSUME NEW n \in 1..(Len(s) + 1), P(n) PROVE n = m
  BY <1>2
<1>3. FirstAt(s, ":") = CHOOSE n \in 1..(Len(s) + 1) : P(n)
  BY DEF FirstAt
<1> HIDE DEF P
<1> QED
  BY <1>1, <1>2, <1>3

\* A target whose host has no colon and starts with neither a bracket nor a blank
\* is the same after it has been written as a key and parsed again.
THEOREM PlainSurvives ==
  ASSUME NEW t, IsTargetOf(t), Plain(t.host)
  PROVE  Parse(Key(t)) = t
<1> DEFINE s == Key(t)
           w == DecimalOf[t.port]
           m == Len(t.host) + 1
<1>1. /\ s \in Seq(Tokens) /\ Len(s) = m + 1 /\ m \in 1..Len(s) /\ s[m] = ":" /\ s[m + 1] = w
      /\ \A n \in 1..(m - 1) : s[n] = t.host[n]
      /\ w \in Numerals /\ w \notin {":", "blank"} /\ t.host \in Seq(Tokens) /\ m - 1 = Len(t.host)
      /\ t.port \in Ports
  BY KeyShape DEF IsTargetOf
<1>2. \A n \in 1..(m - 1) : s[n] # ":"
  BY <1>1 DEF Plain
<1>3. s[1] \notin {"[", "blank"} /\ s[Len(s)] # "blank"
  BY <1>1 DEF Plain
<1>a. ~Bracketed(s)
  BY <1>3 DEF Bracketed
<1> HIDE DEF s, w, m
<1>4. FirstAt(s, ":") = m
  BY <1>1, <1>2, FirstColon
<1>5. OneColon(s)
  <2>1. \A j \in DOMAIN s : s[j] = ":" => j = m
    BY <1>1, <1>2
  <2> QED
    BY <1>1, <2>1 DEF OneColon
<1>6. Before(s, ":") = t.host
  BY <1>1, <1>4 DEF Before
<1>7. After(s, ":") = <<w>>
  <2>1. After(s, ":") = SubSeq(s, m + 1, m + 1)
    BY <1>1, <1>4 DEF After
  <2>2. /\ SubSeq(s, m + 1, m + 1) \in Seq(Tokens) /\ Len(SubSeq(s, m + 1, m + 1)) = 1
        /\ SubSeq(s, m + 1, m + 1)[1] = s[m + 1]
    BY <1>1
  <2> QED
    BY <1>1, <2>1, <2>2
<1>8. s # <<>>
  BY <1>1
<1>b. Strip(s) = s
  BY <1>1, <1>3, <1>8, StripNothing
<1>9. Parse(s) = WithPort(t.host, <<w>>)
  BY <1>a, <1>b, <1>5, <1>6, <1>7, <1>8 DEF Parse, ParseStripped
<1>10. WithPort(t.host, <<w>>) = [host |-> t.host, port |-> ValueOf[w]]
  <2>1. <<w>> # <<>> /\ Len(<<w>>) = 1 /\ <<w>>[1] = w
    OBVIOUS
  <2>2. w \in Tokens
    BY <1>1, WordsAssumption DEF Tokens
  <2>3. Strip(<<w>>) = <<w>>
    <3> DEFINE x == <<w>>
    <3>1. x \in Seq(Tokens) /\ x # <<>> /\ Len(x) = 1 /\ x[1] = w
      BY <2>1, <2>2
    <3> HIDE DEF x
    <3>2. Strip(x) = x
      BY <1>1, <3>1, StripNothing
    <3> QED
      BY <3>2 DEF x
  <2> QED
    BY <1>1, <2>1, <2>3 DEF WithPort
<1>11. ValueOf[w] = t.port
  BY <1>1, NumeralsAssumption DEF w
<1> QED
  BY <1>9, <1>10, <1>11 DEF s, IsTargetOf


-----------------------------------------------------------------------------
(* What parse accepts is a target *)

\* partition finds the first mark, or the end.
LEMMA FirstAtExists ==
  ASSUME NEW s \in Seq(Tokens), NEW t
  PROVE  FirstAt(s, t) \in 1..(Len(s) + 1)
<1> DEFINE P(n) == n <= Len(s) => s[n] = t
           S == {n \in 1..(Len(s) + 1) : P(n)}
           Q(n) == /\ n <= Len(s) => s[n] = t
                   /\ \A j \in 1..(n - 1) : s[j] # t
<1>1. Len(s) \in Nat
  OBVIOUS
<1>2. S \in SUBSET Nat /\ Len(s) + 1 \in S
  BY <1>1
<1>3. PICK m \in S : \A n \in S : m <= n
  <2> HIDE DEF S
  <2> QED
    BY <1>2, SmallestOf
<1>4. m \in 1..(Len(s) + 1) /\ P(m)
  OBVIOUS
<1>5. \A j \in 1..(m - 1) : s[j] # t
  <2> SUFFICES ASSUME NEW j \in 1..(m - 1), s[j] = t PROVE FALSE
    OBVIOUS
  <2>1. j \in S /\ j < m
    BY <1>1, <1>4
  <2> QED
    BY <1>1, <1>3, <1>4, <2>1
<1>6. FirstAt(s, t) = CHOOSE n \in 1..(Len(s) + 1) : Q(n)
  BY DEF FirstAt
<1>7. m \in 1..(Len(s) + 1) /\ Q(m)
  BY <1>4, <1>5
<1> HIDE DEF Q, S, P
<1> QED
  BY <1>6, <1>7

LEMMA PartsTyped ==
  ASSUME NEW s \in Seq(Tokens), NEW t
  PROVE  Before(s, t) \in Seq(Tokens)
<1>1. PICK k \in 1..(Len(s) + 1) : k = FirstAt(s, t)
  BY FirstAtExists
<1>2. SubSeq(s, 1, k - 1) \in Seq(Tokens)
  OBVIOUS
<1> QED
  BY <1>1, <1>2 DEF Before

LEMMA WithPortTyped ==
  ASSUME NEW host \in Seq(Tokens), NEW left, WithPort(host, left) # NoTarget
  PROVE  IsTargetOf(WithPort(host, left))
<1>1. CASE left = <<>>
  BY <1>1, NumeralsAssumption DEF WithPort, IsTargetOf
<1> DEFINE digits == Strip(left)
<1>2. CASE left # <<>> /\ Len(digits) = 1 /\ digits[1] \in Numerals
  <2>1. ValueOf[digits[1]] \in Ports
    BY <1>2 DEF Ports
  <2>2. WithPort(host, left) = [host |-> host, port |-> ValueOf[digits[1]]]
    BY <1>2 DEF WithPort
  <2> QED
    BY <2>1, <2>2 DEF IsTargetOf
<1>3. CASE ~(left = <<>>) /\ ~(Len(digits) = 1 /\ digits[1] \in Numerals)
  BY <1>3 DEF WithPort
<1> HIDE DEF digits
<1> QED
  BY <1>1, <1>2, <1>3

\* Whatever parse accepts is a target.
THEOREM ParseAccepts ==
  ASSUME NEW text \in Seq(Tokens), Parse(text) # NoTarget
  PROVE  IsTargetOf(Parse(text))
<1>0. PICK spec \in Seq(Tokens) : spec = Strip(text)
  BY StripTyped
<1>a. Parse(text) = ParseStripped(spec)
  BY <1>0 DEF Parse
<1>1. spec # <<>>
  <2> SUFFICES ASSUME spec = <<>> PROVE ParseStripped(spec) = NoTarget
    BY <1>a
  <2>1. ~Bracketed(spec) /\ ~OneColon(spec)
    BY DEF Bracketed, OneColon
  <2> QED
    BY <2>1 DEF ParseStripped
<1> SUFFICES IsTargetOf(ParseStripped(spec))
  BY <1>a
<1>b. ParseStripped(spec) # NoTarget
  BY <1>a
<1>2. CASE Bracketed(spec)
  <2>1. Tail(spec) \in Seq(Tokens)
    BY <1>1
  <2>2. PICK left : left = DropColons(After(Tail(spec), "]"))
    OBVIOUS
  <2>3. ParseStripped(spec) = WithPort(Before(Tail(spec), "]"), left)
    BY <1>1, <1>2, <2>2 DEF ParseStripped
  <2> QED
    BY <1>b, <2>1, <2>3, PartsTyped, WithPortTyped
<1>3. CASE ~Bracketed(spec) /\ OneColon(spec)
  <2>1. ParseStripped(spec) = WithPort(Before(spec, ":"), After(spec, ":"))
    BY <1>1, <1>3 DEF ParseStripped
  <2> QED
    BY <1>b, <2>1, PartsTyped, WithPortTyped
<1>4. CASE ~Bracketed(spec) /\ ~OneColon(spec)
  <2>1. ParseStripped(spec) = [host |-> spec, port |-> DefaultPort]
    BY <1>1, <1>4 DEF ParseStripped
  <2> QED
    BY <2>1, NumeralsAssumption DEF IsTargetOf
<1> QED
  BY <1>2, <1>3, <1>4
=============================================================================
