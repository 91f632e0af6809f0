-------------------------- MODULE CommandLine_proofs --------------------------
(***************************************************************************)
(* Theorems about CommandLine, for any command lines, feeds and catalogue. *)
(*                                                                         *)
(* The argument for `modlure probe`: once the scope is built, what is      *)
(* probed and what is still to be probed make up the plan, the targets     *)
(* that BuildScope parsed; and the plan is the list of the options and the *)
(* file, since a key of a plain host is parsed to the target it was made   *)
(* of.  For `modlure feeds update`: the feeds tried are those asked for,   *)
(* less those still to be tried.                                           *)
(***************************************************************************)
EXTENDS CommandLine, ProbeScope_proofs, FiniteSetTheorems, FunctionTheorems, TLAPS

-----------------------------------------------------------------------------
(* The entries of a sequence at some of its positions                       *)

Rank(I, n) == Cardinality({m \in I : m <= n})

LEMMA SomePositions ==
  ASSUME NEW m \in Nat, NEW I \in SUBSET (1..m)
  PROVE  /\ IsFiniteSet(I) /\ Cardinality(I) \in Nat
         /\ \A n \in I : /\ IsFiniteSet({k \in I : k <= n})
                         /\ Rank(I, n) \in 1..Cardinality(I)
<1>1. IsFiniteSet(1..m)
  BY FS_Interval
<1>2. IsFiniteSet(I) /\ Cardinality(I) \in Nat
  BY <1>1, FS_Subset, FS_CardinalityType
<1>3. ASSUME NEW n \in I
      PROVE  IsFiniteSet({k \in I : k <= n}) /\ Rank(I, n) \in 1..Cardinality(I)
  <2> DEFINE U == {k \in I : k <= n}
  <2>1. U \in SUBSET I /\ n \in U
    OBVIOUS
  <2> HIDE DEF U
  <2>2. IsFiniteSet(U) /\ Cardinality(U) \in Nat /\ Cardinality(U) <= Cardinality(I)
    BY <1>2, <2>1, FS_Subset, FS_CardinalityType
  <2>3. Cardinality(U) # 0
    BY <2>1, <2>2, FS_EmptySet
  <2> USE DEF U
  <2> QED
    BY <1>2, <2>2, <2>3 DEF Rank
<1> QED
  BY <1>2, <1>3

LEMMA RanksDiffer ==
  ASSUME NEW m \in Nat, NEW I \in SUBSET (1..m), NEW j \in I, NEW n \in I, j < n
  PROVE  Rank(I, j) < Rank(I, n)
<1> DEFINE T == {k \in I : k <= j}
           U == {k \in I : k <= n}
<1>1. T \in SUBSET U /\ n \in U /\ n \notin T
  <2>1. \A k \in I : k \in Nat
    OBVIOUS
  <2>2. \A k \in I : k <= j => k <= n
    BY <2>1
  <2>3. n <= n /\ ~(n <= j)
    BY <2>1
  <2> QED
    BY <2>2, <2>3
<1>2. IsFiniteSet(U) /\ IsFiniteSet(T)
  BY SomePositions
<1>3. Rank(I, j) = Cardinality(T) /\ Rank(I, n) = Cardinality(U)
  BY DEF Rank
<1> HIDE DEF T, U
<1>4. /\ Cardinality(T) \in Nat /\ Cardinality(U) \in Nat
      /\ Cardinality(T) <= Cardinality(U) /\ Cardinality(T) # Cardinality(U)
  BY <1>1, <1>2, FS_Subset, FS_CardinalityType
<1> QED
  BY <1>3, <1>4

\* Each place of the result belongs to one position.
LEMMA RanksAreAll ==
  ASSUME NEW m \in Nat, NEW I \in SUBSET (1..m)
  PROVE  /\ \A k \in 1..Cardinality(I) : \E n \in I : Rank(I, n) = k
         /\ \A j, n \in I : Rank(I, j) = Rank(I, n) => j = n
<1> DEFINE f == [n \in I |-> Rank(I, n)]
           K == 1..Cardinality(I)
<1>1. IsFiniteSet(I) /\ Cardinality(I) \in Nat /\ \A n \in I : Rank(I, n) \in K
  BY SomePositions
<1>2. \A j, n \in I : Rank(I, j) = Rank(I, n) => j = n
  <2> SUFFICES ASSUME NEW j \in I, NEW n \in I, Rank(I, j) = Rank(I, n), j # n
               PROVE  FALSE
    OBVIOUS
  <2>1. j < n \/ n < j
    OBVIOUS
  <2>2. Rank(I, j) \in Nat /\ Rank(I, n) \in Nat
    BY <1>1
  <2>3. Rank(I, j) < Rank(I, n) \/ Rank(I, n) < Rank(I, j)
    BY <2>1, RanksDiffer
  <2> QED
    BY <2>2, <2>3
<1>3. f \in [I -> K] /\ \A a, b \in I : f[a] = f[b] => a = b
  BY <1>1, <1>2
<1>4. IsFiniteSet(K) /\ Cardinality(K) = Cardinality(I)
  BY <1>1, FS_Interval
<1>5. \A k \in K : \E n \in I : f[n] = k
  <2> HIDE DEF f, K
  <2>1. f \in Injection(I, K)
    BY <1>3, Fun_IsInj
  <2>2. f \in Surjection(I, K)
    BY <1>4, <2>1, FS_Injection
  <2> QED
    BY <2>2, Fun_SurjectionProperties
<1> QED
  BY <1>2, <1>5

LEMMA EntryAt ==
  ASSUME NEW s, NEW m \in Nat, NEW I \in SUBSET (1..m), NEW n \in I
  PROVE  AtPositions(s, I)[Rank(I, n)] = s[n]
<1> DEFINE C(k) == CHOOSE j \in I : Cardinality({i \in I : i <= j}) = k
<1>1. \A k : C(k) = CHOOSE j \in I : Rank(I, j) = k
  BY DEF Rank
<1>2. C(Rank(I, n)) = n
  <2>1. PICK r : r = Rank(I, n)
    OBVIOUS
  <2>2. C(r) = CHOOSE j \in I : Rank(I, j) = r
    BY <1>1
  <2>3. C(r) \in I /\ Rank(I, C(r)) = r
    <3> HIDE DEF C
    <3> QED
      BY <2>1, <2>2
  <2> HIDE DEF C
  <2> QED
    BY <2>1, <2>3, RanksAreAll
<1>3. Rank(I, n) \in 1..Cardinality(I)
  BY SomePositions
<1>4. AtPositions(s, I) = [k \in 1..Cardinality(I) |-> s[C(k)]]
  BY DEF AtPositions
<1> HIDE DEF C
<1> QED
  BY <1>2, <1>3, <1>4

LEMMA EntriesFrom ==
  ASSUME NEW T, NEW s \in Seq(T), NEW I \in SUBSET (DOMAIN s)
  PROVE  /\ AtPositions(s, I) \in Seq(T) /\ Len(AtPositions(s, I)) = Cardinality(I)
         /\ Cardinality(I) \in Nat
         /\ \A k \in 1..Cardinality(I) : \E n \in I : /\ Rank(I, n) = k
                                                      /\ AtPositions(s, I)[k] = s[n]
<1>1. Len(s) \in Nat /\ I \in SUBSET (1..Len(s)) /\ \A n \in I : s[n] \in T
  OBVIOUS
<1>2. Cardinality(I) \in Nat
  BY <1>1, SomePositions
<1>3. \A k \in 1..Cardinality(I) : \E n \in I : Rank(I, n) = k /\ AtPositions(s, I)[k] = s[n]
  <2>1. PICK m \in Nat : I \in SUBSET (1..m)
    BY <1>1
  <2>2. \A k \in 1..Cardinality(I) : \E n \in I : Rank(I, n) = k
    BY <2>1, RanksAreAll
  <2>3. \A n \in I : AtPositions(s, I)[Rank(I, n)] = s[n]
    BY <2>1, EntryAt
  <2> QED
    BY <2>2, <2>3
<1>4. PICK f : f = AtPositions(s, I)
  OBVIOUS
<1>5. DOMAIN f = 1..Cardinality(I) /\ f = [k \in 1..Cardinality(I) |-> f[k]]
  BY <1>4 DEF AtPositions
<1>6. \A k \in 1..Cardinality(I) : f[k] \in T
  BY <1>1, <1>3, <1>4
<1>7. f \in Seq(T) /\ Len(f) = Cardinality(I)
  BY <1>2, <1>5, <1>6
<1> QED
  BY <1>2, <1>3, <1>4, <1>7

-----------------------------------------------------------------------------
(* The invariant                                                            *)

TargetType == [host : Seq(Tokens), port : Ports]
Probes     == [target : TargetType, outcome : Outcomes \cup {"raised"}]

\* What BuildScope is given, and the targets it makes of that.
FileSpecs == IF args.file = "read" THEN Specs(args.lines) ELSE <<>>
Given     == args.target \o FileSpecs
Plan      == ParseAll(NonBlank(Given))

\* What holds once the file is read, and once the scope is built.
FileAccepted == /\ args.authorized
                /\ args.file \in {"none", "read"}
                /\ ~SomeRefused(FileEntries)
Accepted     == FileAccepted /\ ~SomeRefused(Given)

\* The targets are taken from the plan one after the other.
OnPlan == /\ Len(probed) <= Len(Plan)
          /\ \A n \in 1..Len(probed) : probed[n].target = Plan[n]

RunInv ==
  /\ OnPlan
  /\ pc = "run" => /\ todo \in Seq(TargetType)
                   /\ Len(probed) + Len(todo) = Len(Plan)
                   /\ \A n \in 1..Len(todo) : todo[n] = Plan[Len(probed) + n]
  /\ ended = "returned" => status # 2 /\ Len(probed) = Len(Plan)

ProbeInv ==
  /\ pc = "scope_file" => args.authorized /\ todo = args.target
  /\ pc = "specs" => FileAccepted /\ todo = Given
  /\ \/ pc = "run"
     \/ probed # <<>>
     \/ ended = "returned" /\ status # 2
     => Accepted /\ RunInv

\* What the first k feeds asked for have come to.
Tried(k) ==
  /\ \A n \in 1..k : Known(Requested[n]) => Requested[n] \in stored \cup failed
  /\ status = 0 => \A n \in 1..k : Requested[n] \in stored
  /\ status # 0 => failed # {} \/ \E n \in 1..k : ~Known(Requested[n])

FeedInv ==
  /\ pc = "update" => status = 0
  /\ pc = "feeds" =>
       /\ todo \in Seq({Requested[n] : n \in DOMAIN Requested})
       /\ Len(todo) <= Len(Requested)
       /\ \A n \in 1..Len(todo) :
            todo[n] = Requested[Len(Requested) - Len(todo) + n]
       /\ Tried(Len(Requested) - Len(todo))
  /\ pc = "end" /\ ended = "returned" /\ args.action = "update" => Tried(Len(Requested))

\* Where a command may be.
PcInv ==
  /\ args \in Invocations
  /\ pc \in Labels
  /\ status \in 0..2
  /\ ended \in {"no", "returned", "raised"}
  /\ ended = "no" <=> pc # "end"
  /\ probed \in Seq(Probes)
  /\ pc = "main" => status = 0
  /\ pc \in {"authorize", "scope_file", "specs", "run"} => args.sub = "probe"
  /\ probed # <<>> => args.sub = "probe" /\ pc \in {"run", "end"}
  /\ pc \in {"none", "list", "update", "get", "snapshot"} =>
       args.sub \in {"feeds", "datafeeds"} /\ args.action = pc
  /\ pc = "feeds" => args.sub \in {"feeds", "datafeeds"} /\ args.action = "update"

CommandInv ==
  /\ PcInv
  /\ args.sub = "probe" => ProbeInv
  /\ args.sub = "feeds" => FeedInv

-----------------------------------------------------------------------------
(* Texts and the targets that are made of them                              *)

\* The positions in I of l, and the k that come behind those l.
Behind(I, l, k) == I \cup ((l + 1)..(l + k))

LEMMA RankBehind ==
  ASSUME NEW l \in Nat, NEW k \in Nat, NEW I \in SUBSET (1..l)
  PROVE  /\ Behind(I, l, k) \in SUBSET (1..(l + k))
         /\ Cardinality(Behind(I, l, k)) = Cardinality(I) + k /\ Cardinality(I) \in Nat
         /\ \A n \in I : Rank(Behind(I, l, k), n) = Rank(I, n)
         /\ \A j \in 1..k : Rank(Behind(I, l, k), l + j) = Cardinality(I) + j
<1> DEFINE J == I \cup ((l + 1)..(l + k))
<1>1. IsFiniteSet(I) /\ Cardinality(I) \in Nat
  BY SomePositions
<1>2. ASSUME NEW j \in Nat
      PROVE  Cardinality(I \cup ((l + 1)..(l + j))) = Cardinality(I) + j
  <2> DEFINE X == (l + 1)..(l + j)
  <2>1. IsFiniteSet(X) /\ Cardinality(X) = j
    BY FS_Interval
  <2>2. I \cap X = {}
    <3>1. \A i \in I : i \in Nat /\ ~(l + 1 <= i)
      OBVIOUS
    <3> QED
      BY <3>1
  <2> HIDE DEF X
  <2>3. Cardinality(I \cup X) = Cardinality(I) + Cardinality(X) - Cardinality(I \cap X)
    BY <1>1, <2>1, FS_Union
  <2>4. Cardinality(I \cap X) = 0
    BY <2>2, FS_EmptySet
  <2>5. Cardinality(I \cup X) = Cardinality(I) + j
    BY <1>1, <2>1, <2>3, <2>4
  <2> QED
    BY <2>5 DEF X
<1>3. \A i \in I : i \in Nat /\ 1 <= i /\ i <= l
  OBVIOUS
<1>4. J \in SUBSET (1..(l + k))
  <2>1. \A i \in J : i \in Nat /\ 1 <= i /\ i <= l + k
    BY <1>3
  <2> QED
    BY <2>1
<1>5. ASSUME NEW n \in I PROVE Rank(J, n) = Rank(I, n)
  <2>1. \A m \in (l + 1)..(l + k) : ~(m <= n)
    BY <1>3
  <2>2. {m \in J : m <= n} = {m \in I : m <= n}
    BY <2>1
  <2> QED
    BY <2>2 DEF Rank
<1>6. ASSUME NEW j \in 1..k PROVE Rank(J, l + j) = Cardinality(I) + j
  <2>1. \A m \in I : m <= l + j
    BY <1>3
  <2>2. \A m \in (l + 1)..(l + k) : m <= l + j <=> m \in (l + 1)..(l + j)
    OBVIOUS
  <2>3. (l + 1)..(l + j) \subseteq (l + 1)..(l + k)
    OBVIOUS
  <2>4. {m \in J : m <= l + j} = I \cup ((l + 1)..(l + j))
    BY <2>1, <2>2, <2>3
  <2>5. j \in Nat
    OBVIOUS
  <2> QED
    BY <1>2, <2>4, <2>5 DEF Rank
<1>7. Behind(I, l, k) = J
  BY DEF Behind
<1>8. Cardinality(J) = Cardinality(I) + k
  BY <1>2
<1> HIDE DEF J
<1> QED
  BY <1>1, <1>4, <1>5, <1>6, <1>7, <1>8

LEMMA ConcatLemma ==
  ASSUME NEW T, NEW s \in Seq(T), NEW t \in Seq(T)
  PROVE  /\ s \o t \in Seq(T) /\ Len(s \o t) = Len(s) + Len(t)
         /\ \A n \in 1..Len(s) : (s \o t)[n] = s[n]
         /\ \A n \in 1..Len(t) : (s \o t)[Len(s) + n] = t[n]
OBVIOUS

LEMMA AllBehindKept ==
  ASSUME NEW T, NEW s \in Seq(T), NEW t \in Seq(T), NEW I \in SUBSET (DOMAIN s)
  PROVE  AtPositions(s \o t, Behind(I, Len(s), Len(t))) = AtPositions(s, I) \o t
<1>1. PICK l \in Nat, k \in Nat : l = Len(s) /\ k = Len(t) /\ DOMAIN s = 1..l
  OBVIOUS
<1>2. PICK J : J = Behind(I, l, k) /\ J = Behind(I, Len(s), Len(t))
  BY <1>1
<1>3. I \in SUBSET (1..l)
  BY <1>1
<1>4. PICK r : r = s \o t
  OBVIOUS
<1>5. /\ r \in Seq(T) /\ Len(r) = l + k /\ DOMAIN r = 1..(l + k)
      /\ \A n \in 1..l : r[n] = s[n]
      /\ \A j \in 1..k : r[l + j] = t[j]
  BY <1>1, <1>4
<1>6. /\ J \in SUBSET (1..(l + k)) /\ Cardinality(J) = Cardinality(I) + k
      /\ Cardinality(I) \in Nat
      /\ \A n \in I : Rank(J, n) = Rank(I, n)
      /\ \A j \in 1..k : Rank(J, l + j) = Cardinality(I) + j
  <2>1. l \in Nat /\ k \in Nat /\ I \in SUBSET (1..l)
    BY <1>1, <1>3
  <2>2. /\ Behind(I, l, k) \in SUBSET (1..(l + k))
        /\ Cardinality(Behind(I, l, k)) = Cardinality(I) + k /\ Cardinality(I) \in Nat
        /\ \A n \in I : Rank(Behind(I, l, k), n) = Rank(I, n)
        /\ \A j \in 1..k : Rank(Behind(I, l, k), l + j) = Cardinality(I) + j
    BY <2>1, RankBehind
  <2> QED
    BY <1>2, <2>2
<1>7. PICK f, g : f = AtPositions(r, J) /\ g = AtPositions(s, I)
  OBVIOUS
<1>8. /\ g \in Seq(T) /\ Len(g) = Cardinality(I)
      /\ \A c \in 1..Cardinality(I) : \E n \in I : Rank(I, n) = c /\ g[c] = s[n]
  BY <1>7, EntriesFrom
<1>9. f \in Seq(T) /\ Len(f) = Cardinality(J)
  <2>1. J \in SUBSET (DOMAIN r)
    BY <1>5, <1>6
  <2> QED
    BY <1>5, <1>7, <2>1, EntriesFrom
<1>10. \A n \in J : f[Rank(J, n)] = r[n]
  <2>1. l + k \in Nat
    OBVIOUS
  <2> QED
    BY <1>6, <1>7, <2>1, EntryAt
<1>11. \A c \in 1..Cardinality(I) : f[c] = g[c]
  <2> SUFFICES ASSUME NEW c \in 1..Cardinality(I) PROVE f[c] = g[c]
    OBVIOUS
  <2>1. PICK n \in I : Rank(I, n) = c /\ g[c] = s[n]
    BY <1>8
  <2>2. n \in J /\ Rank(J, n) = c /\ r[n] = s[n]
    BY <1>2, <1>3, <1>5, <1>6, <2>1 DEF Behind
  <2> QED
    BY <1>10, <2>1, <2>2
<1>12. \A j \in 1..k : f[Cardinality(I) + j] = t[j]
  <2> SUFFICES ASSUME NEW j \in 1..k PROVE f[Cardinality(I) + j] = t[j]
    OBVIOUS
  <2>1. l + j \in J /\ Rank(J, l + j) = Cardinality(I) + j /\ r[l + j] = t[j]
    <3>1. l + j \in (l + 1)..(l + k)
      OBVIOUS
    <3> QED
      BY <1>2, <1>5, <1>6, <3>1 DEF Behind
  <2> QED
    BY <1>10, <2>1
<1>13. f = g \o t
  <2>1. PICK c \in Nat : c = Cardinality(I)
    BY <1>6
  <2>2. f \in Seq(T) /\ g \in Seq(T) /\ Len(f) = c + k /\ Len(g) = c
    BY <1>6, <1>8, <1>9, <2>1
  <2>3. /\ g \o t \in Seq(T) /\ Len(g \o t) = c + k
        /\ \A i \in 1..c : (g \o t)[i] = g[i]
        /\ \A j \in 1..k : (g \o t)[c + j] = t[j]
    <3>1. /\ g \o t \in Seq(T) /\ Len(g \o t) = Len(g) + Len(t)
          /\ \A n \in 1..Len(g) : (g \o t)[n] = g[n]
          /\ \A n \in 1..Len(t) : (g \o t)[Len(g) + n] = t[n]
      <4>1. g \in Seq(T) /\ t \in Seq(T)
        BY <2>2
      <4> QED
        BY <4>1, ConcatLemma
    <3> QED
      BY <1>1, <2>2, <3>1
  <2>4. \A i \in 1..(c + k) : i \in 1..c \/ \E j \in 1..k : i = c + j
    <3> SUFFICES ASSUME NEW i \in 1..(c + k), i \notin 1..c
                 PROVE  \E j \in 1..k : i = c + j
      OBVIOUS
    <3>1. i - c \in 1..k /\ i = c + (i - c)
      OBVIOUS
    <3> QED
      BY <3>1
  <2>5. \A i \in 1..(c + k) : f[i] = (g \o t)[i]
    <3> SUFFICES ASSUME NEW i \in 1..(c + k) PROVE f[i] = (g \o t)[i]
      OBVIOUS
    <3>1. CASE i \in 1..c
      BY <1>11, <2>1, <2>3, <3>1
    <3>2. CASE \E j \in 1..k : i = c + j
      <4>1. PICK j \in 1..k : i = c + j
        BY <3>2
      <4> QED
        BY <1>12, <2>1, <2>3, <4>1
    <3> QED
      BY <2>4, <3>1, <3>2
  <2> QED
    BY <2>2, <2>3, <2>5
<1> QED
  BY <1>2, <1>4, <1>7, <1>13

TextSeq == Seq(Seq(Tokens))

LEMMA SeqParts ==
  ASSUME NEW T, NEW s \in Seq(T)
  PROVE  Len(s) \in Nat /\ DOMAIN s = 1..Len(s) /\ \A n \in 1..Len(s) : s[n] \in T
OBVIOUS

LEMMA NonBlankTexts ==
  ASSUME NEW texts \in TextSeq
  PROVE  /\ NonBlank(texts) \in TextSeq
         /\ \A k \in DOMAIN NonBlank(texts) :
              \E n \in DOMAIN texts : NonBlank(texts)[k] = texts[n] /\ ~Blank(texts[n])
<1> DEFINE I == {n \in DOMAIN texts : ~Blank(texts[n])}
           f == AtPositions(texts, I)
<1>1. NonBlank(texts) = f
  BY DEF NonBlank
<1>2. I \in SUBSET (DOMAIN texts) /\ \A n \in I : ~Blank(texts[n])
  OBVIOUS
<1>a. texts \in Seq(Seq(Tokens))
  BY DEF TextSeq
<1> HIDE DEF I
<1>3. /\ f \in Seq(Seq(Tokens)) /\ Len(f) = Cardinality(I)
      /\ \A k \in 1..Cardinality(I) : \E n \in I : Rank(I, n) = k /\ f[k] = texts[n]
  <2>1. /\ AtPositions(texts, I) \in Seq(Seq(Tokens))
        /\ Len(AtPositions(texts, I)) = Cardinality(I)
        /\ \A k \in 1..Cardinality(I) : \E n \in I : /\ Rank(I, n) = k
                                                    /\ AtPositions(texts, I)[k] = texts[n]
    BY <1>2, <1>a, EntriesFrom
  <2> QED
    BY <2>1
<1> HIDE DEF f
<1>4. DOMAIN f = 1..Cardinality(I)
  BY <1>3, SeqParts
<1>5. \A k \in DOMAIN f : \E n \in DOMAIN texts : f[k] = texts[n] /\ ~Blank(texts[n])
  BY <1>2, <1>3, <1>4
<1> QED
  BY <1>1, <1>3, <1>5 DEF TextSeq

LEMMA EntriesTexts ==
  ASSUME NEW lines \in TextSeq
  PROVE  /\ Entries(lines) \in TextSeq
         /\ \A k \in DOMAIN Entries(lines) : ~Blank(Entries(lines)[k])
<1> DEFINE s == Stripped(lines)
           I == {n \in DOMAIN s : s[n] # <<>> /\ ~Comment(s[n])}
           f == AtPositions(s, I)
<1>1. Entries(lines) = f
  BY DEF Entries
<1>2. s \in TextSeq /\ \A n \in DOMAIN s : s[n] # <<>> => ~Blank(s[n])
  <2>1. /\ Len(lines) \in Nat /\ DOMAIN lines = 1..Len(lines)
        /\ \A n \in 1..Len(lines) : lines[n] \in Seq(Tokens)
    BY SeqParts DEF TextSeq
  <2>a. \A n \in 1..Len(lines) : Strip(lines[n]) \in Seq(Tokens)
    BY <2>1, StripTyped
  <2>2. \A n \in 1..Len(lines) : Strip(lines[n]) # <<>> => ~Blank(Strip(lines[n]))
    BY <2>1, StripTyped
  <2>3. /\ s = [n \in 1..Len(lines) |-> Strip(lines[n])]
        /\ DOMAIN s = 1..Len(lines) /\ \A n \in 1..Len(lines) : s[n] = Strip(lines[n])
    BY <2>1 DEF Stripped
  <2>4. [n \in 1..Len(lines) |-> Strip(lines[n])] \in [1..Len(lines) -> Seq(Tokens)]
    BY <2>a
  <2> HIDE DEF s
  <2>5. s \in Seq(Seq(Tokens))
    BY <2>1, <2>3, <2>4
  <2> QED
    BY <2>2, <2>3, <2>5 DEF TextSeq
<1> HIDE DEF s
<1>3. I \in SUBSET (DOMAIN s) /\ \A n \in I : ~Blank(s[n])
  BY <1>2
<1> HIDE DEF I
<1>4. /\ f \in Seq(Seq(Tokens)) /\ Len(f) = Cardinality(I)
      /\ \A k \in 1..Cardinality(I) : \E n \in I : Rank(I, n) = k /\ f[k] = s[n]
  BY <1>2, <1>3, EntriesFrom DEF TextSeq
<1> HIDE DEF f
<1>5. DOMAIN f = 1..Cardinality(I)
  BY <1>4, SeqParts
<1>6. \A k \in DOMAIN f : ~Blank(f[k])
  BY <1>3, <1>4, <1>5
<1> QED
  BY <1>1, <1>4, <1>6 DEF TextSeq

\* Texts behind others of which none is blank are all kept.
LEMMA NonBlankBehind ==
  ASSUME NEW texts \in TextSeq, NEW more \in TextSeq,
         \A n \in DOMAIN more : ~Blank(more[n])
  PROVE  NonBlank(texts \o more) = NonBlank(texts) \o more
<1> DEFINE I == {n \in DOMAIN texts : ~Blank(texts[n])}
           both == texts \o more
           J == {n \in DOMAIN both : ~Blank(both[n])}
<1>1. PICK l \in Nat, k \in Nat : /\ l = Len(texts) /\ k = Len(more)
                                  /\ DOMAIN texts = 1..l /\ DOMAIN more = 1..k
  BY SeqParts DEF TextSeq
<1>2. /\ both \in TextSeq /\ DOMAIN both = 1..(l + k)
      /\ \A n \in 1..l : both[n] = texts[n]
      /\ \A n \in 1..k : both[l + n] = more[n]
  <2>1. /\ both \in Seq(Seq(Tokens)) /\ Len(both) = Len(texts) + Len(more)
        /\ \A n \in 1..Len(texts) : both[n] = texts[n]
        /\ \A n \in 1..Len(more) : both[Len(texts) + n] = more[n]
    BY ConcatLemma DEF TextSeq
  <2> HIDE DEF both
  <2>2. DOMAIN both = 1..Len(both)
    BY <2>1, SeqParts
  <2> QED
    BY <1>1, <2>1, <2>2 DEF TextSeq
<1> HIDE DEF both
<1>3. \A n \in 1..(l + k) : n \in 1..l \/ (n - l \in 1..k /\ n = l + (n - l))
  BY <1>1
<1>4. \A n \in (l + 1)..(l + k) : ~Blank(both[n])
  <2> SUFFICES ASSUME NEW n \in (l + 1)..(l + k) PROVE ~Blank(both[n])
    OBVIOUS
  <2>1. PICK j \in 1..k : n = l + j
    <3>1. n - l \in 1..k /\ n = l + (n - l)
      BY <1>1
    <3> QED
      BY <3>1
  <2> QED
    BY <1>1, <1>2, <2>1
<1>5. J = Behind(I, l, k)
  <2>1. I \subseteq 1..l
    BY <1>1
  <2>2. \A n \in 1..l : n \in J <=> n \in I
    <3>1. \A n \in 1..l : n \in 1..(l + k)
      BY <1>1
    <3> QED
      BY <1>1, <1>2, <3>1
  <2>3. \A n \in (l + 1)..(l + k) : n \in J
    <3>1. \A n \in (l + 1)..(l + k) : n \in 1..(l + k)
      BY <1>1
    <3> QED
      BY <1>2, <1>4, <3>1
  <2>4. \A n \in J : n \in 1..l \/ n \in (l + 1)..(l + k)
    <3>1. \A n \in 1..(l + k) : n \in 1..l \/ n \in (l + 1)..(l + k)
      BY <1>1
    <3> QED
      BY <1>2, <3>1
  <2> HIDE DEF I, J
  <2> QED
    BY <2>1, <2>2, <2>3, <2>4 DEF Behind
<1>6. NonBlank(both) = AtPositions(both, J) /\ NonBlank(texts) = AtPositions(texts, I)
  BY DEF NonBlank
<1>7. I \in SUBSET (DOMAIN texts)
  OBVIOUS
<1> HIDE DEF I, J
<1>8. AtPositions(texts \o more, Behind(I, Len(texts), Len(more)))
        = AtPositions(texts, I) \o more
  BY <1>7, AllBehindKept DEF TextSeq
<1> QED
  BY <1>1, <1>5, <1>6, <1>8 DEF both

LEMMA ParseAllShape ==
  ASSUME NEW T, NEW texts \in Seq(T)
  PROVE  /\ DOMAIN ParseAll(texts) = 1..Len(texts)
         /\ \A n \in 1..Len(texts) : ParseAll(texts)[n] = Parse(texts[n])
BY DEF ParseAll

\* Texts of which parse refuses none are parsed to targets.
LEMMA AllTargets ==
  ASSUME NEW texts \in TextSeq, \A n \in DOMAIN texts : Parse(texts[n]) # NoTarget
  PROVE  ParseAll(texts) \in Seq(TargetType) /\ Len(ParseAll(texts)) = Len(texts)
<1>1. Len(texts) \in Nat /\ DOMAIN texts = 1..Len(texts)
      /\ \A n \in 1..Len(texts) : texts[n] \in Seq(Tokens)
  BY SeqParts DEF TextSeq
<1>2. \A n \in 1..Len(texts) : Parse(texts[n]) \in TargetType
  BY <1>1, ParseAccepts DEF IsTargetOf, TargetType
<1>3. ParseAll(texts) = [n \in 1..Len(texts) |-> Parse(texts[n])]
  BY <1>1 DEF ParseAll
<1> QED
  BY <1>1, <1>2, <1>3

\* A file whose entries are all accepted is written back as keys, none of them blank.
LEMMA SpecsAreTexts ==
  ASSUME NEW lines \in TextSeq, ~SomeRefused(Entries(lines))
  PROVE  /\ Specs(lines) \in TextSeq
         /\ \A n \in DOMAIN Specs(lines) : ~Blank(Specs(lines)[n])
         /\ Len(Specs(lines)) = Len(Entries(lines))
         /\ \A n \in DOMAIN Entries(lines) :
              /\ IsTargetOf(Parse(Entries(lines)[n]))
              /\ Specs(lines)[n] = Key(Parse(Entries(lines)[n]))
<1> DEFINE E == Entries(lines)
<1>1. E \in TextSeq /\ \A n \in DOMAIN E : ~Blank(E[n])
  BY EntriesTexts
<1>2. \A n \in DOMAIN E : Parse(E[n]) # NoTarget
  BY <1>1 DEF SomeRefused
<1>3. Specs(lines) = [n \in DOMAIN E |-> Key(Parse(E[n]))]
  BY DEF Specs
<1> HIDE DEF E
<1>4. Len(E) \in Nat /\ DOMAIN E = 1..Len(E) /\ \A n \in DOMAIN E : E[n] \in Seq(Tokens)
  BY <1>1, SeqParts DEF TextSeq
<1>5. \A n \in DOMAIN E : IsTargetOf(Parse(E[n]))
  BY <1>2, <1>4, ParseAccepts
<1>6. \A n \in DOMAIN E : Key(Parse(E[n])) \in Seq(Tokens) /\ ~Blank(Key(Parse(E[n])))
  <2> SUFFICES ASSUME NEW n \in DOMAIN E
               PROVE  Key(Parse(E[n])) \in Seq(Tokens) /\ ~Blank(Key(Parse(E[n])))
    OBVIOUS
  <2>1. PICK t : t = Parse(E[n])
    OBVIOUS
  <2>2. /\ Key(t) \in Seq(Tokens) /\ Len(Key(t)) = Len(t.host) + 2 /\ Len(t.host) \in Nat
        /\ Key(t)[Len(t.host) + 1] = ":"
    BY <1>5, <2>1, KeyShape
  <2>3. ~Blank(Key(t))
    BY <2>2 DEF Blank
  <2> QED
    BY <2>1, <2>2, <2>3
<1>7. Specs(lines) \in Seq(Seq(Tokens)) /\ Len(Specs(lines)) = Len(E)
  BY <1>3, <1>4, <1>6
<1> QED
  BY <1>3, <1>5, <1>6, <1>7 DEF E, TextSeq

-----------------------------------------------------------------------------
(* The steps of the commands                                                *)

LEMMA ProbeArgs ==
  ASSUME args \in Invocations, args.sub = "probe"
  PROVE  /\ args.authorized \in BOOLEAN
         /\ args.file \in {"none", "unreadable", "undecodable", "read"}
         /\ args.target \in TextSeq /\ args.lines \in TextSeq
BY InvocationsAssumption DEF IsProbe, IsFeeds, TextSeq

LEMMA FeedArgs ==
  ASSUME args \in Invocations, args.sub \notin {"none", "probe"}
  PROVE  /\ args.sub \in {"feeds", "datafeeds"}
         /\ args.action \in {"none", "list", "update", "get", "snapshot"}
         /\ Requested \in Seq({Requested[n] : n \in DOMAIN Requested})
<1>1. IsFeeds(args)
  BY InvocationsAssumption DEF IsProbe
<1>2. CASE Modlure /\ args.ids = <<>>
  <2>1. Requested = FEED_IDS
    BY <1>2 DEF Requested
  <2> QED
    BY <1>1, <2>1, FeedIdsAssumption DEF IsFeeds
<1>3. CASE ~(Modlure /\ args.ids = <<>>)
  <2>1. Requested = args.ids
    BY <1>3 DEF Requested
  <2> QED
    BY <1>1, <2>1 DEF IsFeeds
<1> QED
  BY <1>2, <1>3

\* Everything that is said of the command line alone stays as it is.
LEMMA SameArgs ==
  ASSUME args' = args
  PROVE  /\ Plan' = Plan /\ Given' = Given /\ Requested' = Requested
         /\ FileAccepted' <=> FileAccepted
         /\ Accepted' <=> Accepted
         /\ \A fid : Known(fid)' <=> Known(fid)
BY DEF Plan, Given, FileSpecs, Requested, FileAccepted, Accepted, FileEntries, Known, Modlure

LEMMA GivenTexts ==
  ASSUME args \in Invocations, args.sub = "probe", FileAccepted
  PROVE  /\ args.target \in TextSeq /\ FileSpecs \in TextSeq /\ Given \in TextSeq
         /\ \A n \in DOMAIN FileSpecs : ~Blank(FileSpecs[n])
<1>1. args.target \in TextSeq /\ args.lines \in TextSeq
  BY ProbeArgs
<1>2. FileSpecs \in TextSeq /\ \A n \in DOMAIN FileSpecs : ~Blank(FileSpecs[n])
  <2>1. CASE args.file = "read"
    <3>1. ~SomeRefused(Entries(args.lines))
      BY <2>1 DEF FileAccepted, FileEntries
    <3>2. FileSpecs = Specs(args.lines)
      BY <2>1 DEF FileSpecs
    <3> QED
      BY <1>1, <3>1, <3>2, SpecsAreTexts
  <2>2. CASE args.file # "read"
    <3>1. FileSpecs = <<>>
      BY <2>2 DEF FileSpecs
    <3> QED
      BY <3>1 DEF TextSeq
  <2> QED
    BY <2>1, <2>2
<1>3. Given \in TextSeq
  BY <1>1, <1>2, ConcatLemma DEF Given, TextSeq
<1> QED
  BY <1>1, <1>2, <1>3

LEMMA PlanTargets ==
  ASSUME args \in Invocations, args.sub = "probe", Accepted
  PROVE  Plan \in Seq(TargetType)
<1>1. Given \in TextSeq
  BY GivenTexts DEF Accepted
<1>2. PICK s : s = NonBlank(Given)
  OBVIOUS
<1>3. /\ s \in TextSeq
      /\ \A k \in DOMAIN s : \E n \in DOMAIN Given : s[k] = Given[n] /\ ~Blank(Given[n])
  BY <1>1, <1>2, NonBlankTexts
<1>4. \A n \in DOMAIN Given : ~Blank(Given[n]) => Parse(Given[n]) # NoTarget
  BY DEF Accepted, SomeRefused
<1>5. \A k \in DOMAIN s : Parse(s[k]) # NoTarget
  BY <1>3, <1>4
<1> QED
  BY <1>2, <1>3, <1>5, AllTargets DEF Plan

LEMMA PcTyped ==
  ASSUME PcInv
  PROVE  /\ args \in Invocations /\ pc \in Labels /\ status \in 0..2
         /\ probed \in Seq(Probes)
         /\ ended \in {"no", "returned", "raised"} /\ (ended = "no" <=> pc # "end")
BY DEF PcInv

\* A command ends with a status, however it ends.
LEMMA EndKeepsPc ==
  ASSUME PcInv, pc \in Labels \ {"end"},
         (\E s \in 0..2 : Return(s)) \/ Escape,
         probed' = probed \/ (args.sub = "probe" /\ probed' \in Seq(Probes))
  PROVE  PcInv'
<1>1. /\ pc' = "end" /\ ended' \in {"returned", "raised"} /\ status' \in 0..2
      /\ args' = args
  BY DEF Return, Escape
<1> QED
  BY <1>1 DEF PcInv, Labels

LEMMA DispatchKeepsPc == ASSUME PcInv, Dispatch PROVE PcInv'
<1>1. /\ pc = "main" /\ UNCHANGED <<todo, probed, stored, failed>>
      /\ pc \in Labels \ {"end"} /\ args \in Invocations
  BY DEF Dispatch, PcInv
<1>2. CASE args.sub = "none"
  <2>1. Return(2)
    BY <1>2 DEF Dispatch
  <2> QED
    BY <1>1, <2>1, EndKeepsPc
<1>3. CASE args.sub = "probe"
  <2>1. Goto("authorize")
    BY <1>3 DEF Dispatch
  <2> QED
    BY <1>1, <1>3, <2>1 DEF PcInv, Goto, Labels
<1>4. CASE args.sub \notin {"none", "probe"}
  <2>1. Goto(args.action)
    BY <1>4 DEF Dispatch
  <2>2. /\ args.sub \in {"feeds", "datafeeds"}
        /\ args.action \in {"none", "list", "update", "get", "snapshot"}
    BY <1>1, <1>4, FeedArgs
  <2> QED
    BY <1>1, <2>1, <2>2 DEF PcInv, Goto, Labels
<1> QED
  BY <1>2, <1>3, <1>4

\* The steps of _cmd_probe before the first target.
LEMMA SetupKeepsPc == ASSUME PcInv, Authorize \/ ReadScopeFile \/ BuildScope PROVE PcInv'
<1>1. /\ pc \in {"authorize", "scope_file", "specs"} /\ args.sub = "probe"
      /\ probed' = probed /\ probed = <<>> /\ pc \in Labels \ {"end"}
  BY DEF PcInv, Authorize, ReadScopeFile, BuildScope
<1>2. \/ Return(2) \/ Escape
      \/ Goto("scope_file") \/ Goto("specs") \/ Goto("run")
  BY DEF Authorize, ReadScopeFile, BuildScope
<1>3. CASE Return(2) \/ Escape
  BY <1>1, <1>3, EndKeepsPc
<1>4. CASE Goto("scope_file") \/ Goto("specs") \/ Goto("run")
  BY <1>1, <1>4 DEF PcInv, Goto, Labels
<1> QED
  BY <1>2, <1>3, <1>4

LEMMA ProbingTyped ==
  ASSUME CommandInv, pc = "run"
  PROVE  /\ args.sub = "probe" /\ args \in Invocations /\ Accepted /\ RunInv
         /\ todo \in Seq(TargetType) /\ probed \in Seq(Probes) /\ Plan \in Seq(TargetType)
<1>1. args.sub = "probe" /\ args \in Invocations /\ probed \in Seq(Probes)
  BY DEF CommandInv, PcInv
<1>2. Accepted /\ RunInv
  BY <1>1 DEF CommandInv, ProbeInv
<1>3. todo \in Seq(TargetType)
  BY <1>2 DEF RunInv
<1> QED
  BY <1>1, <1>2, <1>3, PlanTargets

LEMMA OneProbed ==
  ASSUME CommandInv, pc = "run", todo # <<>>, NEW outcome \in Outcomes \cup {"raised"},
         probed' = Append(probed, [target |-> Head(todo), outcome |-> outcome])
  PROVE  /\ probed' \in Seq(Probes) /\ Len(probed') = Len(probed) + 1
         /\ \A n \in 1..Len(probed) : probed'[n] = probed[n]
         /\ probed'[Len(probed) + 1].target = Head(todo)
<1>1. todo \in Seq(TargetType) /\ probed \in Seq(Probes)
  BY ProbingTyped
<1>2. Head(todo) \in TargetType
  BY <1>1
<1>3. PICK p : p = [target |-> Head(todo), outcome |-> outcome]
  OBVIOUS
<1>4. p \in Probes /\ p.target = Head(todo) /\ probed' = Append(probed, p)
  BY <1>2, <1>3 DEF Probes
<1> QED
  BY <1>1, <1>4

LEMMA RunKeepsPc == ASSUME CommandInv, ProbeNext \/ ProbeRaises \/ Report PROVE PcInv'
<1>1. pc = "run" /\ PcInv /\ args.sub = "probe" /\ pc \in Labels \ {"end"}
  BY DEF ProbeNext, ProbeRaises, Report, CommandInv, PcInv
<1>2. CASE ProbeNext
  <2>1. probed' \in Seq(Probes)
    BY <1>1, <1>2, OneProbed DEF ProbeNext
  <2> QED
    BY <1>1, <1>2, <2>1 DEF ProbeNext, PcInv
<1>3. CASE ProbeRaises
  <2>1. probed' \in Seq(Probes) /\ Escape
    BY <1>1, <1>3, OneProbed DEF ProbeRaises
  <2> QED
    BY <1>1, <2>1, EndKeepsPc
<1>4. CASE Report
  <2>1. (Return(0) \/ Return(1)) /\ probed' = probed
    BY <1>4 DEF Report
  <2> QED
    BY <1>1, <2>1, EndKeepsPc
<1> QED
  BY <1>2, <1>3, <1>4

\* What is common to the steps of the two feed commands.
LEMMA FeedStepsKeepPc ==
  ASSUME PcInv, FeedsUsage \/ FeedsList \/ UpdateStart \/ FeedUnknown \/ FeedStored
                \/ FeedFails \/ FeedRaises \/ FeedsDone \/ FeedsGet
  PROVE  PcInv'
<1>1. /\ pc \in {"none", "list", "snapshot", "update", "feeds", "get"}
      /\ probed' = probed /\ probed = <<>> /\ pc \in Labels \ {"end"} /\ status \in 0..2
  BY DEF PcInv, FeedsUsage, FeedsList, UpdateStart, FeedUnknown, FeedStored, FeedFails,
         FeedRaises, FeedsDone, FeedsGet, NextFeed, Labels
<1>2. CASE FeedsUsage \/ FeedsList \/ FeedRaises \/ FeedsDone \/ FeedsGet
  <2>1. Return(0) \/ Return(1) \/ Return(2) \/ Return(status) \/ Escape
    BY <1>2 DEF FeedsUsage, FeedsList, FeedRaises, FeedsDone, FeedsGet
  <2>2. (\E s \in 0..2 : Return(s)) \/ Escape
    BY <1>1, <2>1
  <2> QED
    BY <1>1, <2>2, EndKeepsPc
<1>3. CASE UpdateStart
  BY <1>1, <1>3 DEF UpdateStart, Goto, PcInv, Labels
<1>4. CASE FeedUnknown \/ FeedStored \/ FeedFails
  <2>1. pc = "feeds" /\ UNCHANGED <<args, pc, ended, probed>> /\ status' \in 0..2
    BY <1>1, <1>4 DEF FeedUnknown, FeedStored, FeedFails, NextFeed, Missed
  <2> QED
    BY <1>1, <2>1 DEF PcInv
<1> QED
  BY <1>2, <1>3, <1>4

-----------------------------------------------------------------------------
(* The probe command follows its plan                                       *)

LEMMA AuthorizeKeepsPlan ==
  ASSUME CommandInv, args.sub = "probe", Authorize PROVE ProbeInv'
<1>1. /\ pc = "authorize" /\ probed = <<>> /\ probed' = <<>>
      /\ ended = "no"
  BY DEF Authorize, CommandInv, PcInv
<1>2. \/ args.authorized /\ Goto("scope_file") /\ todo' = args.target
      \/ Return(2)
  BY DEF Authorize
<1> QED
  BY <1>1, <1>2 DEF ProbeInv, Goto, Return

LEMMA ReadScopeFileKeepsPlan ==
  ASSUME CommandInv, args.sub = "probe", ReadScopeFile PROVE ProbeInv'
<1>1. /\ pc = "scope_file" /\ probed = <<>> /\ probed' = <<>> /\ ended = "no"
      /\ args.authorized /\ todo = args.target /\ args \in Invocations
  BY DEF ReadScopeFile, CommandInv, PcInv, ProbeInv
<1>2. args.file \in {"none", "unreadable", "undecodable", "read"} /\ args.target \in TextSeq
  BY <1>1, ProbeArgs
<1>3. CASE Return(2) \/ Escape
  BY <1>1, <1>3 DEF ProbeInv, Return, Escape
<1>4. CASE args.file = "none" /\ Goto("specs") /\ UNCHANGED todo
  <2>1. ~SomeRefused(FileEntries)
    BY <1>4 DEF FileEntries, SomeRefused
  <2>2. FileAccepted
    BY <1>1, <1>4, <2>1 DEF FileAccepted
  <2>3. todo' = Given
    <3>1. FileSpecs = <<>>
      BY <1>4 DEF FileSpecs
    <3>2. args.target \o <<>> = args.target
      BY <1>2 DEF TextSeq
    <3> QED
      BY <1>1, <1>4, <3>1, <3>2 DEF Given
  <2> QED
    BY <1>1, <1>4, <2>2, <2>3, SameArgs DEF ProbeInv, Goto
<1>5. CASE /\ args.file = "read" /\ ~SomeRefused(Entries(args.lines))
           /\ Goto("specs") /\ todo' = todo \o Specs(args.lines)
  <2>1. FileAccepted
    BY <1>1, <1>5 DEF FileAccepted, FileEntries
  <2>2. todo' = Given
    BY <1>1, <1>5 DEF Given, FileSpecs
  <2> QED
    BY <1>1, <1>5, <2>1, <2>2, SameArgs DEF ProbeInv, Goto
<1> QED
  BY <1>2, <1>3, <1>4, <1>5 DEF ReadScopeFile

LEMMA BuildScopeKeepsPlan ==
  ASSUME CommandInv, args.sub = "probe", BuildScope PROVE ProbeInv'
<1>1. /\ pc = "specs" /\ probed = <<>> /\ probed' = <<>> /\ ended = "no"
      /\ FileAccepted /\ todo = Given /\ args \in Invocations
  BY DEF BuildScope, CommandInv, PcInv, ProbeInv
<1>2. CASE Return(2) \/ Escape
  BY <1>1, <1>2 DEF ProbeInv, Return, Escape
<1>3. CASE ~SomeRefused(todo) /\ Goto("run") /\ todo' = ParseAll(NonBlank(todo))
  <2>1. Accepted /\ todo' = Plan
    BY <1>1, <1>3 DEF Accepted, Plan
  <2>2. Plan \in Seq(TargetType)
    BY <1>1, <2>1, PlanTargets
  <2>3. Len(probed') = 0 /\ Len(Plan) \in Nat
    BY <1>1, <2>2
  <2>4. Plan' = Plan /\ Accepted' /\ pc' = "run" /\ ended' = "no"
    BY <1>1, <1>3, <2>1, SameArgs DEF Goto
  <2>5. RunInv'
    BY <2>1, <2>2, <2>3, <2>4 DEF RunInv, OnPlan
  <2> QED
    BY <2>4, <2>5 DEF ProbeInv
<1> QED
  BY <1>2, <1>3 DEF BuildScope

LEMMA ProbeNextKeepsPlan ==
  ASSUME CommandInv, ProbeNext PROVE ProbeInv'
<1>1. /\ pc = "run" /\ pc' = "run" /\ todo # <<>> /\ todo' = Tail(todo)
      /\ UNCHANGED <<args, status, ended>> /\ ended = "no"
  BY DEF ProbeNext, CommandInv, PcInv
<1>2. /\ Accepted /\ RunInv /\ todo \in Seq(TargetType) /\ probed \in Seq(Probes)
      /\ Plan \in Seq(TargetType)
  BY <1>1, ProbingTyped
<1>3. /\ Len(probed') = Len(probed) + 1 /\ probed' \in Seq(Probes)
      /\ \A n \in 1..Len(probed) : probed'[n] = probed[n]
      /\ probed'[Len(probed) + 1].target = Head(todo)
  BY <1>1, OneProbed DEF ProbeNext
<1>4. /\ Len(probed) \in Nat /\ Len(todo) \in Nat /\ Len(todo) >= 1
      /\ Head(todo) = todo[1]
      /\ Tail(todo) \in Seq(TargetType) /\ Len(Tail(todo)) = Len(todo) - 1
      /\ \A n \in 1..(Len(todo) - 1) : Tail(todo)[n] = todo[n + 1]
      /\ Len(Plan) \in Nat
  BY <1>1, <1>2
<1>5. /\ Len(probed) + Len(todo) = Len(Plan)
      /\ \A n \in 1..Len(todo) : todo[n] = Plan[Len(probed) + n]
      /\ \A n \in 1..Len(probed) : probed[n].target = Plan[n]
  BY <1>1, <1>2 DEF RunInv, OnPlan
<1>6. Len(probed') <= Len(Plan) /\ Len(probed') + Len(todo') = Len(Plan)
  BY <1>1, <1>3, <1>4, <1>5
<1>7. \A n \in 1..Len(probed') : probed'[n].target = Plan[n]
  <2>1. probed'[Len(probed) + 1].target = Plan[Len(probed) + 1]
    BY <1>3, <1>4, <1>5
  <2>2. \A n \in 1..Len(probed') : n \in 1..Len(probed) \/ n = Len(probed) + 1
    BY <1>3, <1>4
  <2> QED
    BY <1>3, <1>5, <2>1, <2>2
<1>8. \A n \in 1..Len(todo') : todo'[n] = Plan[Len(probed') + n]
  <2> SUFFICES ASSUME NEW n \in 1..(Len(todo) - 1)
               PROVE  Tail(todo)[n] = Plan[Len(probed') + n]
    BY <1>1, <1>4
  <2>1. /\ n + 1 \in 1..Len(todo)
        /\ Len(probed) + (n + 1) = Len(probed') + n
    BY <1>3, <1>4
  <2> QED
    BY <1>4, <1>5, <2>1
<1>9. Plan' = Plan /\ Accepted'
  BY <1>1, <1>2, SameArgs
<1>10. RunInv'
  BY <1>1, <1>4, <1>6, <1>7, <1>8, <1>9 DEF RunInv, OnPlan
<1> QED
  BY <1>1, <1>9, <1>10 DEF ProbeInv

LEMMA ProbeRaisesKeepsPlan ==
  ASSUME CommandInv, ProbeRaises PROVE ProbeInv'
<1>1. /\ pc = "run" /\ pc' = "end" /\ todo # <<>> /\ ended' = "raised" /\ args' = args
  BY DEF ProbeRaises, Escape
<1>2. /\ Accepted /\ RunInv /\ todo \in Seq(TargetType) /\ probed \in Seq(Probes)
      /\ Plan \in Seq(TargetType)
  BY <1>1, ProbingTyped
<1>3. /\ Len(probed') = Len(probed) + 1
      /\ \A n \in 1..Len(probed) : probed'[n] = probed[n]
      /\ probed'[Len(probed) + 1].target = Head(todo)
  BY <1>1, OneProbed DEF ProbeRaises
<1>4. /\ Len(probed) \in Nat /\ Len(todo) \in Nat /\ Len(todo) >= 1 /\ Head(todo) = todo[1]
      /\ Len(Plan) \in Nat
  BY <1>1, <1>2
<1>5. /\ Len(probed) + Len(todo) = Len(Plan)
      /\ \A n \in 1..Len(todo) : todo[n] = Plan[Len(probed) + n]
      /\ \A n \in 1..Len(probed) : probed[n].target = Plan[n]
  BY <1>1, <1>2 DEF RunInv, OnPlan
<1>6. \A n \in 1..Len(probed') : probed'[n].target = Plan[n]
  <2>1. probed'[Len(probed) + 1].target = Plan[Len(probed) + 1]
    BY <1>3, <1>4, <1>5
  <2>2. \A n \in 1..Len(probed') : n \in 1..Len(probed) \/ n = Len(probed) + 1
    BY <1>3, <1>4
  <2> QED
    BY <1>3, <1>5, <2>1, <2>2
<1>7. Len(probed') <= Len(Plan)
  BY <1>3, <1>4, <1>5
<1>8. Plan' = Plan /\ Accepted'
  BY <1>1, <1>2, SameArgs
<1>9. RunInv'
  BY <1>1, <1>6, <1>7, <1>8 DEF RunInv, OnPlan
<1> QED
  BY <1>1, <1>8, <1>9 DEF ProbeInv

LEMMA ReportKeepsPlan ==
  ASSUME CommandInv, Report PROVE ProbeInv'
<1>1. /\ pc = "run" /\ pc' = "end" /\ todo = <<>> /\ ended' = "returned" /\ status' \in {0, 1}
      /\ UNCHANGED <<args, todo, probed>>
  BY DEF Report, Return
<1>2. /\ Accepted /\ RunInv /\ probed \in Seq(Probes) /\ Plan \in Seq(TargetType)
  BY <1>1, ProbingTyped
<1>3. Len(probed) = Len(Plan)
  <2>1. Len(probed) + Len(todo) = Len(Plan) /\ Len(todo) = 0 /\ Len(probed) \in Nat
    BY <1>1, <1>2 DEF RunInv
  <2> QED
    BY <2>1
<1>4. Plan' = Plan /\ Accepted'
  BY <1>1, <1>2, SameArgs
<1>5. RunInv'
  BY <1>1, <1>2, <1>3, <1>4 DEF RunInv, OnPlan
<1> QED
  BY <1>1, <1>4, <1>5 DEF ProbeInv

LEMMA StutterKeepsPlan ==
  ASSUME CommandInv, args.sub = "probe", UNCHANGED vars PROVE ProbeInv'
<1>1. UNCHANGED <<args, pc, todo, status, ended, probed>>
  BY DEF vars
<1> QED
  BY <1>1, SameArgs DEF CommandInv, ProbeInv, RunInv, OnPlan

LEMMA PlanKept ==
  ASSUME CommandInv, args.sub = "probe", [Next]_vars PROVE ProbeInv'
<1>1. CASE Dispatch
  <2>1. /\ pc = "main" /\ probed = <<>> /\ probed' = <<>> /\ ended = "no"
        /\ pc' = "authorize" /\ ended' = "no"
    BY <1>1 DEF Dispatch, Goto, CommandInv, PcInv
  <2> QED
    BY <2>1 DEF ProbeInv
<1>2. CASE FeedsUsage \/ FeedsList \/ UpdateStart \/ FeedUnknown \/ FeedStored
           \/ FeedFails \/ FeedRaises \/ FeedsDone \/ FeedsGet
  <2>1. pc \in {"none", "list", "snapshot", "update", "feeds", "get"}
    BY <1>2 DEF FeedsUsage, FeedsList, UpdateStart, FeedUnknown, FeedStored, FeedFails,
                FeedRaises, FeedsDone, FeedsGet
  <2>2. args.sub \in {"feeds", "datafeeds"}
    BY <2>1 DEF CommandInv, PcInv
  <2> QED
    BY <2>2
<1> QED
  BY <1>1, <1>2, AuthorizeKeepsPlan, ReadScopeFileKeepsPlan, BuildScopeKeepsPlan,
     ProbeNextKeepsPlan, ProbeRaisesKeepsPlan, ReportKeepsPlan, StutterKeepsPlan DEF Next

-----------------------------------------------------------------------------
(* The feed command tries all it was asked for                              *)

LEMMA UpdatingTyped ==
  ASSUME CommandInv, args.sub = "feeds", pc = "feeds"
  PROVE  /\ args \in Invocations /\ args.action = "update" /\ Modlure /\ status \in 0..2
         /\ Len(Requested) \in Nat /\ Len(todo) \in Nat /\ Len(todo) <= Len(Requested)
         /\ \A n \in 1..Len(todo) : todo[n] = Requested[Len(Requested) - Len(todo) + n]
         /\ Tried(Len(Requested) - Len(todo))
         /\ todo \in Seq({Requested[n] : n \in DOMAIN Requested})
<1>1. args \in Invocations /\ args.action = "update" /\ status \in 0..2 /\ FeedInv
  BY DEF CommandInv, PcInv
<1>2. Requested \in Seq({Requested[n] : n \in DOMAIN Requested})
  BY <1>1, FeedArgs
<1>3. todo \in Seq({Requested[n] : n \in DOMAIN Requested})
  BY <1>1 DEF FeedInv
<1>4. Len(Requested) \in Nat /\ Len(todo) \in Nat
  BY <1>2, <1>3, SeqParts
<1> QED
  BY <1>1, <1>3, <1>4 DEF FeedInv, Modlure

LEMMA DifferenceTyped ==
  ASSUME NEW m \in Nat, NEW n \in Nat, n <= m PROVE m - n \in Nat
OBVIOUS

\* One feed is dealt with.
LEMMA OneMoreTried ==
  ASSUME CommandInv, args.sub = "feeds", pc = "feeds", todo # <<>>, NextFeed,
         \/ ~Known(Head(todo)) /\ status' = 2 /\ UNCHANGED <<stored, failed>>
         \/ stored' = stored \cup {Head(todo)} /\ UNCHANGED <<status, failed>>
         \/ failed' = failed \cup {Head(todo)} /\ status' = 1 /\ UNCHANGED stored
  PROVE  FeedInv'
<1>1. UNCHANGED <<args, pc, ended>> /\ todo' = Tail(todo)
  BY DEF NextFeed
<1>2. /\ Len(Requested) \in Nat /\ Len(todo) \in Nat /\ Len(todo) <= Len(Requested)
      /\ \A n \in 1..Len(todo) : todo[n] = Requested[Len(Requested) - Len(todo) + n]
      /\ Tried(Len(Requested) - Len(todo))
      /\ todo \in Seq({Requested[n] : n \in DOMAIN Requested})
      /\ status \in 0..2
  BY UpdatingTyped
<1>3. PICK k \in Nat : k = Len(Requested) - Len(todo)
  <2>1. Len(Requested) - Len(todo) \in Nat
    BY <1>2, DifferenceTyped
  <2> QED
    BY <2>1
<1>4. /\ Tail(todo) \in Seq({Requested[n] : n \in DOMAIN Requested})
      /\ Len(Tail(todo)) = Len(todo) - 1 /\ Len(todo) >= 1
      /\ \A n \in 1..(Len(todo) - 1) : Tail(todo)[n] = todo[n + 1]
      /\ Head(todo) = todo[1]
  <2>1. PICK T : T = {Requested[n] : n \in DOMAIN Requested}
    OBVIOUS
  <2>2. todo \in Seq(T)
    BY <1>2, <2>1
  <2>3. /\ Tail(todo) \in Seq(T) /\ Len(Tail(todo)) = Len(todo) - 1 /\ Len(todo) >= 1
        /\ \A n \in 1..(Len(todo) - 1) : Tail(todo)[n] = todo[n + 1]
        /\ Head(todo) = todo[1]
    BY <2>2
  <2> QED
    BY <2>1, <2>3
<1>5. Head(todo) = Requested[k + 1]
  BY <1>2, <1>3, <1>4
<1>6. Requested' = Requested /\ \A fid : Known(fid)' <=> Known(fid)
  BY <1>1, SameArgs
<1>7. \A n \in 1..(k + 1) : n \in 1..k \/ n = k + 1
  BY <1>3
<1>8. /\ \A n \in 1..k : Known(Requested[n]) => Requested[n] \in stored \cup failed
      /\ status = 0 => \A n \in 1..k : Requested[n] \in stored
      /\ status # 0 => failed # {} \/ \E n \in 1..k : ~Known(Requested[n])
  BY <1>2, <1>3 DEF Tried
<1>9. stored \subseteq stored' /\ failed \subseteq failed'
  OBVIOUS
<1>10. \A n \in 1..(k + 1) : Known(Requested[n]) => Requested[n] \in stored' \cup failed'
  <2>1. Known(Requested[k + 1]) => Requested[k + 1] \in stored' \cup failed'
    BY <1>5
  <2> QED
    BY <1>7, <1>8, <1>9, <2>1
<1>11. status' = 0 => \A n \in 1..(k + 1) : Requested[n] \in stored'
  <2> SUFFICES ASSUME status' = 0 PROVE \A n \in 1..(k + 1) : Requested[n] \in stored'
    OBVIOUS
  <2>1. status = 0 /\ stored' = stored \cup {Head(todo)}
    OBVIOUS
  <2> QED
    BY <1>5, <1>7, <1>8, <2>1
<1>12. status' # 0 => failed' # {} \/ \E n \in 1..(k + 1) : ~Known(Requested[n])
  <2>1. CASE ~Known(Head(todo))
    <3>1. k + 1 \in 1..(k + 1)
      OBVIOUS
    <3> QED
      BY <1>5, <2>1, <3>1
  <2>2. CASE UNCHANGED <<status, failed>>
    <3>1. \A n \in 1..k : n \in 1..(k + 1)
      OBVIOUS
    <3> QED
      BY <1>8, <2>2, <3>1
  <2>3. CASE failed' = failed \cup {Head(todo)}
    BY <2>3
  <2> QED
    BY <2>1, <2>2, <2>3
<1>13. Tried(k + 1)'
  BY <1>6, <1>10, <1>11, <1>12 DEF Tried
<1>14. Len(Requested') - Len(todo') = k + 1 /\ Len(todo') <= Len(Requested')
  BY <1>1, <1>2, <1>3, <1>4, <1>6
<1>15. \A n \in 1..Len(todo') : todo'[n] = Requested[k + 1 + n]
  <2> SUFFICES ASSUME NEW n \in 1..(Len(todo) - 1)
               PROVE  Tail(todo)[n] = Requested[k + 1 + n]
    BY <1>1, <1>4
  <2>1. n + 1 \in 1..Len(todo) /\ k + (n + 1) = k + 1 + n
    BY <1>2
  <2> QED
    BY <1>2, <1>3, <1>4, <2>1
<1>16. Tried(Len(Requested) - Len(todo))'
  BY <1>13, <1>14 DEF Tried
<1>17. todo' \in Seq({Requested'[n] : n \in DOMAIN Requested'})
  BY <1>1, <1>4, <1>6
<1>18. \A n \in 1..Len(todo') : todo'[n] = Requested'[Len(Requested') - Len(todo') + n]
  BY <1>6, <1>14, <1>15
<1>19. pc' = "feeds"
  BY <1>1
<1> QED
  BY <1>14, <1>16, <1>17, <1>18, <1>19 DEF FeedInv

LEMMA DispatchKeepsFeeds == ASSUME CommandInv, args.sub = "feeds", Dispatch PROVE FeedInv'
<1>1. pc = "main" /\ status = 0 /\ args \in Invocations /\ args' = args
      /\ pc' = args.action /\ status' = 0
  BY DEF Dispatch, Goto, CommandInv, PcInv
<1>2. args.action \in {"none", "list", "update", "get", "snapshot"}
  BY <1>1, FeedArgs
<1> QED
  BY <1>1, <1>2 DEF FeedInv

LEMMA UpdateStartKeepsFeeds ==
  ASSUME CommandInv, args.sub = "feeds", UpdateStart PROVE FeedInv'
<1>1. /\ pc = "update" /\ pc' = "feeds" /\ todo' = Requested /\ args' = args
      /\ status' = status /\ UNCHANGED <<stored, failed>>
  BY DEF UpdateStart, Goto
<1>2. status = 0 /\ args \in Invocations
  BY <1>1 DEF CommandInv, FeedInv, PcInv
<1>3. Requested' = Requested
  BY <1>1, SameArgs
<1>4. Requested \in Seq({Requested[n] : n \in DOMAIN Requested})
  BY <1>2, FeedArgs
<1>5. Len(Requested) \in Nat
  BY <1>4, SeqParts
<1>6. Len(Requested') - Len(todo') = 0 /\ Len(todo') <= Len(Requested')
  BY <1>1, <1>3, <1>5
<1>7. Tried(0)'
  BY <1>1, <1>2 DEF Tried
<1>8. Tried(Len(Requested) - Len(todo))'
  BY <1>6, <1>7 DEF Tried
<1>9. todo' \in Seq({Requested'[n] : n \in DOMAIN Requested'})
  BY <1>1, <1>3, <1>4
<1>10. \A n \in 1..Len(todo') : todo'[n] = Requested'[Len(Requested') - Len(todo') + n]
  <2> SUFFICES ASSUME NEW n \in 1..Len(todo') PROVE todo'[n] = Requested[0 + n]
    BY <1>3, <1>6
  <2> QED
    BY <1>1
<1> QED
  BY <1>1, <1>6, <1>8, <1>9, <1>10 DEF FeedInv

LEMMA FeedStepKeepsFeeds ==
  ASSUME CommandInv, args.sub = "feeds", FeedUnknown \/ FeedStored \/ FeedFails
  PROVE  FeedInv'
<1>1. pc = "feeds" /\ todo # <<>> /\ NextFeed /\ Modlure
  BY DEF FeedUnknown, FeedStored, FeedFails, Modlure
<1>2. \/ ~Known(Head(todo)) /\ status' = 2 /\ UNCHANGED <<stored, failed>>
      \/ stored' = stored \cup {Head(todo)} /\ UNCHANGED <<status, failed>>
      \/ failed' = failed \cup {Head(todo)} /\ status' = 1 /\ UNCHANGED stored
  BY <1>1 DEF FeedUnknown, FeedStored, FeedFails, Missed
<1> QED
  BY <1>1, <1>2, OneMoreTried

LEMMA FeedsDoneKeepsFeeds ==
  ASSUME CommandInv, args.sub = "feeds", FeedsDone PROVE FeedInv'
<1>1. /\ pc = "feeds" /\ todo = <<>> /\ pc' = "end" /\ status' = status
      /\ UNCHANGED <<args, stored, failed>>
  BY DEF FeedsDone, Return
<1>2. Len(Requested) \in Nat /\ Tried(Len(Requested) - Len(todo))
  BY <1>1, UpdatingTyped
<1>3. Len(todo) = 0 /\ Len(Requested) - 0 = Len(Requested)
  BY <1>1, <1>2
<1>4. Tried(Len(Requested))
  BY <1>2, <1>3
<1>5. Tried(Len(Requested))'
  BY <1>1, <1>4, SameArgs DEF Tried
<1> QED
  BY <1>1, <1>5 DEF FeedInv

\* A step that ends another call, or ends it by an exception.
LEMMA OtherEndKeepsFeeds ==
  ASSUME CommandInv, args.sub = "feeds", FeedsUsage \/ FeedsList \/ FeedRaises \/ FeedsGet
  PROVE  FeedInv'
<1>1. pc' = "end" /\ args' = args /\ (ended' = "raised" \/ pc \in {"none", "list", "snapshot", "get"})
  BY DEF FeedsUsage, FeedsList, FeedRaises, FeedsGet, Return, Escape
<1>2. pc \in {"none", "list", "snapshot", "get"} => args.action # "update"
  BY DEF CommandInv, PcInv
<1> QED
  BY <1>1, <1>2 DEF FeedInv

LEMMA StutterKeepsFeeds ==
  ASSUME CommandInv, args.sub = "feeds", UNCHANGED vars PROVE FeedInv'
<1>1. UNCHANGED <<args, pc, todo, status, ended, stored, failed>>
  BY DEF vars
<1>2. FeedInv
  BY DEF CommandInv
<1> QED
  BY <1>1, <1>2, SameArgs DEF FeedInv, Tried

LEMMA FeedsKept ==
  ASSUME CommandInv, args.sub = "feeds", [Next]_vars PROVE FeedInv'
<1>1. ~(Authorize \/ ReadScopeFile \/ BuildScope \/ ProbeNext \/ ProbeRaises \/ Report)
  <2>1. pc \notin {"authorize", "scope_file", "specs", "run"}
    BY DEF CommandInv, PcInv
  <2> QED
    BY <2>1 DEF Authorize, ReadScopeFile, BuildScope, ProbeNext, ProbeRaises, Report
<1> QED
  BY <1>1, DispatchKeepsFeeds, UpdateStartKeepsFeeds, FeedStepKeepsFeeds, FeedsDoneKeepsFeeds,
     OtherEndKeepsFeeds, StutterKeepsFeeds DEF Next

LEMMA PcKept == ASSUME CommandInv, [Next]_vars PROVE PcInv'
<1>1. PcInv
  BY DEF CommandInv
<1>2. CASE UNCHANGED vars
  BY <1>1, <1>2 DEF PcInv, vars
<1> QED
  BY <1>1, <1>2, DispatchKeepsPc, SetupKeepsPc, RunKeepsPc, FeedStepsKeepPc DEF Next

LEMMA InitCommandInv == ASSUME Init PROVE CommandInv
BY DEF Init, CommandInv, PcInv, ProbeInv, FeedInv, Labels

LEMMA SameCommand == ASSUME CommandInv, [Next]_vars PROVE args' = args
BY DEF Next, vars, Dispatch, Authorize, ReadScopeFile, BuildScope, ProbeNext, ProbeRaises, Report,
   FeedsUsage, FeedsList, UpdateStart, FeedUnknown, FeedStored, FeedFails, FeedRaises,
   FeedsDone, FeedsGet, NextFeed, Goto, Return, Escape

LEMMA CommandInvKept == ASSUME CommandInv, [Next]_vars PROVE CommandInv'
BY SameCommand, PcKept, PlanKept, FeedsKept DEF CommandInv

LEMMA CommandInvHolds == Spec => []CommandInv
BY InitCommandInv, CommandInvKept, PTL DEF Spec

-----------------------------------------------------------------------------
(* The theorems                                                             *)

\* Types; in particular run of probe.py gets targets only, never a text that
\* parse refused.
THEOREM TypeCorrect == Spec => []TypeOK
<1>1. ASSUME CommandInv PROVE TypeOK
  <2>1. PcInv
    BY <1>1 DEF CommandInv
  <2>2. ASSUME pc = "run" PROVE \A n \in DOMAIN todo : IsTarget(todo[n])
    <3>1. todo \in Seq(TargetType)
      BY <1>1, <2>2, ProbingTyped
    <3>2. \A n \in DOMAIN todo : todo[n] \in TargetType
      BY <3>1
    <3> QED
      BY <3>2 DEF IsTarget, TargetType
  <2>3. \A n \in DOMAIN probed : IsTarget(Targets[n])
    <3>1. probed \in Seq(Probes)
      BY <2>1, PcTyped
    <3>2. \A n \in DOMAIN probed : probed[n] \in Probes
      BY <3>1
    <3>3. \A n \in DOMAIN probed : probed[n].target \in TargetType
      BY <3>2 DEF Probes
    <3> QED
      BY <3>3 DEF IsTarget, TargetType, Targets
  <2> QED
    BY <2>1, <2>2, <2>3, PcTyped DEF TypeOK
<1> QED
  BY <1>1, CommandInvHolds, PTL

LEMMA TextsJoined ==
  ASSUME NEW s \in TextSeq, NEW t \in TextSeq
  PROVE  /\ DOMAIN (s \o t) = 1..(Len(s) + Len(t))
         /\ \A n \in 1..Len(s) : (s \o t)[n] = s[n]
         /\ \A n \in 1..Len(t) : (s \o t)[Len(s) + n] = t[n]
<1>1. PICK r : r = s \o t
  OBVIOUS
<1>2. /\ r \in Seq(Seq(Tokens)) /\ Len(r) = Len(s) + Len(t)
      /\ \A n \in 1..Len(s) : r[n] = s[n]
      /\ \A n \in 1..Len(t) : r[Len(s) + n] = t[n]
  BY <1>1, ConcatLemma DEF TextSeq
<1>3. DOMAIN r = 1..Len(r)
  BY <1>2, SeqParts
<1> QED
  BY <1>1, <1>2, <1>3

LEMMA RefusedParts ==
  ASSUME NEW s \in TextSeq, NEW t \in TextSeq
  PROVE  SomeRefused(s \o t) <=> SomeRefused(s) \/ SomeRefused(t)
<1>1. PICK r : r = s \o t
  OBVIOUS
<1>2. PICK l \in Nat, k \in Nat : /\ l = Len(s) /\ k = Len(t)
                                  /\ DOMAIN s = 1..l /\ DOMAIN t = 1..k
  BY SeqParts DEF TextSeq
<1>3. /\ DOMAIN r = 1..(l + k)
      /\ \A n \in 1..l : r[n] = s[n]
      /\ \A n \in 1..k : r[l + n] = t[n]
  <2>1. /\ DOMAIN (s \o t) = 1..(Len(s) + Len(t))
        /\ \A n \in 1..Len(s) : (s \o t)[n] = s[n]
        /\ \A n \in 1..Len(t) : (s \o t)[Len(s) + n] = t[n]
    BY TextsJoined
  <2> QED
    BY <1>1, <1>2, <2>1
<1>4. \A n \in 1..(l + k) : n \in 1..l \/ \E j \in 1..k : n = l + j
  <2> SUFFICES ASSUME NEW n \in 1..(l + k), n \notin 1..l
               PROVE  \E j \in 1..k : n = l + j
    OBVIOUS
  <2>1. n - l \in 1..k /\ n = l + (n - l)
    BY <1>2
  <2> QED
    BY <2>1
<1>5. /\ \A n \in 1..l : n \in 1..(l + k)
      /\ \A n \in 1..k : l + n \in 1..(l + k)
  BY <1>2
<1> DEFINE Bad(text) == ~Blank(text) /\ Parse(text) = NoTarget
<1>6. /\ SomeRefused(s \o t) <=> \E n \in 1..(l + k) : Bad(r[n])
      /\ SomeRefused(s) <=> \E n \in 1..l : Bad(s[n])
      /\ SomeRefused(t) <=> \E n \in 1..k : Bad(t[n])
  BY <1>1, <1>2, <1>3 DEF SomeRefused
<1> HIDE DEF Bad
<1>7. ASSUME NEW n \in 1..(l + k), Bad(r[n])
      PROVE  (\E i \in 1..l : Bad(s[i])) \/ (\E i \in 1..k : Bad(t[i]))
  BY <1>3, <1>4, <1>7
<1>8. (\E i \in 1..l : Bad(s[i])) => \E n \in 1..(l + k) : Bad(r[n])
  BY <1>3, <1>5
<1>9. (\E i \in 1..k : Bad(t[i])) => \E n \in 1..(l + k) : Bad(r[n])
  BY <1>3, <1>5
<1> QED
  BY <1>6, <1>7, <1>8, <1>9

LEMMA FileEntriesTexts ==
  ASSUME args \in Invocations, args.sub = "probe"
  PROVE  /\ args.target \in TextSeq /\ FileEntries \in TextSeq
         /\ \A n \in DOMAIN FileEntries : ~Blank(FileEntries[n])
<1>1. args.target \in TextSeq /\ args.lines \in TextSeq
  BY ProbeArgs
<1>2. CASE args.file = "read"
  <2>1. FileEntries = Entries(args.lines)
    BY <1>2 DEF FileEntries
  <2> QED
    BY <1>1, <2>1, EntriesTexts
<1>3. CASE args.file # "read"
  <2>1. FileEntries = <<>>
    BY <1>3 DEF FileEntries
  <2> QED
    BY <1>1, <2>1 DEF TextSeq
<1> QED
  BY <1>2, <1>3

\* _cmd_probe opens no connection before everything given to it is accepted: one
\* wrong entry anywhere and no device is probed.
THEOREM AllOrNothingHolds == Spec => []AllOrNothing
<1>1. ASSUME CommandInv, args.sub = "probe", probed # <<>>
      PROVE  /\ args.authorized
             /\ args.file \in {"none", "read"}
             /\ ~SomeRefused(args.target \o FileEntries)
             /\ ended = "returned" => status # 2
  <2>1. args \in Invocations
    BY <1>1 DEF CommandInv, PcInv
  <2>2. Accepted /\ RunInv
    BY <1>1 DEF CommandInv, ProbeInv
  <2>3. FileAccepted /\ ~SomeRefused(Given)
    BY <2>2 DEF Accepted
  <2>4. args.target \in TextSeq /\ FileSpecs \in TextSeq
    BY <1>1, <2>1, <2>3, GivenTexts
  <2>5. ~SomeRefused(args.target)
    BY <2>3, <2>4, RefusedParts DEF Given
  <2>6. ~SomeRefused(FileEntries) /\ args.authorized /\ args.file \in {"none", "read"}
    BY <2>3 DEF FileAccepted
  <2>7. FileEntries \in TextSeq
    BY <1>1, <2>1, FileEntriesTexts
  <2>8. ~SomeRefused(args.target \o FileEntries)
    BY <2>4, <2>5, <2>6, <2>7, RefusedParts
  <2>9. ended = "returned" => status # 2
    BY <2>2 DEF RunInv
  <2> QED
    BY <2>6, <2>8, <2>9
<1>2. CommandInv => AllOrNothing
  BY <1>1 DEF AllOrNothing
<1> QED
  BY <1>2, CommandInvHolds, PTL

Results == TargetType \cup {NoTarget}

LEMMA ListOf ==
  ASSUME NEW T, NEW n \in Nat, NEW s, s = [i \in 1..n |-> s[i]], \A i \in 1..n : s[i] \in T
  PROVE  s \in Seq(T) /\ Len(s) = n
OBVIOUS

\* ParseAll works entry by entry: what stands behind may be written otherwise,
\* as long as it is parsed to the same.
LEMMA ParseAllBehind ==
  ASSUME NEW s \in TextSeq, NEW t \in TextSeq, NEW u \in TextSeq,
         Len(t) = Len(u), \A n \in DOMAIN t : Parse(t[n]) = Parse(u[n])
  PROVE  ParseAll(s \o t) = ParseAll(s) \o ParseAll(u)
<1>1. PICK r : r = s \o t
  OBVIOUS
<1>2. PICK l \in Nat, k \in Nat : /\ l = Len(s) /\ k = Len(t) /\ k = Len(u)
                                  /\ DOMAIN s = 1..l /\ DOMAIN t = 1..k /\ DOMAIN u = 1..k
  <2>1. /\ Len(s) \in Nat /\ DOMAIN s = 1..Len(s)
        /\ Len(t) \in Nat /\ DOMAIN t = 1..Len(t) /\ DOMAIN u = 1..Len(u)
    BY SeqParts DEF TextSeq
  <2> QED
    BY <2>1
<1>3. /\ DOMAIN r = 1..(l + k)
      /\ \A n \in 1..l : r[n] = s[n]
      /\ \A n \in 1..k : r[l + n] = t[n]
  <2>1. /\ DOMAIN (s \o t) = 1..(Len(s) + Len(t))
        /\ \A n \in 1..Len(s) : (s \o t)[n] = s[n]
        /\ \A n \in 1..Len(t) : (s \o t)[Len(s) + n] = t[n]
    BY TextsJoined
  <2> QED
    BY <1>1, <1>2, <2>1
<1>4. PICK f, a, b : f = ParseAll(r) /\ a = ParseAll(s) /\ b = ParseAll(u)
  OBVIOUS
<1>5. /\ f = [n \in 1..(l + k) |-> Parse(r[n])]
      /\ a = [n \in 1..l |-> Parse(s[n])]
      /\ b = [n \in 1..k |-> Parse(u[n])]
  BY <1>2, <1>3, <1>4 DEF ParseAll
<1>6. PICK T : T = {Parse(s[n]) : n \in 1..l} \cup {Parse(u[n]) : n \in 1..k}
                   \cup {Parse(r[n]) : n \in 1..(l + k)}
  OBVIOUS
<1>7. /\ f \in Seq(T) /\ Len(f) = l + k
      /\ a \in Seq(T) /\ Len(a) = l
      /\ b \in Seq(T) /\ Len(b) = k
  <2>1. l + k \in Nat
    BY <1>2
  <2>2. /\ f = [n \in 1..(l + k) |-> f[n]] /\ \A n \in 1..(l + k) : f[n] \in T
    BY <1>5, <1>6
  <2>3. f \in Seq(T) /\ Len(f) = l + k
    BY <2>1, <2>2, ListOf
  <2>4. /\ a = [n \in 1..l |-> a[n]] /\ \A n \in 1..l : a[n] \in T
    BY <1>5, <1>6
  <2>5. a \in Seq(T) /\ Len(a) = l
    BY <2>4, ListOf
  <2>6. /\ b = [n \in 1..k |-> b[n]] /\ \A n \in 1..k : b[n] \in T
    BY <1>5, <1>6
  <2>7. b \in Seq(T) /\ Len(b) = k
    BY <2>6, ListOf
  <2> QED
    BY <2>3, <2>5, <2>7
<1>8. /\ a \o b \in Seq(T) /\ Len(a \o b) = l + k
      /\ \A n \in 1..l : (a \o b)[n] = a[n]
      /\ \A n \in 1..k : (a \o b)[l + n] = b[n]
  <2>1. a \in Seq(T) /\ b \in Seq(T)
    BY <1>7
  <2>2. /\ a \o b \in Seq(T) /\ Len(a \o b) = Len(a) + Len(b)
        /\ \A n \in 1..Len(a) : (a \o b)[n] = a[n]
        /\ \A n \in 1..Len(b) : (a \o b)[Len(a) + n] = b[n]
    BY <2>1, ConcatLemma
  <2> QED
    BY <1>7, <2>2
<1>9. ASSUME NEW n \in 1..(l + k) PROVE f[n] = (a \o b)[n]
  <2>1. f[n] = Parse(r[n])
    BY <1>5
  <2>2. CASE n \in 1..l
    BY <1>3, <1>5, <1>8, <2>1, <2>2
  <2>3. CASE n \notin 1..l
    <3>1. PICK j \in 1..k : n = l + j
      <4>1. n - l \in 1..k /\ n = l + (n - l)
        BY <1>2, <2>3
      <4> QED
        BY <4>1
    <3>2. f[n] = Parse(t[j]) /\ (a \o b)[n] = Parse(u[j])
      BY <1>3, <1>5, <1>8, <2>1, <3>1
    <3> QED
      BY <1>2, <3>1, <3>2
  <2> QED
    BY <2>2, <2>3
<1>10. PICK g : g = a \o b
  OBVIOUS
<1>11. f = g
  BY <1>7, <1>8, <1>9, <1>10
<1> QED
  BY <1>1, <1>4, <1>10, <1>11

\* What the texts of the scope are parsed to, when its file is written back as
\* keys, is what they were parsed to at first.
LEMMA PlanIsListed ==
  ASSUME args \in Invocations, args.sub = "probe", Accepted, PlainFile
  PROVE  Plan = Listed
<1>1. FileAccepted
  BY DEF Accepted
<1>2. /\ args.target \in TextSeq /\ FileSpecs \in TextSeq /\ FileEntries \in TextSeq
      /\ \A n \in DOMAIN FileSpecs : ~Blank(FileSpecs[n])
  BY <1>1, GivenTexts, FileEntriesTexts
<1>3. NonBlank(Given) = NonBlank(args.target) \o FileSpecs
  BY <1>2, NonBlankBehind DEF Given
<1>4. /\ Len(FileSpecs) = Len(FileEntries)
      /\ \A n \in DOMAIN FileSpecs : Parse(FileSpecs[n]) = Parse(FileEntries[n])
  <2>1. CASE args.file = "read"
    <3>1. /\ args.lines \in TextSeq /\ FileEntries = Entries(args.lines)
          /\ FileSpecs = Specs(args.lines)
      BY <2>1, ProbeArgs DEF FileEntries, FileSpecs
    <3>2. ~SomeRefused(Entries(args.lines))
      BY <1>1, <3>1 DEF FileAccepted
    <3>3. /\ Len(FileSpecs) = Len(FileEntries)
          /\ \A n \in DOMAIN FileEntries : /\ IsTargetOf(Parse(FileEntries[n]))
                                           /\ FileSpecs[n] = Key(Parse(FileEntries[n]))
      BY <3>1, <3>2, SpecsAreTexts
    <3>4. \A n \in DOMAIN FileEntries : Plain(Parse(FileEntries[n]).host)
      BY DEF PlainFile
    <3>5. \A n \in DOMAIN FileEntries : Parse(FileSpecs[n]) = Parse(FileEntries[n])
      BY <3>3, <3>4, PlainSurvives
    <3>6. DOMAIN FileSpecs = DOMAIN FileEntries
      BY <1>2, <3>3, SeqParts DEF TextSeq
    <3> QED
      BY <3>3, <3>5, <3>6
  <2>2. CASE args.file # "read"
    <3>1. FileSpecs = <<>> /\ FileEntries = <<>>
      BY <2>2 DEF FileSpecs, FileEntries
    <3> QED
      BY <3>1
  <2> QED
    BY <2>1, <2>2
<1>5. NonBlank(args.target) \in TextSeq
  BY <1>2, NonBlankTexts
<1>6. ParseAll(NonBlank(args.target) \o FileSpecs)
        = ParseAll(NonBlank(args.target)) \o ParseAll(FileEntries)
  <2>1. PICK a : a = NonBlank(args.target) /\ a \in TextSeq
    BY <1>5
  <2>2. PICK b, c : /\ b = FileSpecs /\ c = FileEntries /\ b \in TextSeq /\ c \in TextSeq
                    /\ Len(b) = Len(c) /\ \A n \in DOMAIN b : Parse(b[n]) = Parse(c[n])
    BY <1>2, <1>4
  <2>3. ParseAll(a \o b) = ParseAll(a) \o ParseAll(c)
    BY <2>1, <2>2, ParseAllBehind
  <2> QED
    BY <2>1, <2>2, <2>3
<1> QED
  BY <1>3, <1>6 DEF Plan, Listed

\* The list is a sequence, whatever is refused of it.
LEMMA ListedTyped ==
  ASSUME args \in Invocations, args.sub = "probe"
  PROVE  Len(Listed) \in Nat
<1>1. args.target \in TextSeq /\ FileEntries \in TextSeq
  BY FileEntriesTexts
<1>2. NonBlank(args.target) \in TextSeq
  BY <1>1, NonBlankTexts
<1>3. ASSUME NEW texts \in TextSeq PROVE ParseAll(texts) \in Seq(Results)
  <2>1. Len(texts) \in Nat /\ DOMAIN texts = 1..Len(texts)
        /\ \A n \in 1..Len(texts) : texts[n] \in Seq(Tokens)
    BY SeqParts DEF TextSeq
  <2>2. \A n \in 1..Len(texts) : Parse(texts[n]) \in Results
    BY <2>1, ParseAccepts DEF IsTargetOf, TargetType, Results
  <2>3. ParseAll(texts) = [n \in 1..Len(texts) |-> Parse(texts[n])]
    BY <2>1 DEF ParseAll
  <2> QED
    BY <2>1, <2>2, <2>3
<1>4. PICK a, b : /\ a = ParseAll(NonBlank(args.target)) /\ b = ParseAll(FileEntries)
                  /\ a \in Seq(Results) /\ b \in Seq(Results)
  BY <1>1, <1>2, <1>3
<1>5. a \o b \in Seq(Results)
  BY <1>4
<1>6. Len(a \o b) \in Nat
  BY <1>5
<1> QED
  BY <1>4, <1>6 DEF Listed

\* What _cmd_probe probes is what was listed, in that order, as long as the hosts
\* of the file are plain: its detour over keys loses nothing then.
THEOREM ProbesExactlyTheListHolds == Spec => []ProbesExactlyTheList
<1>1. ASSUME CommandInv, args.sub = "probe", PlainFile
      PROVE  /\ IsPrefix(Targets, Listed)
             /\ ended = "returned" /\ status # 2 => Len(Targets) = Len(Listed)
  <2>1. args \in Invocations /\ probed \in Seq(Probes)
    BY <1>1 DEF CommandInv, PcInv
  <2>2. /\ Len(probed) \in Nat /\ Len(Targets) = Len(probed) /\ DOMAIN Targets = 1..Len(probed)
        /\ \A n \in 1..Len(probed) : Targets[n] = probed[n].target
    BY <2>1 DEF Targets
  <2>3. CASE probed = <<>> /\ ~(ended = "returned" /\ status # 2)
    <3>1. Len(Targets) = 0 /\ \A n \in DOMAIN Targets : FALSE
      BY <2>2, <2>3
    <3>2. Len(Listed) \in Nat
      BY <1>1, <2>1, ListedTyped
    <3> QED
      BY <2>3, <3>1, <3>2 DEF IsPrefix
  <2>4. CASE probed # <<>> \/ (ended = "returned" /\ status # 2)
    <3>1. Accepted /\ RunInv
      BY <1>1, <2>4 DEF CommandInv, ProbeInv
    <3>2. Plan = Listed
      BY <1>1, <2>1, <3>1, PlanIsListed
    <3>3. /\ Len(probed) <= Len(Listed)
          /\ \A n \in 1..Len(probed) : probed[n].target = Listed[n]
          /\ ended = "returned" => Len(probed) = Len(Listed)
      BY <3>1, <3>2 DEF RunInv, OnPlan
    <3> QED
      BY <2>2, <3>3 DEF IsPrefix
  <2> QED
    BY <2>3, <2>4
<1>2. CommandInv => ProbesExactlyTheList
  BY <1>1 DEF ProbesExactlyTheList
<1> QED
  BY <1>2, CommandInvHolds, PTL

\* The status of cmd_feeds tells what came of the feeds asked for: all of them are
\* tried, and 0 is returned only when all are in the cache.
THEOREM FeedsStatusTellsAllHolds == Spec => []FeedsStatusTellsAll
<1>1. ASSUME CommandInv, args.sub = "feeds", args.action = "update", ended = "returned"
      PROVE  /\ \A n \in DOMAIN Requested :
                  Known(Requested[n]) => Requested[n] \in stored \cup failed
             /\ status = 0 => \A n \in DOMAIN Requested : Requested[n] \in stored
             /\ status # 0 => failed # {} \/ \E n \in DOMAIN Requested : ~Known(Requested[n])
  <2>1. args \in Invocations /\ pc = "end"
    BY <1>1 DEF CommandInv, PcInv
  <2>2. Tried(Len(Requested))
    BY <1>1, <2>1 DEF CommandInv, FeedInv
  <2>3. DOMAIN Requested = 1..Len(Requested)
    BY <1>1, <2>1, FeedArgs, SeqParts
  <2> QED
    BY <2>2, <2>3 DEF Tried
<1>2. CommandInv => FeedsStatusTellsAll
  BY <1>1 DEF FeedsStatusTellsAll
<1> QED
  BY <1>2, CommandInvHolds, PTL
=============================================================================
