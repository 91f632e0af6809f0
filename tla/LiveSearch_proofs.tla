--------------------------- MODULE LiveSearch_proofs ---------------------------
(***************************************************************************)
(* Theorems about LiveSearch, for any sources, feeds, limits and cutoff.   *)
(*                                                                         *)
(* The argument: while items come in, seen holds the links of the          *)
(* acceptable items looked at, so that the next one is kept exactly when   *)
(* it is the first acceptable one with its link.  The sort is a            *)
(* permutation because going ahead is a total order: each item has a place *)
(* of its own.                                                             *)
(***************************************************************************)
EXTENDS LiveSearch, FiniteSetTheorems, FunctionTheorems, WellFoundedInduction, TLAPS

-----------------------------------------------------------------------------
(* The items of a feed                                                      *)

Published == Dates \cup {Undated}
Entries   == UNION {{ItemOf(f[n]) : n \in DOMAIN f} : f \in Feeds}

LessOnNat == {ss \in Nat \X Nat : ss[1] < ss[2]}

LEMMA LargestOf ==
  ASSUME NEW m \in Nat, NEW S \in SUBSET (1..m), S # {}
  PROVE  \E n \in S : \A k \in S : k <= n
<1> DEFINE T == {m - n : n \in S}
<1>1. T \in SUBSET Nat /\ T # {}
  <2>1. \A n \in S : n \in Int /\ m - n \in Nat
    OBVIOUS
  <2> QED
    BY <2>1
<1> HIDE DEF T
<1>2. IsWellFoundedOn(LessOnNat, Nat)
  BY NatLessThanWellFounded DEF LessOnNat, OpToRel
<1>3. \E i \in T : \A j \in T : ~ (<<j, i>> \in LessOnNat)
  <2>1. T \subseteq Nat
    BY <1>1
  <2> QED
    BY <1>1, <1>2, <2>1, WFMin
<1>4. PICK i \in T : \A j \in T : ~(j < i)
  BY <1>1, <1>3 DEF LessOnNat
<1>5. PICK n \in S : i = m - n
  BY DEF T
<1>6. ASSUME NEW k \in S PROVE k <= n
  <2>1. m - k \in T /\ n \in Int /\ k \in Int
    BY DEF T
  <2>2. ~(m - k < i)
    BY <1>4, <2>1
  <2> QED
    BY <1>5, <2>1, <2>2
<1> QED
  BY <1>6

LEMMA PublishedTyped ==
  ASSUME NEW node, IsNode(node)
  PROVE  ItemOf(node).published \in Published
<1> DEFINE at == {n \in DOMAIN node : node[n].tag \in DateTags}
           last == CHOOSE n \in at : \A m \in at : m <= n
<1>1. PICK T : T = {node[n] : n \in DOMAIN node} /\ node \in Seq(T)
  BY DEF IsNode, IsSeq
<1>2. Len(node) \in Nat /\ DOMAIN node = 1..Len(node)
  BY <1>1
<1>3. ItemOf(node).published = IF at = {} THEN Undated ELSE node[last].value
  BY DEF ItemOf, LastOf
<1>4. CASE at = {}
  BY <1>3, <1>4 DEF Published
<1>5. CASE at # {}
  <2>1. at \in SUBSET (1..Len(node))
    BY <1>2
  <2>2. \E n \in at : \A m \in at : m <= n
    <3> HIDE DEF at
    <3> QED
      BY <1>2, <1>5, <2>1, LargestOf
  <2>3. last \in at
    <3> HIDE DEF at
    <3> QED
      BY <2>2
  <2>4. \A n \in at : node[n].value \in Published
    BY DEF IsNode, Published
  <2> HIDE DEF at, last
  <2> QED
    BY <1>3, <1>5, <2>3, <2>4
<1> QED
  BY <1>4, <1>5

LEMMA EntriesDated == \A e \in Entries : e.published \in Published
<1> SUFFICES ASSUME NEW f \in Feeds, NEW n \in DOMAIN f
             PROVE  ItemOf(f[n]).published \in Published
  BY DEF Entries
<1>1. IsNode(f[n])
  BY LiveSearchAssumption
<1> QED
  BY <1>1, PublishedTyped

LEMMA ItemsTyped ==
  ASSUME NEW feed \in Feeds \cup {<<>>}
  PROVE  ItemsOf(feed) \in Seq(Entries)
<1>1. Len(feed) \in Nat /\ DOMAIN feed = 1..Len(feed)
  <2>1. CASE feed = <<>>
    BY <2>1
  <2>2. CASE feed # <<>>
    <3>1. PICK T : T = {feed[n] : n \in DOMAIN feed} /\ feed \in Seq(T)
      BY <2>2, LiveSearchAssumption DEF IsSeq
    <3> QED
      BY <3>1
  <2> QED
    BY <2>1, <2>2
<1>2. PICK k \in Nat : k = Least(Len(feed), per_source) /\ k <= Len(feed)
  <2>1. per_source \in Nat
    BY LiveSearchAssumption
  <2>2. Least(Len(feed), per_source) \in Nat /\ Least(Len(feed), per_source) <= Len(feed)
    BY <1>1, <2>1 DEF Least
  <2> QED
    BY <2>2
<1>3. \A n \in 1..k : ItemOf(feed[n]) \in Entries
  <2> SUFFICES ASSUME NEW n \in 1..k PROVE ItemOf(feed[n]) \in Entries
    OBVIOUS
  <2>1. n \in DOMAIN feed /\ feed # <<>>
    BY <1>1, <1>2
  <2> QED
    BY <2>1 DEF Entries
<1>4. ItemsOf(feed) = [n \in 1..k |-> ItemOf(feed[n])]
  BY <1>2 DEF ItemsOf
<1> QED
  BY <1>3, <1>4

-----------------------------------------------------------------------------
(* The order of the result                                                  *)

\* The ISO strings are in a weak order.
LEMMA IsoAsymmetric ==
  ASSUME NEW d \in Published, NEW e \in Published, IsoBefore(d, e)
  PROVE  ~IsoBefore(e, d)
BY LiveSearchAssumption DEF IsoBefore, Published, Dates

LEMMA IsoBetween ==
  ASSUME NEW d \in Published, NEW e \in Published, NEW f \in Published, IsoBefore(d, f)
  PROVE  IsoBefore(d, e) \/ IsoBefore(e, f)
BY LiveSearchAssumption DEF IsoBefore, Published, Dates

LEMMA NotIsoBefore ==
  ASSUME NEW d \in Published, NEW e \in Published, ~IsoBefore(d, e)
  PROVE  e = Undated \/ (d # Undated /\ d.sec >= e.sec)
BY LiveSearchAssumption DEF IsoBefore, Published, Dates

\* Of two items one goes ahead, and so does what goes ahead of that one.
LEMMA AheadTotal ==
  ASSUME NEW s \in Seq(Entries), NEW m \in DOMAIN s, NEW n \in DOMAIN s
  PROVE  /\ m # n => Ahead(s, m, n) \/ Ahead(s, n, m)
         /\ ~Ahead(s, m, m)
         /\ Ahead(s, m, n) => ~IsoBefore(s[m].published, s[n].published)
<1>1. m \in Nat /\ n \in Nat /\ s[m].published \in Published /\ s[n].published \in Published
  <2>1. m \in Nat /\ n \in Nat /\ s[m] \in Entries /\ s[n] \in Entries
    OBVIOUS
  <2> QED
    BY <2>1, EntriesDated
<1>2. /\ ~IsoBefore(s[m].published, s[m].published)
      /\ IsoBefore(s[n].published, s[m].published) =>
           ~IsoBefore(s[m].published, s[n].published)
  BY <1>1, IsoAsymmetric
<1>3. m # n => m < n \/ n < m
  BY <1>1
<1>4. ~(m < m)
  BY <1>1
<1> QED
  BY <1>2, <1>3, <1>4 DEF Ahead

LEMMA AheadTransitive ==
  ASSUME NEW s \in Seq(Entries), NEW k \in DOMAIN s, NEW m \in DOMAIN s, NEW n \in DOMAIN s,
         Ahead(s, k, m), Ahead(s, m, n)
  PROVE  Ahead(s, k, n)
<1>1. PICK a, b, c : /\ a = s[k].published /\ b = s[m].published /\ c = s[n].published
                     /\ {a, b, c} \subseteq Published
  <2>1. s[k] \in Entries /\ s[m] \in Entries /\ s[n] \in Entries
    OBVIOUS
  <2> QED
    BY <2>1, EntriesDated
<1>2. ~IsoBefore(a, b) /\ ~IsoBefore(b, c)
  BY <1>1, AheadTotal
<1>3. ~IsoBefore(a, c)
  BY <1>1, <1>2, IsoBetween
<1>4. CASE IsoBefore(b, a)
  <2>1. IsoBefore(c, a)
    BY <1>1, <1>2, <1>4, IsoBetween
  <2> QED
    BY <1>1, <2>1 DEF Ahead
<1>5. CASE IsoBefore(c, b)
  <2>1. IsoBefore(c, a)
    BY <1>1, <1>2, <1>5, IsoBetween
  <2> QED
    BY <1>1, <2>1 DEF Ahead
<1>6. CASE ~IsoBefore(b, a) /\ ~IsoBefore(c, b)
  <2>1. k < m /\ m < n
    BY <1>1, <1>6 DEF Ahead
  <2>2. k \in Nat /\ m \in Nat /\ n \in Nat
    OBVIOUS
  <2>3. k < n
    BY <2>1, <2>2
  <2> QED
    BY <1>1, <1>3, <2>3 DEF Ahead
<1> QED
  BY <1>4, <1>5, <1>6

\* The items that go ahead of one of them are fewer than all.
LEMMA PlaceTyped ==
  ASSUME NEW s \in Seq(Entries), NEW n \in DOMAIN s
  PROVE  /\ IsFiniteSet({m \in DOMAIN s : Ahead(s, m, n)})
         /\ Place(s, n) \in 1..Len(s)
<1> DEFINE A == {m \in DOMAIN s : Ahead(s, m, n)}
<1>1. Len(s) \in Nat /\ DOMAIN s = 1..Len(s)
  OBVIOUS
<1>2. A \in SUBSET (DOMAIN s) /\ n \notin A
  BY AheadTotal
<1>3. IsFiniteSet(DOMAIN s) /\ Cardinality(DOMAIN s) = Len(s)
  <2>1. PICK k \in Nat : k = Len(s) /\ DOMAIN s = 1..k
    BY <1>1
  <2>2. IsFiniteSet(1..k) /\ Cardinality(1..k) = k
    BY FS_Interval
  <2> QED
    BY <2>1, <2>2
<1>4. Place(s, n) = 1 + Cardinality(A)
  BY DEF Place
<1> HIDE DEF A
<1>5. /\ IsFiniteSet(A) /\ Cardinality(A) \in Nat
      /\ Cardinality(A) <= Len(s) /\ Cardinality(A) # Len(s)
  BY <1>2, <1>3, FS_Subset, FS_CardinalityType
<1> QED
  BY <1>1, <1>4, <1>5 DEF A

LEMMA PlacesFollowAhead ==
  ASSUME NEW s \in Seq(Entries), NEW m \in DOMAIN s, NEW n \in DOMAIN s, Ahead(s, m, n)
  PROVE  Place(s, m) < Place(s, n)
<1> DEFINE A == {k \in DOMAIN s : Ahead(s, k, m)}
           B == {k \in DOMAIN s : Ahead(s, k, n)}
<1>1. A \in SUBSET B /\ m \in B /\ m \notin A
  BY AheadTotal, AheadTransitive
<1>2. IsFiniteSet(A) /\ IsFiniteSet(B)
  BY PlaceTyped
<1>3. Place(s, m) = 1 + Cardinality(A) /\ Place(s, n) = 1 + Cardinality(B)
  BY DEF Place
<1> HIDE DEF A, B
<1>4. /\ Cardinality(A) \in Nat /\ Cardinality(B) \in Nat
      /\ Cardinality(A) <= Cardinality(B) /\ Cardinality(A) # Cardinality(B)
  BY <1>1, <1>2, FS_Subset, FS_CardinalityType
<1> QED
  BY <1>3, <1>4

\* Every place is taken by one item.
LEMMA PlacesAreAll ==
  ASSUME NEW s \in Seq(Entries)
  PROVE  /\ \A k \in 1..Len(s) : \E n \in DOMAIN s : Place(s, n) = k
         /\ \A m, n \in DOMAIN s : Place(s, m) = Place(s, n) => m = n
<1> DEFINE D == DOMAIN s
           f == [n \in D |-> Place(s, n)]
           K == 1..Len(s)
<1>1. \A m, n \in D : Place(s, m) = Place(s, n) => m = n
  <2> SUFFICES ASSUME NEW m \in D, NEW n \in D, Place(s, m) = Place(s, n), m # n
               PROVE  FALSE
    OBVIOUS
  <2>1. Ahead(s, m, n) \/ Ahead(s, n, m)
    BY AheadTotal
  <2>2. Place(s, m) < Place(s, n) \/ Place(s, n) < Place(s, m)
    BY <2>1, PlacesFollowAhead
  <2>3. Place(s, m) \in Nat /\ Place(s, n) \in Nat
    <3>1. Place(s, m) \in 1..Len(s) /\ Place(s, n) \in 1..Len(s)
      BY PlaceTyped
    <3> QED
      BY <3>1
  <2> QED
    BY <2>2, <2>3
<1>2. \A n \in D : Place(s, n) \in K
  BY PlaceTyped
<1>3. f \in [D -> K] /\ \A m, n \in D : f[m] = f[n] => m = n
  BY <1>1, <1>2
<1>4. /\ Len(s) \in Nat /\ D = K
  OBVIOUS
<1>5. IsFiniteSet(K)
  BY <1>4, FS_Interval
<1>6. \A k \in K : \E n \in D : f[n] = k
  <2> HIDE DEF f, K, D
  <2>1. f \in Injection(D, K)
    BY <1>3, Fun_IsInj
  <2>2. IsFiniteSet(D) /\ Cardinality(D) = Cardinality(K)
    BY <1>4, <1>5
  <2>3. f \in Surjection(D, K)
    BY <1>5, <2>1, <2>2, FS_Injection
  <2> QED
    BY <2>3, Fun_SurjectionProperties
<1> QED
  BY <1>1, <1>6

\* The sorted sequence has at each place the item that belongs there.
LEMMA SortedShape ==
  ASSUME NEW s \in Seq(Entries)
  PROVE  /\ SortedByDate(s) \in Seq(Entries) /\ Len(SortedByDate(s)) = Len(s)
         /\ \A n \in DOMAIN s : SortedByDate(s)[Place(s, n)] = s[n]
<1> DEFINE at(k) == CHOOSE n \in DOMAIN s : Place(s, n) = k
<1>1. PICK r : r = SortedByDate(s)
  OBVIOUS
<1>2. Len(s) \in Nat /\ DOMAIN s = 1..Len(s)
  OBVIOUS
<1>3. r = [k \in 1..Len(s) |-> s[at(k)]]
  BY <1>1, <1>2 DEF SortedByDate
<1>4. \A k \in 1..Len(s) : at(k) \in DOMAIN s /\ Place(s, at(k)) = k
  <2> SUFFICES ASSUME NEW k \in 1..Len(s)
               PROVE  at(k) \in DOMAIN s /\ Place(s, at(k)) = k
    OBVIOUS
  <2>1. \E n \in DOMAIN s : Place(s, n) = k
    BY PlacesAreAll
  <2> QED
    BY <2>1
<1> HIDE DEF at
<1>5. r \in Seq(Entries) /\ Len(r) = Len(s)
  <2>1. \A k \in 1..Len(s) : s[at(k)] \in Entries
    BY <1>2, <1>4
  <2> QED
    BY <1>2, <1>3, <2>1
<1>6. ASSUME NEW n \in DOMAIN s PROVE r[Place(s, n)] = s[n]
  <2>1. Place(s, n) \in 1..Len(s)
    BY PlaceTyped
  <2>2. at(Place(s, n)) = n
    <3>1. PICK k \in 1..Len(s) : k = Place(s, n)
      BY <2>1
    <3>2. at(k) \in DOMAIN s /\ Place(s, at(k)) = Place(s, n)
      BY <1>4, <3>1
    <3>3. at(k) = n
      BY <3>2, PlacesAreAll
    <3> QED
      BY <3>1, <3>3
  <2> QED
    BY <1>3, <2>1, <2>2
<1> QED
  BY <1>1, <1>5, <1>6

\* Next to each other in the result, two items are in the order of their dates.
LEMMA SortedNewestFirst ==
  ASSUME NEW s \in Seq(Entries), NEW r, r = SortedByDate(s), NEW k \in 1..(Len(r) - 1)
  PROVE  \/ r[k + 1].published = Undated
         \/ r[k].published # Undated /\ r[k].published.sec >= r[k + 1].published.sec
<1>1. /\ r \in Seq(Entries) /\ Len(r) = Len(s) /\ Len(s) \in Nat
      /\ \A n \in DOMAIN s : r[Place(s, n)] = s[n]
  BY SortedShape
<1>2. k \in 1..Len(s) /\ k + 1 \in 1..Len(s) /\ k < k + 1 /\ k \in Nat
  BY <1>1
<1>3. PICK m \in DOMAIN s, n \in DOMAIN s : Place(s, m) = k /\ Place(s, n) = k + 1
  BY <1>2, PlacesAreAll
<1>4. r[k] = s[m] /\ r[k + 1] = s[n]
  BY <1>1, <1>3
<1>5. Ahead(s, m, n)
  <2>1. m # n
    BY <1>2, <1>3
  <2>2. ~Ahead(s, n, m)
    <3> SUFFICES ASSUME Ahead(s, n, m) PROVE FALSE
      OBVIOUS
    <3>1. Place(s, n) < Place(s, m)
      BY PlacesFollowAhead
    <3> QED
      BY <1>2, <1>3, <3>1
  <2> QED
    BY <2>1, <2>2, AheadTotal
<1>6. s[m].published \in Published /\ s[n].published \in Published
  <2>1. s[m] \in Entries /\ s[n] \in Entries
    OBVIOUS
  <2> QED
    BY <2>1, EntriesDated
<1>7. ~IsoBefore(s[m].published, s[n].published)
  BY <1>5, AheadTotal
<1> QED
  BY <1>4, <1>6, <1>7, NotIsoBefore

-----------------------------------------------------------------------------
(* The invariant                                                            *)

\* What may be kept of the items looked at.
Acceptable(n) == fetched[n].link # NoLink /\ Recent(fetched[n].published)

\* out holds the first acceptable item of each link, once.
FirstOfEach ==
  /\ Len(out) = Cardinality(Kept)
  /\ \A n \in Kept : \E k \in DOMAIN out : out[k] = fetched[n]
  /\ \A k, l \in DOMAIN out : out[k].link = out[l].link => k = l

\* While items come in, seen tells the links that are in out, and these are the
\* links of the acceptable items.
SeenInv ==
  /\ \A n \in DOMAIN fetched : Acceptable(n) => fetched[n].link \in seen
  /\ \A link \in seen : \E n \in Kept : fetched[n].link = link
  /\ \A k \in DOMAIN out : out[k].link \in seen

HarvestInv ==
  /\ items \in Seq(Entries) /\ out \in Seq(Entries) /\ fetched \in Seq(Entries)
  /\ pc \in {"sources", "items", "done", "raised"}
  /\ pc # "raised" => FirstOfEach
  /\ pc \in {"sources", "items"} => SeenInv
  /\ NewestFirst

-----------------------------------------------------------------------------
LEMMA KeptFinite ==
  ASSUME fetched \in Seq(Entries)
  PROVE  /\ Len(fetched) \in Nat /\ DOMAIN fetched = 1..Len(fetched)
         /\ Kept \in SUBSET (1..Len(fetched))
         /\ IsFiniteSet(Kept) /\ Cardinality(Kept) \in Nat
<1>1. PICK k \in Nat : k = Len(fetched) /\ DOMAIN fetched = 1..k
  OBVIOUS
<1>2. Kept \in SUBSET (1..k)
  BY <1>1 DEF Kept
<1>3. IsFiniteSet(1..k)
  BY FS_Interval
<1> QED
  BY <1>1, <1>2, <1>3, FS_Subset, FS_CardinalityType

LEMMA InitHarvestInv == ASSUME Init PROVE HarvestInv
<1>1. Kept = {}
  BY DEF Init, Kept
<1>2. Cardinality(Kept) = 0
  BY <1>1, FS_EmptySet
<1> QED
  BY <1>1, <1>2 DEF Init, HarvestInv, FirstOfEach, SeenInv, NewestFirst

\* The item looked at last: Kept does not change unless it is acceptable and the
\* first with its link.
LEMMA OneMoreItem ==
  ASSUME HarvestInv, pc = "items", items # <<>>, NextItem
  PROVE  /\ Head(items) \in Entries /\ items' \in Seq(Entries) /\ fetched' \in Seq(Entries)
         /\ Len(fetched) \in Nat /\ Len(fetched') = Len(fetched) + 1
         /\ \A n \in 1..Len(fetched) : fetched'[n] = fetched[n]
         /\ fetched'[Len(fetched) + 1] = Head(items)
         /\ pc' = "items"
<1>1. items \in Seq(Entries) /\ fetched \in Seq(Entries)
  BY DEF HarvestInv
<1>2. fetched' = Append(fetched, Head(items)) /\ items' = Tail(items) /\ pc' = "items"
  BY DEF NextItem
<1>3. Head(items) \in Entries /\ Tail(items) \in Seq(Entries)
  BY <1>1
<1> QED
  BY <1>1, <1>2, <1>3

LEMMA KeptGrows ==
  ASSUME HarvestInv, pc = "items", items # <<>>, NextItem
  PROVE  Kept' = {n \in 1..(Len(fetched) + 1) :
                    IF n = Len(fetched) + 1
                      THEN /\ Head(items).link # NoLink /\ Recent(Head(items).published)
                           /\ \A m \in 1..Len(fetched) : fetched[m].link = Head(items).link
                                                           => ~Recent(fetched[m].published)
                      ELSE n \in Kept}
<1>1. /\ Len(fetched) \in Nat /\ Len(fetched') = Len(fetched) + 1
      /\ \A n \in 1..Len(fetched) : fetched'[n] = fetched[n]
      /\ fetched'[Len(fetched) + 1] = Head(items)
      /\ fetched' \in Seq(Entries) /\ fetched \in Seq(Entries)
  BY OneMoreItem DEF HarvestInv
<1>2. PICK l \in Nat : /\ l = Len(fetched) /\ DOMAIN fetched = 1..l /\ DOMAIN fetched' = 1..(l + 1)
  BY <1>1
<1>3. PICK f, g, h : f = fetched /\ g = fetched' /\ h = Head(items)
  OBVIOUS
<1>4. /\ \A n \in 1..l : g[n] = f[n]
      /\ g[l + 1] = h
  BY <1>1, <1>2, <1>3
<1>5. Kept' = {n \in 1..(l + 1) :
                 /\ g[n].link # NoLink
                 /\ Recent(g[n].published)
                 /\ \A m \in 1..(n - 1) : g[m].link = g[n].link
                                            => ~Recent(g[m].published)}
  BY <1>2, <1>3 DEF Kept, Recent
<1>6. Kept = {n \in 1..l :
                /\ f[n].link # NoLink
                /\ Recent(f[n].published)
                /\ \A m \in 1..(n - 1) : f[m].link = f[n].link
                                           => ~Recent(f[m].published)}
  BY <1>2, <1>3 DEF Kept
<1>7. ASSUME NEW n \in 1..(l + 1), n # l + 1 PROVE n \in Kept' <=> n \in Kept
  <2>1. n \in 1..l /\ \A m \in 1..(n - 1) : m \in 1..l
    BY <1>7
  <2> QED
    BY <1>4, <1>5, <1>6, <2>1
<1>8. l + 1 \in Kept' <=> /\ h.link # NoLink /\ Recent(h.published)
                          /\ \A m \in 1..l : f[m].link = h.link => ~Recent(f[m].published)
  <2>1. l + 1 \in 1..(l + 1) /\ (l + 1) - 1 = l
    OBVIOUS
  <2> QED
    BY <1>4, <1>5, <2>1
<1>9. Kept' \subseteq 1..(l + 1)
  BY <1>5
<1> QED
  BY <1>2, <1>3, <1>7, <1>8, <1>9

\* An item that is dropped is no first acceptable one of its link.
LEMMA DropKeepsKept ==
  ASSUME HarvestInv, Drop PROVE Kept' = Kept
<1>1. /\ pc = "items" /\ items # <<>> /\ NextItem
      /\ Head(items).link \in seen \cup {NoLink} \/ ~Recent(Head(items).published)
  BY DEF Drop
<1>2. Len(fetched) \in Nat /\ Kept \in SUBSET (1..Len(fetched))
  BY KeptFinite DEF HarvestInv
<1>3. \A link \in seen : \E n \in Kept : fetched[n].link = link
  BY <1>1 DEF HarvestInv, SeenInv
<1>4. \A n \in Kept : Recent(fetched[n].published)
  BY DEF Kept
<1>5. ~(/\ Head(items).link # NoLink /\ Recent(Head(items).published)
        /\ \A m \in 1..Len(fetched) : fetched[m].link = Head(items).link
                                        => ~Recent(fetched[m].published))
  BY <1>1, <1>2, <1>3, <1>4
<1>6. /\ \A n \in 1..Len(fetched) : n # Len(fetched) + 1 /\ n \in 1..(Len(fetched) + 1)
      /\ \A n \in 1..(Len(fetched) + 1) : n # Len(fetched) + 1 => n \in 1..Len(fetched)
  BY <1>2
<1> QED
  BY <1>1, <1>2, <1>5, <1>6, KeptGrows

\* One that is kept is.
LEMMA KeepAddsKept ==
  ASSUME HarvestInv, Keep PROVE Kept' = Kept \cup {Len(fetched) + 1}
<1>1. /\ pc = "items" /\ items # <<>> /\ NextItem
      /\ Head(items).link \notin seen \cup {NoLink} /\ Recent(Head(items).published)
  BY DEF Keep
<1>2. /\ Len(fetched) \in Nat /\ Kept \in SUBSET (1..Len(fetched))
      /\ DOMAIN fetched = 1..Len(fetched)
  BY KeptFinite DEF HarvestInv
<1>3. \A n \in DOMAIN fetched : Acceptable(n) => fetched[n].link \in seen
  BY <1>1 DEF HarvestInv, SeenInv
<1>4. ASSUME NEW m \in 1..Len(fetched), fetched[m].link = Head(items).link
      PROVE  ~Recent(fetched[m].published)
  BY <1>1, <1>2, <1>3, <1>4 DEF Acceptable
<1>5. /\ \A n \in 1..Len(fetched) : n # Len(fetched) + 1 /\ n \in 1..(Len(fetched) + 1)
      /\ Len(fetched) + 1 \in 1..(Len(fetched) + 1)
  BY <1>2
<1>6. PICK P : P <=> (/\ Head(items).link # NoLink /\ Recent(Head(items).published)
                      /\ \A m \in 1..Len(fetched) : fetched[m].link = Head(items).link
                                        => ~Recent(fetched[m].published))
  OBVIOUS
<1>7. P
  BY <1>1, <1>4, <1>6
<1>8. Kept' = {n \in 1..(Len(fetched) + 1) : n = Len(fetched) + 1 \/ n \in Kept}
  BY <1>1, <1>6, <1>7, KeptGrows
<1> QED
  BY <1>2, <1>5, <1>8

-----------------------------------------------------------------------------
(* The steps                                                                *)

LEMMA DropKeeps == ASSUME HarvestInv, Drop PROVE HarvestInv'
<1>1. /\ pc = "items" /\ items # <<>> /\ NextItem /\ UNCHANGED <<seen, out>>
      /\ Head(items).link \in seen \cup {NoLink} \/ ~Recent(Head(items).published)
  BY DEF Drop
<1>2. /\ items' \in Seq(Entries) /\ fetched' \in Seq(Entries)
      /\ Len(fetched) \in Nat /\ Len(fetched') = Len(fetched) + 1
      /\ \A n \in 1..Len(fetched) : fetched'[n] = fetched[n]
      /\ fetched'[Len(fetched) + 1] = Head(items)
      /\ pc' = "items"
  BY <1>1, OneMoreItem
<1>3. Kept' = Kept /\ Kept \in SUBSET (1..Len(fetched)) /\ DOMAIN fetched = 1..Len(fetched)
  BY DropKeepsKept, KeptFinite DEF HarvestInv
<1>4. FirstOfEach /\ SeenInv /\ out \in Seq(Entries)
  BY <1>1 DEF HarvestInv
<1>5. FirstOfEach'
  BY <1>1, <1>2, <1>3, <1>4 DEF FirstOfEach
<1>6. SeenInv'
  <2>1. \A n \in DOMAIN fetched' : n \in DOMAIN fetched \/ n = Len(fetched) + 1
    BY <1>2, <1>3
  <2>2. \A n \in DOMAIN fetched : Acceptable(n)' <=> Acceptable(n)
    BY <1>2, <1>3 DEF Acceptable, Recent
  <2>3. ASSUME NEW n \in DOMAIN fetched', n = Len(fetched) + 1
        PROVE  Acceptable(n)' => Head(items).link \in seen
    BY <1>1, <1>2, <2>3 DEF Acceptable, Recent
  <2>4. \A n \in DOMAIN fetched' : Acceptable(n)' => fetched'[n].link \in seen
    BY <1>2, <1>3, <1>4, <2>1, <2>2, <2>3 DEF SeenInv
  <2>5. \A link \in seen : \E n \in Kept : fetched'[n].link = link
    BY <1>2, <1>3, <1>4 DEF SeenInv
  <2> QED
    BY <1>1, <1>3, <1>4, <2>4, <2>5 DEF SeenInv
<1> QED
  BY <1>1, <1>2, <1>4, <1>5, <1>6 DEF HarvestInv, NewestFirst

LEMMA KeepKeeps == ASSUME HarvestInv, Keep PROVE HarvestInv'
<1>1. /\ pc = "items" /\ items # <<>> /\ NextItem
      /\ Head(items).link \notin seen
      /\ seen' = seen \cup {Head(items).link} /\ out' = Append(out, Head(items))
  BY DEF Keep
<1>2. /\ Head(items) \in Entries /\ items' \in Seq(Entries) /\ fetched' \in Seq(Entries)
      /\ Len(fetched) \in Nat /\ Len(fetched') = Len(fetched) + 1
      /\ \A n \in 1..Len(fetched) : fetched'[n] = fetched[n]
      /\ fetched'[Len(fetched) + 1] = Head(items)
      /\ pc' = "items"
  BY <1>1, OneMoreItem
<1>3. /\ Kept' = Kept \cup {Len(fetched) + 1} /\ Kept \in SUBSET (1..Len(fetched))
      /\ DOMAIN fetched = 1..Len(fetched) /\ IsFiniteSet(Kept) /\ Cardinality(Kept) \in Nat
  BY KeepAddsKept, KeptFinite DEF HarvestInv
<1>4. FirstOfEach /\ SeenInv /\ out \in Seq(Entries)
  BY <1>1 DEF HarvestInv
<1>5. /\ out' \in Seq(Entries) /\ Len(out) \in Nat /\ Len(out') = Len(out) + 1
      /\ DOMAIN out = 1..Len(out) /\ DOMAIN out' = 1..(Len(out) + 1)
      /\ \A k \in 1..Len(out) : out'[k] = out[k]
      /\ out'[Len(out) + 1] = Head(items)
  BY <1>1, <1>2, <1>4
<1>6. Cardinality(Kept') = Cardinality(Kept) + 1
  <2>1. Len(fetched) + 1 \notin Kept
    BY <1>2, <1>3
  <2>2. PICK k : k = Len(fetched) + 1
    OBVIOUS
  <2>3. Cardinality(Kept \cup {k}) = Cardinality(Kept) + 1
    BY <1>3, <2>1, <2>2, FS_AddElement
  <2> QED
    BY <1>3, <2>2, <2>3
<1>7. \A k \in DOMAIN out' : k \in DOMAIN out \/ k = Len(out) + 1
  BY <1>5
<1>8. FirstOfEach'
  <2>1. Len(out') = Cardinality(Kept')
    BY <1>4, <1>5, <1>6 DEF FirstOfEach
  <2>2. \A n \in Kept' : \E k \in DOMAIN out' : out'[k] = fetched'[n]
    <3>1. ASSUME NEW n \in Kept PROVE \E k \in DOMAIN out' : out'[k] = fetched'[n]
      <4>1. PICK k \in DOMAIN out : out[k] = fetched[n]
        BY <1>4 DEF FirstOfEach
      <4>2. k \in DOMAIN out' /\ out'[k] = out[k] /\ fetched'[n] = fetched[n]
        BY <1>2, <1>3, <1>5
      <4> QED
        BY <4>1, <4>2
    <3>2. Len(out) + 1 \in DOMAIN out'
      BY <1>5
    <3> QED
      BY <1>2, <1>3, <1>5, <3>1, <3>2
  <2>3. \A k \in DOMAIN out : out'[k].link \in seen
    BY <1>4, <1>5 DEF SeenInv
  <2>4. \A k, l \in DOMAIN out : out'[k].link = out'[l].link => k = l
    BY <1>4, <1>5 DEF FirstOfEach
  <2>5. \A k, l \in DOMAIN out' : out'[k].link = out'[l].link => k = l
    BY <1>1, <1>5, <1>7, <2>3, <2>4
  <2> QED
    BY <2>1, <2>2, <2>5 DEF FirstOfEach
<1>9. SeenInv'
  <2>1. \A n \in DOMAIN fetched' : n \in DOMAIN fetched \/ n = Len(fetched) + 1
    BY <1>2, <1>3
  <2>2. \A n \in DOMAIN fetched : Acceptable(n)' <=> Acceptable(n)
    BY <1>2, <1>3 DEF Acceptable, Recent
  <2>3. \A n \in DOMAIN fetched' : Acceptable(n)' => fetched'[n].link \in seen'
    BY <1>1, <1>2, <1>3, <1>4, <2>1, <2>2 DEF SeenInv
  <2>4. \A link \in seen' : \E n \in Kept' : fetched'[n].link = link
    <3>1. ASSUME NEW link \in seen PROVE \E n \in Kept' : fetched'[n].link = link
      <4>1. PICK n \in Kept : fetched[n].link = link
        BY <1>4 DEF SeenInv
      <4> QED
        BY <1>2, <1>3, <4>1
    <3> QED
      BY <1>1, <1>2, <1>3, <3>1
  <2>5. \A k \in DOMAIN out' : out'[k].link \in seen'
    BY <1>1, <1>4, <1>5, <1>7 DEF SeenInv
  <2> QED
    BY <2>3, <2>4, <2>5 DEF SeenInv
<1> QED
  BY <1>2, <1>5, <1>8, <1>9 DEF HarvestInv, NewestFirst

\* Sorting loses nothing and doubles nothing.
LEMMA SortKeeps == ASSUME HarvestInv, Sort PROVE HarvestInv'
<1>1. /\ pc = "sources" /\ pc' = "done" /\ out' = SortedByDate(out)
      /\ UNCHANGED <<sources, items, seen, fetched>>
  BY DEF Sort
<1>2. /\ FirstOfEach /\ out \in Seq(Entries) /\ items \in Seq(Entries)
      /\ fetched \in Seq(Entries)
  BY <1>1 DEF HarvestInv
<1>3. /\ out' \in Seq(Entries) /\ Len(out') = Len(out) /\ Len(out) \in Nat
      /\ DOMAIN out = 1..Len(out) /\ DOMAIN out' = 1..Len(out)
      /\ \A n \in DOMAIN out : out'[Place(out, n)] = out[n]
  <2>1. /\ out' \in Seq(Entries) /\ Len(out') = Len(out)
        /\ \A n \in DOMAIN out : out'[Place(out, n)] = out[n]
    BY <1>1, <1>2, SortedShape
  <2> QED
    BY <1>2, <2>1
<1>4. /\ \A n \in DOMAIN out : Place(out, n) \in 1..Len(out)
      /\ \A k \in 1..Len(out) : \E n \in DOMAIN out : Place(out, n) = k
  BY <1>2, PlaceTyped, PlacesAreAll
<1>5. Kept' = Kept
  BY <1>1 DEF Kept, Recent
<1>6. \A n \in Kept : \E k \in DOMAIN out' : out'[k] = fetched[n]
  <2> SUFFICES ASSUME NEW n \in Kept PROVE \E k \in DOMAIN out' : out'[k] = fetched[n]
    OBVIOUS
  <2>1. PICK j \in DOMAIN out : out[j] = fetched[n]
    BY <1>2 DEF FirstOfEach
  <2>2. Place(out, j) \in DOMAIN out' /\ out'[Place(out, j)] = fetched[n]
    BY <1>3, <1>4, <2>1
  <2> QED
    BY <2>2
<1>7. ASSUME NEW k \in DOMAIN out', NEW l \in DOMAIN out', out'[k].link = out'[l].link
      PROVE  k = l
  <2>1. PICK m \in DOMAIN out, n \in DOMAIN out : Place(out, m) = k /\ Place(out, n) = l
    BY <1>3, <1>4
  <2>2. out[m].link = out[n].link
    BY <1>3, <1>7, <2>1
  <2>3. m = n
    BY <1>2, <2>2 DEF FirstOfEach
  <2> QED
    BY <2>1, <2>3
<1>8. FirstOfEach'
  BY <1>1, <1>2, <1>3, <1>5, <1>6, <1>7 DEF FirstOfEach
<1>9. NewestFirst'
  <2> SUFFICES ASSUME NEW k \in 1..(Len(out') - 1)
               PROVE  \/ out'[k + 1].published = Undated
                      \/ /\ out'[k].published # Undated
                         /\ out'[k].published.sec >= out'[k + 1].published.sec
    BY DEF NewestFirst
  <2> QED
    BY <1>1, <1>2, SortedNewestFirst
<1> QED
  BY <1>1, <1>2, <1>3, <1>8, <1>9 DEF HarvestInv

LEMMA OtherStepsKeep ==
  ASSUME HarvestInv, Fetch \/ Skip \/ FetchRaises \/ ItemsDone \/ UNCHANGED vars
  PROVE  HarvestInv'
<1>1. seen' = seen /\ fetched' = fetched
  BY DEF Fetch, Skip, FetchRaises, ItemsDone, vars
<1>2. items' \in Seq(Entries)
  BY ItemsTyped DEF Fetch, Skip, FetchRaises, ItemsDone, vars, HarvestInv
<1>3. Kept' = Kept
  BY <1>1 DEF Kept, Recent
<1>4. out' = out => (FirstOfEach' <=> FirstOfEach) /\ (SeenInv' <=> SeenInv)
  BY <1>1, <1>3 DEF FirstOfEach, SeenInv, Acceptable, Recent
<1>5. CASE Fetch \/ Skip \/ ItemsDone
  <2>1. pc \in {"sources", "items"} /\ pc' \in {"sources", "items"} /\ out' = out
    BY <1>5 DEF Fetch, Skip, ItemsDone
  <2> QED
    BY <1>1, <1>2, <1>4, <2>1 DEF HarvestInv, NewestFirst
<1>6. CASE FetchRaises
  BY <1>1, <1>2, <1>6 DEF FetchRaises, HarvestInv, NewestFirst
<1>7. CASE UNCHANGED vars
  <2>1. pc' = pc /\ out' = out
    BY <1>7 DEF vars
  <2>2. NewestFirst' <=> NewestFirst
    BY <2>1 DEF NewestFirst
  <2> QED
    BY <1>1, <1>2, <1>4, <2>1, <2>2 DEF HarvestInv
<1> QED
  BY <1>5, <1>6, <1>7

LEMMA HarvestInvHolds == Spec => []HarvestInv
<1>1. ASSUME HarvestInv, [Next]_vars PROVE HarvestInv'
  BY <1>1, DropKeeps, KeepKeeps, SortKeeps, OtherStepsKeep DEF Next
<1> QED
  BY <1>1, InitHarvestInv, PTL DEF Spec

\* What harvest returns is exactly the first acceptable item of each link.
THEOREM HarvestIsFirstOfEachHolds == Spec => []HarvestIsFirstOfEach
<1>1. HarvestInv => HarvestIsFirstOfEach
  BY DEF HarvestInv, FirstOfEach, HarvestIsFirstOfEach
<1> QED
  BY <1>1, HarvestInvHolds, PTL

\* harvest returns the newest first: the comparison of ISO strings orders them by
\* their seconds.
THEOREM NewestFirstHolds == Spec => []NewestFirst
<1>1. HarvestInv => NewestFirst
  BY DEF HarvestInv
<1> QED
  BY <1>1, HarvestInvHolds, PTL
=============================================================================
