------------------------------ MODULE LiveSearch ------------------------------
(***************************************************************************)
(* harvest, fetch_feed and _parse_dt of livesearch.py: a list of feeds and *)
(* searches is fetched one after the other, and what is recent is merged,  *)
(* without duplicates, newest first.                                       *)
(*                                                                         *)
(* A feed is a sequence of nodes, a node a sequence of children; only the  *)
(* tags that decide about an item are kept.  A date is a second and a      *)
(* fraction of it, 0 for none.  Titles, source names and the XML are left  *)
(* out.                                                                    *)
(***************************************************************************)
EXTENDS Integers, Sequences, FiniteSets

CONSTANTS
  SourceLists,  \* what harvest may be called with
  Feeds,        \* the documents a server may answer with
  NoLink,       \* the empty string
  Undated,      \* no date, or one that _parse_dt cannot read
  per_source,   \* how many nodes of a feed are looked at
  MinSecond,    \* the first second of min_year
  cutoff        \* since_days before the call; Undated when since_days is 0

Kinds == {"feed url", "query", "url", "other"}

Dates    == [sec : Nat, frac : Nat]
DateTags == {"pubDate", "published", "updated", "date"}

IsSeq(s)     == s \in Seq({s[n] : n \in DOMAIN s})
IsNode(node) == /\ IsSeq(node)
                /\ \A n \in DOMAIN node :
                     node[n].tag \in DateTags => node[n].value \in Dates \cup {Undated}

ASSUME LiveSearchAssumption ==
  /\ per_source \in Nat /\ MinSecond \in Nat
  /\ Undated \notin Dates /\ cutoff \in Dates \cup {Undated}
  /\ \A s \in SourceLists : s \in Seq(Kinds)
  /\ \A f \in Feeds : IsSeq(f) /\ \A n \in DOMAIN f : IsNode(f[n])

VARIABLES
  sources,   \* those not yet fetched
  pc,
  items,     \* of the source in hand, those not yet looked at
  seen,      \* the links kept
  out,
  fetched    \* history: all items looked at, in order

vars == <<sources, pc, items, seen, out, fetched>>

-----------------------------------------------------------------------------
(* fetch_feed *)

\* The value of the last child with one of the tags.
LastOf(node, tags, default) ==
  LET at == {n \in DOMAIN node : node[n].tag \in tags}
  IN  IF at = {} THEN default
      ELSE node[CHOOSE n \in at : \A m \in at : m <= n].value

ItemOf(node) == [ link      |-> LastOf(node, {"link"}, NoLink),
                  published |-> LastOf(node, DateTags, Undated) ]

Least(m, n) == IF m <= n THEN m ELSE n

ItemsOf(feed) == [n \in 1..Least(Len(feed), per_source) |-> ItemOf(feed[n])]

-----------------------------------------------------------------------------
(* harvest *)

\* A server that cannot be reached, or answers what is not XML, has no items.
Fetch ==
  /\ pc = "sources" /\ sources # <<>> /\ Head(sources) # "other"
  /\ \E feed \in Feeds \cup {<<>>} : items' = ItemsOf(feed)
  /\ sources' = Tail(sources)
  /\ pc' = "items"
  /\ UNCHANGED <<seen, out, fetched>>

\* A dict with neither query nor url.
Skip ==
  /\ pc = "sources" /\ sources # <<>> /\ Head(sources) = "other"
  /\ sources' = Tail(sources)
  /\ UNCHANGED <<pc, items, seen, out, fetched>>

\* A response that breaks off (HTTPException), a url without a scheme
\* (ValueError), a date outside the calendar in UTC (OverflowError): nothing
\* catches these, and the caller gets none of the items.
FetchRaises ==
  /\ pc = "sources" /\ sources # <<>> /\ Head(sources) # "other"
  /\ pc' = "raised"
  /\ out' = <<>>
  /\ UNCHANGED <<sources, items, seen, fetched>>

Earlier(d, e) == d.sec < e.sec \/ (d.sec = e.sec /\ d.frac < e.frac)

Recent(d) == d # Undated => /\ d.sec >= MinSecond
                            /\ cutoff # Undated => ~Earlier(d, cutoff)

NextItem == /\ items' = Tail(items)
            /\ fetched' = Append(fetched, Head(items))
            /\ UNCHANGED <<sources, pc>>

\* Mutant of Drop: the link counts as seen before its date is looked at.
DropSeen ==
  /\ pc = "items" /\ items # <<>>
  /\ \/ Head(items).link \in seen \cup {NoLink}
     \/ ~Recent(Head(items).published)
  /\ seen' = seen \cup {Head(items).link}
  /\ NextItem
  /\ UNCHANGED out

Drop ==
  /\ pc = "items" /\ items # <<>>
  /\ \/ Head(items).link \in seen \cup {NoLink}
     \/ ~Recent(Head(items).published)
  /\ NextItem
  /\ UNCHANGED <<seen, out>>

Keep ==
  /\ pc = "items" /\ items # <<>>
  /\ Head(items).link \notin seen \cup {NoLink}
  /\ Recent(Head(items).published)
  /\ seen' = seen \cup {Head(items).link}
  /\ out' = Append(out, Head(items))
  /\ NextItem

ItemsDone ==
  /\ pc = "items" /\ items = <<>>
  /\ pc' = "sources"
  /\ UNCHANGED <<sources, items, seen, out, fetched>>

\* Dates are compared as ISO strings: a fraction starts with a point, which
\* sorts before the Z that stands in its place when there is none.  No date is
\* the empty string.
IsoBefore(d, e) ==
  /\ e # Undated
  /\ \/ d = Undated
     \/ d.sec < e.sec
     \/ d.sec = e.sec /\ d.frac # 0 /\ (e.frac = 0 \/ d.frac < e.frac)

\* The stable sort of a sequence of items with the last date first: where an
\* item comes to stand depends on those that go ahead of it.
Ahead(s, m, n) == \/ IsoBefore(s[n].published, s[m].published)
                  \/ ~IsoBefore(s[m].published, s[n].published) /\ m < n
Place(s, n)     == 1 + Cardinality({m \in DOMAIN s : Ahead(s, m, n)})
SortedByDate(s) == [k \in DOMAIN s |-> s[CHOOSE n \in DOMAIN s : Place(s, n) = k]]

\* Mutant of Sort: what came last comes first.
SortReversed ==
  /\ pc = "sources" /\ sources = <<>>
  /\ out' = [k \in DOMAIN out |-> out[Len(out) + 1 - k]]
  /\ pc' = "done"
  /\ UNCHANGED <<sources, items, seen, fetched>>

Sort ==
  /\ pc = "sources" /\ sources = <<>>
  /\ out' = SortedByDate(out)
  /\ pc' = "done"
  /\ UNCHANGED <<sources, items, seen, fetched>>

Init == /\ sources \in SourceLists
        /\ pc = "sources" /\ items = <<>> /\ seen = {} /\ out = <<>> /\ fetched = <<>>

Next == Fetch \/ Skip \/ FetchRaises \/ Drop \/ Keep \/ ItemsDone \/ Sort

Spec == Init /\ [][Next]_vars

-----------------------------------------------------------------------------
(* Properties *)

\* The first acceptable item of each link: an older one of the same link, seen
\* before, does not stand in its way.
Kept == {n \in DOMAIN fetched :
           /\ fetched[n].link # NoLink
           /\ Recent(fetched[n].published)
           /\ \A m \in 1..(n - 1) : fetched[m].link = fetched[n].link
                                      => ~Recent(fetched[m].published)}

\* Whatever the sources answer, and in whatever order the items come, the result
\* consists of exactly the first acceptable item of each link, once each: none is
\* lost to a failing source, to an outdated duplicate or to the sorting.
HarvestIsFirstOfEach ==
  pc # "raised" =>
    /\ Len(out) = Cardinality(Kept)
    /\ \A n \in Kept : \E k \in DOMAIN out : out[k] = fetched[n]
    /\ \A k, l \in DOMAIN out : out[k].link = out[l].link => k = l

\* The result is newest first, to the second, and what has no date comes last
\* (module docstring: "sorts newest-first").
NewestFirst ==
  pc = "done" =>
    \A k \in 1..(Len(out) - 1) :
      \/ out[k + 1].published = Undated
      \/ out[k].published # Undated /\ out[k].published.sec >= out[k + 1].published.sec
=============================================================================
