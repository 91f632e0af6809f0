----------------------------- MODULE MCLiveSearch -----------------------------
(***************************************************************************)
(* Small feeds for LiveSearch.                                             *)
(***************************************************************************)
EXTENDS LiveSearch

Date(sec, frac) == [sec |-> sec, frac |-> frac]
Link(l)   == [tag |-> "link", value |-> l]
On(t, d)  == [tag |-> t, value |-> d]

\* Dates around the first second of the year and the cutoff.
LastYear == Date(3, 0)
Stale    == Date(5, 0)
AtCutoff == Date(6, 5)
Same     == Date(6, 0)    \* the second of the cutoff, before it
New      == Date(7, 0)
NewFrac  == Date(7, 5)

Nodes == { <<Link("a"), On("pubDate", New)>>, <<Link("a"), On("pubDate", Stale)>>,
           <<Link("a")>>, <<Link("b"), On("date", AtCutoff)>>,
           <<Link("b"), On("published", Same), On("updated", NewFrac)>>,
           <<On("pubDate", New)>>,
           <<Link("a"), Link("c"), On("pubDate", LastYear)>>,
           <<Link("c"), On("updated", New), On("published", NewFrac)>>,
           <<Link("d"), On("updated", Stale), On("published", Undated)>> }

MCFeeds == (UNION {[1..k -> Nodes] : k \in 1..2})
             \cup {<<n, <<Link("b"), On("pubDate", New)>>, <<Link("d"), On("pubDate", New)>>>> :
                     n \in Nodes}
MCSources == { <<"feed url", "query">>, <<"other", "url">>, <<>> }
MCCutoff  == Date(6, 3)
=============================================================================
