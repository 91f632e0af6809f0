------------------------------ MODULE MCFeedCache ------------------------------
(***************************************************************************)
(* Small instances of FeedCache.                                           *)
(***************************************************************************)
EXTENDS FeedCache

\* A connected box and an enclave without network, one process each.
Box     == "box"
Enclave == "enclave"
TwoSites == {Box, Enclave}
Carrier  == {"a", "b"}
CarrierSiteOf == [a |-> Box, b |-> Enclave]
CarrierOps == [a |-> {"update", "get", "get offline", "export"},
               b |-> {"import", "get offline"}]

\* Two processes that share one cache.
OneSite == {Box}
Shared  == {"a", "b"}
SharedSiteOf == [a |-> Box, b |-> Box]
SharedOps == [a |-> {"update", "get"}, b |-> {"update", "get", "get offline", "export"}]
=============================================================================
