---------------------------- MODULE MCPageLoader ----------------------------
(***************************************************************************)
(* Three gets of two URLs of one host.  The first redirects to the second, *)
(* which an adapter handles.                                               *)
(***************************************************************************)
EXTENDS PageLoader

MCGets == {"g1", "g2", "g3"}
MCUrls == {"moved", "here"}
MCArrivals ==
  {[g1 |-> "moved", g2 |-> "moved", g3 |-> "here"], [g1 |-> "here", g2 |-> "here", g3 |-> "here"]}
MCFinalOf == [u \in MCUrls |-> "here"]
MCHostOf == [u \in MCUrls |-> "h"]
MCAdapterUrls == {"here"}
MCFallbacks == <<"http">>
=============================================================================
