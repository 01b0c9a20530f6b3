---------------------------- MODULE MCGuardedLoad ----------------------------
(***************************************************************************)
(* Two loads for TLC.  URLs 1 and 2 are on one site and redirect to each   *)
(* other, URL 2 also to URL 3 on the local host.  With the turn that an    *)
(* earlier load may have taken, loads queue for turns and are refused.     *)
(* The answers differ in everything a method judges them by.               *)
(***************************************************************************)
EXTENDS GuardedLoad, TLC

MCHostOf == <<"site", "site", "local">>
MCPlan == <<<<"auto", "browser">>, <<"adapter", "http">>, <<"http">>>>
MCApiOf == <<1, 2, 3>>
MCRedirects == {<<1, 2>>, <<2, 1>>, <<2, 3>>}

Symmetry == Permutations(Loads)

Page == [status |-> 200, html |-> TRUE, fits |-> TRUE, title |-> FALSE, sample |-> FALSE,
         text |-> "long", js |-> FALSE, md |-> "full"]
File == [Page EXCEPT !.html = FALSE]
Challenged == [Page EXCEPT !.sample = TRUE, !.text = "short"]
Refused == [Page EXCEPT !.status = 403, !.md = "thin"]

MCResponses ==
  {Page, File, Refused, Challenged,
   [Challenged EXCEPT !.text = "middle", !.js = TRUE, !.md = "none"],
   [Page EXCEPT !.title = TRUE],
   [Refused EXCEPT !.text = "middle"],
   [Refused EXCEPT !.html = FALSE],
   [Page EXCEPT !.status = 404],
   [File EXCEPT !.status = 500],
   [Page EXCEPT !.fits = FALSE]}
=============================================================================
