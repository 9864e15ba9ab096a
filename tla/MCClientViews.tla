----------------------------- MODULE MCClientViews -----------------------------
(* An instance of ClientViews for TLC.  Stores: two blocks of stakes for a *)
(* name before or after "undefined", pages of two, two listings, two       *)
(* listeners, two loops of polls.  Urls: node a has a url that changes, or *)
(* node b gets one; one read or update may fail.                           *)
EXTENDS ClientViews

CONSTANTS a, b, x, y, z

MCUses ==
    {[listings |-> {1, 2}, listeners |-> {},     stores |-> Store, urls |-> FALSE],
     [listings |-> {1},    listeners |-> {1, 2}, stores |-> {1},   urls |-> FALSE],
     [listings |-> {},     listeners |-> {},     stores |-> {},    urls |-> TRUE]}

MCFirstChain == <<NodeUpdate(a, x)>>

MCNodeTxs == {[node |-> a, url |-> y], [node |-> b, url |-> z]}
================================================================================
