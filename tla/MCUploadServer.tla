--------------------------- MODULE MCUploadServer ---------------------------
(***************************************************************************)
(* Instances of UploadServer for TLC.                                      *)
(***************************************************************************)
EXTENDS UploadServer, TLC

\* One link each, in the clear or over an overlay.
OneEach     == [k \in Conns |-> k]
AllClearnet == [k \in Conns |-> "clearnet"]
AllOverlay  == [k \in Conns |-> "overlay"]
\* Every link belongs to the same peer.
OnePeer     == [k \in Conns |-> 1]

Page(n)    == [kind |-> "page", size |-> n, items |-> 0]
Bulk(n)    == [kind |-> "bulk", size |-> n, items |-> 0]
Many(n, m) == [kind |-> "many", size |-> n, items |-> m]
Control    == [kind |-> "control", size |-> 0, items |-> 0]

GovernorShapes == {Page(2), Bulk(2)}
PageShapes     == {Page(2)}
BulkShapes     == {Bulk(1)}
PermitShapes   == {Many(1, 2), Control}

\* Bound of one run: a link ends with its loop and is not cut under it, and of
\* the peers only the third serves us.
Bounded ==
    /\ \A k \in Conns : link[k] # "cut"
    /\ \A p \in Peers \ {3} : choker.acct[p].credit = 0

\* The requests are interchangeable.
ReqSymmetry == Permutations(Reqs)
=============================================================================
