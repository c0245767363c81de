----------------------------- MODULE MCTaskTake -----------------------------
(* One offer, two callers, and the pass.                                   *)
EXTENDS TaskTake
CONSTANTS o1, c1, c2, wontfix, u1
MCOffers == {o1}
MCCallers == {c1, c2}
MCReasons == {wontfix}
MCUrls == {u1}
=============================================================================
