----------------------------- MODULE MCBackfill -----------------------------
(* Three requests, so that a stop can fall between the steps of a start     *)
(* while an earlier walk ends, and two findings, so that one is left to     *)
(* walk after a stop.                                                       *)
EXTENDS Backfill

CONSTANTS c1, c2, c3, g1, g2
MCCallers == {c1, c2, c3}
MCTwoCallers == {c1, c2}
MCFindings == {g1, g2}
=============================================================================
