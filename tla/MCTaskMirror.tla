---------------------------- MODULE MCTaskMirror ----------------------------
(* One item: its offers, its taker and its dispatcher race one another over it. *)
EXTENDS TaskMirror

CONSTANT i1
MCItems == {i1}
=============================================================================
