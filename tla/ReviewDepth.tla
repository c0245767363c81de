---------------------------- MODULE ReviewDepth ----------------------------
(***************************************************************************)
(* The depth resource beside the review queue: src/src/trigger.rs          *)
(* (DepthEndpoint::status, depth, Status::lost).  It asks the reactor      *)
(* nothing: it lists the stage directories, and THEN takes a snapshot of   *)
(* the activity, so the queue may take any number of steps in between.     *)
(* What it answers is read off a state in which a look is open, as if the  *)
(* snapshot were taken there.                                              *)
(***************************************************************************)
EXTENDS ReviewQueue

VARIABLE look   \* an answer under way: what it has listed, and history of since

depthVars == <<vars, look>>

\* `listed` is what the answer is made of.  History: how many of those nobody worked on,
\* and whether the queue has claimed or settled a tuple since.
NoLook == [open |-> FALSE, listed |-> 0, abandoned |-> 0, moved |-> FALSE]

\* The claimed tuples that nobody works on.
Abandoned == processing \ {file["reactor"]}

DepthInit == Init /\ look = NoLook

\* depth: the files of the stage directories are counted.  A listing without a claimed tuple
\* is answered as none lost whatever the snapshot says, and no look is opened for it.
List ==
    /\ up /\ ~look.open /\ processing # {}
    /\ look' = [open |-> TRUE, listed |-> Cardinality(processing),
                abandoned |-> Cardinality(Abandoned), moved |-> FALSE]
    /\ UNCHANGED vars

\* The snapshot is taken and the answer made.
Answered ==
    /\ look.open /\ look' = NoLook
    /\ UNCHANGED vars

\* The queue goes on meanwhile; a stop takes the answer with it.
QueueStep ==
    /\ Next
    /\ look' = IF look.open /\ up' THEN [look EXCEPT !.moved = @ \/ processing' # processing]
                                   ELSE NoLook

DepthNext == QueueStep \/ List \/ Answered

DepthSpec == DepthInit /\ [][DepthNext]_depthVars
DepthLiveSpec == DepthSpec /\ WF_vars(ReactorStep)

-----------------------------------------------------------------------------
\* Mutant: the tuple of the running pass is counted lost.
LostWithRunning == look.listed

\* Status::lost, of the tuples listed and a snapshot taken now.
Lost == IF slot = "free" THEN look.listed ELSE LessOne(look.listed)

\* What is answered as lost is the number of claimed tuples nobody works on as the answer
\* is made, but for the two edges Status::lost names (the reactor's moments before and after
\* a pass, and a pass somebody runs by hand), and for one it does not: a tuple claimed or
\* settled between the two looks.  Across that one it is still at most one off from what
\* was so at the listing.
LostIsTrue ==
    look.open =>
        \/ Lost = Cardinality(Abandoned)
        \/ at["reactor"] \in {"holding", "ended"} \/ slot = "person"
        \/ look.moved /\ Lost \in {look.abandoned - 1, look.abandoned, look.abandoned + 1}

=============================================================================
