------------------------ MODULE MCReviewAndBackfill ------------------------
(* The backfill, in one run of two parts that share no state: alone, with   *)
(* two requests and two findings; and beside the review queue, with one     *)
(* file and one finding walked by up to two runs, so that a pass may begin  *)
(* at any step of a walk, and another walk may follow while it runs.        *)
(* The names without a prefix are those of the backfill alone.              *)
EXTENDS MCBackfill, MCReviewQueue

CONSTANTS CallersHere, FindingsHere, RunsHere   \* the backfill beside the queue

VARIABLES
    part,
    archive, phaseHere, tallyHere, barred, stopHere, callHere, walkHere, workHere,
    runsHere, startedHere, askedHere,
    delays

Beside == INSTANCE ReviewAndBackfill
            WITH Files <- FilesHere, Callers <- CallersHere, Findings <- FindingsHere,
                 MaxRuns <- RunsHere,
                 verdicts <- archive, phase <- phaseHere, tally <- tallyHere, unjudgeable <- barred,
                 stop <- stopHere, call <- callHere, walk <- walkHere, work <- workHere,
                 runs <- runsHere, started <- startedHere, asked <- askedHere

besideVars == <<tree, inbox, processing, outbox, error, handler, up, armed, alive,
                at, file, seen, ok, slot, passes, reviewsInFlight, clicks,
                dropped, reviewed, letdown, drops, starts, byHand,
                archive, phaseHere, tallyHere, barred, stopHere, callHere, walkHere, workHere,
                runsHere, startedHere, askedHere, delays, look>>

PartsInit == part \in {"alone", "beside"} /\ Init /\ Beside!Init
             /\ look = Queue!NoLook   \* nobody asks for the depth here

PartsNext ==
    /\ \/ part = "alone" /\ Next /\ UNCHANGED besideVars
       \/ part = "beside" /\ Beside!Next /\ UNCHANGED <<vars, look>>
    /\ UNCHANGED part

\* The fairness of Backfill's LiveSpec; beside the queue nothing has to happen.
PartsSpec ==
    /\ PartsInit /\ [][PartsNext]_<<part, vars, besideVars>>
    /\ \A c \in Callers : WF_vars(WalkStep(c))

-----------------------------------------------------------------------------
(* Each conjunct is stated, with the code's words, in the part's module.   *)

\* backfill.rs: beside the queue, whose life is what the backfill assumes of its environment,
\* it behaves as its own specification allows; and a pass of the queue meets one call of the
\* judge at most.
ImplementsBackfill == Beside!ImplementsBackfill /\ []Beside!AtMostOneDelay
=============================================================================
