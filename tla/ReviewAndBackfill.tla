------------------------- MODULE ReviewAndBackfill -------------------------
(***************************************************************************)
(* The review queue and the judge backfill in one server, spending one     *)
(* model.  The backfill never waits for a lock of the queue: before each   *)
(* finding it reads Activity's snapshot, and then counts the queue's inbox *)
(* (src/src/backfill.rs, review_first), and goes or waits.                 *)
(***************************************************************************)
EXTENDS Naturals, FiniteSets

CONSTANTS Files, NoFile, MaxVersion, MaxDrops, MaxStarts, MaxByHand,
          Callers, Findings, MaxRuns

VARIABLES
    tree, inbox, processing, outbox, error, handler, up, armed, alive,
    at, file, seen, ok, slot, passes, reviewsInFlight, clicks,
    dropped, reviewed, letdown, drops, starts, byHand,
    verdicts, phase, tally, unjudgeable, stop, call, walk, work,
    runs, started, asked,
    delays   \* history: judge calls in flight at some time of the pass running now

queueVars == <<tree, inbox, processing, outbox, error, handler, up, armed, alive,
               at, file, seen, ok, slot, passes, reviewsInFlight, clicks,
               dropped, reviewed, letdown, drops, starts, byHand>>
backfillVars == <<verdicts, phase, tally, unjudgeable, stop, call, walk, work,
                  runs, started, asked>>
vars == <<queueVars, backfillVars, delays>>

\* Mutant: only the reviews the browse family counts are looked at.
InFlightReviews == reviewsInFlight > 0

\* review_first's first look: a queued pass, or a review any other door started.
InFlight == slot # "free" \/ reviewsInFlight > 0

\* ... and its second: the armed queue has requests waiting for the reactor.
Waits == up /\ armed /\ inbox # {}

Queue == INSTANCE ReviewQueue
Judging == INSTANCE Backfill WITH passRunning <- InFlight, queueWaits <- Waits

JudgeCalls == Cardinality({c \in Callers : walk[c] = "judge"})

Init == Queue!Init /\ Judging!Init /\ delays = 0

-----------------------------------------------------------------------------
\* Calls of the judge that a pass meets: those in flight when it begins, and
\* those that begin while it runs.
CountDelays ==
    LET calls == Cardinality({c \in Callers : walk'[c] = "judge"})
    IN  delays' = IF slot' = "free" THEN 0
                  ELSE IF slot = "free" THEN calls
                  ELSE delays + (IF calls > JudgeCalls THEN calls - JudgeCalls ELSE 0)

\* Mutant: a pass that begins marks the backfill yielding by itself.
QueueStepMarks ==
    /\ Queue!Next
    /\ phase' = IF slot' # "free" THEN "yielding" ELSE phase
    /\ UNCHANGED <<verdicts, tally, unjudgeable, stop, call, walk, work, runs,
                   started, asked>>
    /\ (up => up') /\ CountDelays

\* A step of the queue, of the people and of the hooks; a stop is both's.
QueueStep == Queue!Next /\ UNCHANGED backfillVars /\ (up => up') /\ CountDelays

BackfillStep == up /\ UNCHANGED queueVars /\ Judging!BackfillNext /\ CountDelays

\* The process stops: the queue's memory and the backfill's go together.
Stop == Queue!Stop /\ Judging!Forget /\ CountDelays

Next == QueueStep \/ BackfillStep \/ Stop

Spec == Init /\ [][Next]_vars

-----------------------------------------------------------------------------
\* The module's rule: a pass is delayed by at most one judge call, in flight when
\* it begins or begun before the backfill looks again; whatever the order in which
\* the two looks, a claim, a begin and a stop and start of the backfill fall.
AtMostOneDelay == delays <= 1

\* The queue's life is what Backfill assumes of its environment: composed, the
\* backfill behaves as its own specification allows.
ImplementsBackfill == Judging!Spec

=============================================================================
