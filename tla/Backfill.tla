------------------------------ MODULE Backfill ------------------------------
(***************************************************************************)
(* The judge backfill of src/src/backfill.rs: an operator starts one run   *)
(* over the serious pending findings, on a thread of its own; the run asks *)
(* Exists and then, when there is no verdict, the judge, one finding at a  *)
(* time, and waits while a review should go first.  Starting, stopping and *)
(* walking touch the same record and the same stop flag from different     *)
(* threads, one lock at a time.                                            *)
(*                                                                         *)
(* passRunning and queueWaits are the two things Backfill::review_first    *)
(* reads, one after the other: they belong to the review queue, and        *)
(* ReviewAndBackfill substitutes them.                                     *)
(***************************************************************************)
EXTENDS Naturals, FiniteSets

CONSTANTS
    Callers,    \* requests that may be inside start or stop at once
    Findings,   \* findings the pending listing may name
    MaxRuns     \* bound: how many runs are started

ASSUME Constants == IsFiniteSet(Findings) /\ MaxRuns \in Nat

VARIABLES
    passRunning,  \* environment: a pass or another review is in flight
    queueWaits,   \* environment: the armed queue has requests waiting
    verdicts,     \* browse's archive: findings with a verdict under this judge's tag
    phase,        \* Run.phase
    tally,        \* Run's counters of this run
    unjudgeable,  \* Run.unjudgeable: kept across runs
    stop,         \* the stop flag
    call,         \* per caller: where it is inside start or stop
    walk,         \* per starting caller: where the thread it spawned stands
    work,         \* per walk: the findings it has still to reach
    runs,         \* how much of the bound is used
    started,      \* history: findings this run has begun since a stop was answered
    asked         \* history: a stop was answered while this run was live

env == <<passRunning, queueWaits>>
record == <<phase, tally, unjudgeable>>
hist == <<started, asked>>
vars == <<env, verdicts, record, stop, call, walk, work, runs, hist>>

Live == {"listing", "running", "yielding", "stopping"}
Walking == {"list", "check", "look", "queue", "go", "exists", "judge"}
Counters == {"total", "done", "judged", "already", "cannot", "failed"}
NoTally == [n \in Counters |-> 0]

Init ==
    /\ passRunning = FALSE /\ queueWaits = FALSE
    /\ verdicts = {}
    /\ phase = "idle" /\ tally = NoTally /\ unjudgeable = {}
    /\ stop = FALSE
    /\ call = [c \in Callers |-> "idle"]
    /\ walk = [c \in Callers |-> "none"]
    /\ work = [c \in Callers |-> {}]
    /\ runs = 0
    /\ started = 0 /\ asked = FALSE

-----------------------------------------------------------------------------
(* The two words of the Sink.                                              *)

\* Mutant: a run asked to stop no longer counts as live.
StartWhileStopping(c) ==
    /\ call[c] = "idle" /\ walk[c] = "none" /\ runs < MaxRuns
    /\ phase \notin Live \ {"stopping"}
    /\ phase' = "listing" /\ tally' = NoTally
    /\ call' = [call EXCEPT ![c] = "claimed"]
    /\ runs' = runs + 1
    /\ started' = 0 /\ asked' = FALSE
    /\ UNCHANGED <<env, verdicts, unjudgeable, stop, walk, work>>

\* start, under the record's lock: a live run is the answer; otherwise the
\* record is replaced, all but the reasons findings could not be judged.
StartClaim(c) ==
    /\ call[c] = "idle" /\ walk[c] = "none" /\ runs < MaxRuns
    /\ phase \notin Live
    /\ phase' = "listing" /\ tally' = NoTally
    /\ call' = [call EXCEPT ![c] = "claimed"]
    /\ runs' = runs + 1
    /\ started' = 0 /\ asked' = FALSE
    /\ UNCHANGED <<env, verdicts, unjudgeable, stop, walk, work>>

\* ... and after the lock is released, the flag of the run before is cleared.
StartClear(c) ==
    /\ call[c] = "claimed"
    /\ stop' = FALSE
    /\ call' = [call EXCEPT ![c] = "cleared"]
    /\ UNCHANGED <<env, verdicts, record, walk, work, runs, hist>>

\* The thread: spawned; spawned without a runtime, which it records; or not
\* spawned at all, which start answers as an error and records nowhere.
StartSpawn(c) ==
    /\ call[c] = "cleared"
    /\ call' = [call EXCEPT ![c] = "idle"]
    /\ \/ walk' = [walk EXCEPT ![c] = "list"] /\ UNCHANGED phase
       \/ phase' = "failed" /\ UNCHANGED walk
       \/ UNCHANGED <<phase, walk>>
    /\ UNCHANGED <<env, verdicts, tally, unjudgeable, stop, work, runs, hist>>

StopStore(c) ==
    /\ call[c] = "idle" /\ walk[c] = "none"
    /\ stop' = TRUE
    /\ call' = [call EXCEPT ![c] = "stopping"]
    /\ UNCHANGED <<env, verdicts, record, walk, work, runs, hist>>

StopPhase(c) ==
    /\ call[c] = "stopping"
    /\ phase' = IF phase \in Live THEN "stopping" ELSE phase
    /\ asked' = (phase \in Live)
    /\ started' = 0
    /\ call' = [call EXCEPT ![c] = "idle"]
    /\ UNCHANGED <<env, verdicts, tally, unjudgeable, stop, walk, work, runs>>

-----------------------------------------------------------------------------
(* The walk.                                                               *)

\* Mutant: the total leaves out the finding in hand.
ListOneLess(c) ==
    /\ walk[c] = "list"
    /\ \E listed \in SUBSET Findings :
          /\ work' = [work EXCEPT ![c] = listed]
          /\ tally' = [tally EXCEPT !.total = Cardinality(listed) - 1]
    /\ phase' = IF phase = "listing" THEN "running" ELSE phase
    /\ walk' = [walk EXCEPT ![c] = "check"]
    /\ UNCHANGED <<env, verdicts, unjudgeable, stop, call, runs, hist>>

\* Every root's serious pending findings as they stand: any set, since findings
\* are minted and decided all the time and a root that fails contributes none.
List(c) ==
    /\ walk[c] = "list"
    /\ \E listed \in SUBSET Findings :
          /\ work' = [work EXCEPT ![c] = listed]
          /\ tally' = [tally EXCEPT !.total = Cardinality(listed)]
    /\ phase' = IF phase = "listing" THEN "running" ELSE phase
    /\ walk' = [walk EXCEPT ![c] = "check"]
    /\ UNCHANGED <<env, verdicts, unjudgeable, stop, call, runs, hist>>

\* Mutant: the walk ends only when it is told to.
CheckStopOnly(c) ==
    /\ walk[c] = "check"
    /\ IF stop
       THEN /\ phase' = "stopped"
            /\ walk' = [walk EXCEPT ![c] = "none"]
            /\ work' = [work EXCEPT ![c] = {}]
            /\ asked' = FALSE
       ELSE /\ walk' = [walk EXCEPT ![c] = "look"]
            /\ UNCHANGED <<phase, work, asked>>
    /\ UNCHANGED <<env, verdicts, tally, unjudgeable, stop, call, runs, started>>

\* Before each finding, the flag; after the last one, the flag decides the name.
CheckStop(c) ==
    /\ walk[c] = "check"
    /\ IF stop \/ work[c] = {}
       THEN /\ phase' = IF stop THEN "stopped" ELSE "done"
            /\ walk' = [walk EXCEPT ![c] = "none"]
            /\ work' = [work EXCEPT ![c] = {}]
            /\ asked' = FALSE
       ELSE /\ walk' = [walk EXCEPT ![c] = "look"]
            /\ UNCHANGED <<phase, work, asked>>
    /\ UNCHANGED <<env, verdicts, tally, unjudgeable, stop, call, runs, started>>

\* review_first reads Activity's snapshot and then the queue's inbox: either
\* makes the walk wait one pause and look again (stop first).
Yield(c) ==
    /\ \/ walk[c] = "look" /\ passRunning
       \/ walk[c] = "queue" /\ queueWaits
    /\ phase' = "yielding"
    /\ walk' = [walk EXCEPT ![c] = "check"]
    /\ UNCHANGED <<env, verdicts, tally, unjudgeable, stop, call, work, runs, hist>>

SeeNoPass(c) ==
    /\ walk[c] = "look" /\ ~passRunning
    /\ walk' = [walk EXCEPT ![c] = "queue"]
    /\ UNCHANGED <<env, verdicts, record, stop, call, work, runs, hist>>

SeeNoQueue(c) ==
    /\ walk[c] = "queue" /\ ~queueWaits
    /\ walk' = [walk EXCEPT ![c] = "go"]
    /\ UNCHANGED <<env, verdicts, record, stop, call, work, runs, hist>>

Go(c) ==
    /\ walk[c] = "go"
    /\ phase' = IF phase = "yielding" THEN "running" ELSE phase
    /\ walk' = [walk EXCEPT ![c] = "exists"]
    /\ started' = IF asked THEN started + 1 ELSE started
    /\ UNCHANGED <<env, verdicts, tally, unjudgeable, stop, call, work, runs, asked>>

\* Mutant: a finding that failed is not counted as walked.
RecordedUnlessFailed(c, f, column) ==
    /\ tally' = [tally EXCEPT !.done = IF column = "failed" THEN @ ELSE @ + 1, ![column] = @ + 1]
    /\ unjudgeable' = CASE column \in {"judged", "already"} -> unjudgeable \ {f}
                        [] column = "cannot" -> unjudgeable \union {f}
                        [] OTHER -> unjudgeable
    /\ work' = [work EXCEPT ![c] = @ \ {f}]
    /\ walk' = [walk EXCEPT ![c] = "check"]

\* One finding recorded under `column`, and the walk goes on to the next.
Recorded(c, f, column) ==
    /\ tally' = [tally EXCEPT !.done = @ + 1, ![column] = @ + 1]
    /\ unjudgeable' = CASE column \in {"judged", "already"} -> unjudgeable \ {f}
                        [] column = "cannot" -> unjudgeable \union {f}
                        [] OTHER -> unjudgeable
    /\ work' = [work EXCEPT ![c] = @ \ {f}]
    /\ walk' = [walk EXCEPT ![c] = "check"]

\* Exists is free: a verdict under this tag, an error, or the judge is next.
AskExists(c, f) ==
    /\ walk[c] = "exists" /\ f \in work[c]
    /\ \/ f \in verdicts /\ Recorded(c, f, "already")
       \/ Recorded(c, f, "failed")
       \/ /\ f \notin verdicts
          /\ walk' = [walk EXCEPT ![c] = "judge"]
          /\ work' = work /\ UNCHANGED <<tally, unjudgeable>>
    /\ UNCHANGED <<env, verdicts, phase, stop, call, runs, hist>>

\* The Source: judges and archives, finds it archived meanwhile, cannot, or fails.
Judge(c, f) ==
    /\ walk[c] = "judge" /\ f \in work[c]
    /\ \/ f \notin verdicts /\ verdicts' = verdicts \union {f} /\ Recorded(c, f, "judged")
       \/ f \in verdicts /\ verdicts' = verdicts /\ Recorded(c, f, "already")
       \/ f \notin verdicts /\ verdicts' = verdicts /\ Recorded(c, f, "cannot")
       \/ verdicts' = verdicts /\ Recorded(c, f, "failed")
    /\ UNCHANGED <<env, phase, stop, call, runs, hist>>

WalkStep(c) ==
    \/ List(c) \/ CheckStop(c) \/ Yield(c) \/ SeeNoPass(c) \/ SeeNoQueue(c) \/ Go(c)
    \/ \E f \in Findings : AskExists(c, f) \/ Judge(c, f)

CallStep(c) ==
    StartClaim(c) \/ StartClear(c) \/ StartSpawn(c) \/ StopStore(c) \/ StopPhase(c)

-----------------------------------------------------------------------------
(* What everybody else does: reviews come and go, another caller has a     *)
(* finding judged through the same resource.                               *)

OthersJudge(f) ==
    /\ f \notin verdicts
    /\ verdicts' = verdicts \union {f}
    /\ UNCHANGED <<env, record, stop, call, walk, work, runs, hist>>

ReviewsComeAndGo ==
    /\ passRunning' \in BOOLEAN /\ queueWaits' \in BOOLEAN
    /\ UNCHANGED <<verdicts, record, stop, call, walk, work, runs, hist>>

\* A restart of the server: nothing of the run survives but the archive.
Forget ==
    /\ phase' = "idle" /\ tally' = NoTally /\ unjudgeable' = {}
    /\ stop' = FALSE
    /\ call' = [c \in Callers |-> "idle"]
    /\ walk' = [c \in Callers |-> "none"]
    /\ work' = [c \in Callers |-> {}]
    /\ started' = 0 /\ asked' = FALSE
    /\ UNCHANGED <<verdicts, runs>>

Restart == Forget /\ passRunning' \in BOOLEAN /\ queueWaits' \in BOOLEAN

BackfillNext ==
    \/ \E c \in Callers : CallStep(c) \/ WalkStep(c)
    \/ \E f \in Findings : OthersJudge(f)

Next == BackfillNext \/ ReviewsComeAndGo \/ Restart

Spec == Init /\ [][Next]_vars

\* A spawned thread runs; nothing is assumed of callers.  That reviews end for
\* good is the condition of the liveness property, not an assumption.
LiveSpec == Spec /\ \A c \in Callers : WF_vars(WalkStep(c))

-----------------------------------------------------------------------------
Walked == \E c \in Callers : walk[c] # "none"

TypeOK ==
    /\ passRunning \in BOOLEAN /\ queueWaits \in BOOLEAN
    /\ verdicts \subseteq Findings
    /\ phase \in Live \union {"idle", "stopped", "done", "failed"}
    /\ tally \in [Counters -> Nat]
    /\ unjudgeable \subseteq Findings
    /\ stop \in BOOLEAN
    /\ call \in [Callers -> {"idle", "claimed", "cleared", "stopping"}]
    /\ walk \in [Callers -> Walking \union {"none"}]
    /\ work \in [Callers -> SUBSET Findings]
    /\ runs \in Nat /\ started \in Nat /\ asked \in BOOLEAN

\* start: one run at a time, whoever starts it and however the last one ended; a second start
\* while a run is being started or walked begins nothing.  And while it walks the record says
\* so: an operator who reads a finished or idle run may start another and be sure that nothing
\* of the old one is left.
OneWalk ==
    /\ \A c, d \in Callers :
          /\ walk[c] # "none" \/ call[c] \in {"claimed", "cleared"}
          /\ walk[d] # "none" \/ call[d] \in {"claimed", "cleared"}
          => c = d
    /\ Walked => phase \in Live

\* one: every finding walked is recorded in exactly one column, and what is left
\* to walk is what the run says remains.
TallyAddsUp ==
    /\ tally.done = tally.judged + tally.already + tally.cannot + tally.failed
    /\ \A c \in Callers : walk[c] \notin {"none", "list"}
          => tally.total = tally.done + Cardinality(work[c])

\* When reviews stop coming, a walk ends: it neither waits for ever nor walks
\* for ever.
WalkEnds == <>[](~passRunning /\ ~queueWaits) => (Walked ~> ~Walked)

-----------------------------------------------------------------------------
(* What the code's own words say, and its steps contradict.                *)

\* Backfill::stop: ask a live run to stop after the call in flight.
StopIsHeard == started <= 1

=============================================================================
