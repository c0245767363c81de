---------------------------- MODULE ReviewQueue ----------------------------
(***************************************************************************)
(* The git-event review queue of src/src/trigger.rs: a hook drops a tuple  *)
(* for a file into an inbox directory, an armed server's reactor claims    *)
(* one tuple at a time into .processing/, runs one review pass over it and *)
(* settles it in outbox/ or error/.  A person may run a waiting request by *)
(* hand over the socket, and the page's Review button reviews a file       *)
(* without any tuple.  The server may stop at any point and start again,   *)
(* armed or not; the directories survive, everything in memory does not.   *)
(*                                                                         *)
(* A tuple is named by the hash of its bytes and its bytes by the file it  *)
(* is for, so a stage directory is a SET of files.                         *)
(***************************************************************************)
EXTENDS Naturals, FiniteSets

CONSTANTS
    Files,       \* the (repository, path) pairs somebody may ask a review of
    NoFile,      \* "no tuple in hand"
    MaxVersion,  \* bound: how often the live tree's content of a file changes
    MaxDrops,    \* bound: how many drops the hooks make in all
    MaxStarts,   \* bound: how often the server starts
    MaxByHand    \* bound: reviews a person starts by hand, piped or clicked

QueueConstants ==
    /\ NoFile \notin Files
    /\ {MaxVersion, MaxDrops, MaxStarts, MaxByHand} \subseteq Nat

VARIABLES
    tree,        \* tree[f]: the version of f in the live working tree
    inbox, processing, outbox, error,   \* the stage directories
    handler,     \* the space's handler file: absent, naming the pass, or foreign
    up, armed, alive,  \* the process; its reviewer armed; its watcher thread
    at, file, seen,    \* per runner: where it stands, on what, at which version
    ok,          \* the reactor's last pass answered (its tuple is not settled yet)
    slot,        \* Record.in_flight_since_ms: which runner holds the one pass slot
    passes,      \* Record's counters: started, succeeded, failed
    reviewsInFlight,   \* Record.reviews_in_flight
    clicks,      \* reviews of the page's button that are running now
    dropped, reviewed, \* history: version at the last drop, newest one reviewed
    letdown,     \* history: tuples dead-lettered or taken away since they were claimed
    drops, starts, byHand    \* how much of each bound is used

stages == <<inbox, processing, outbox, error>>
process == <<up, armed, alive>>
runners == <<at, file, seen, ok>>
activity == <<slot, passes, reviewsInFlight>>
history == <<dropped, reviewed, letdown>>
bounds == <<drops, starts, byHand>>
vars == <<tree, stages, handler, process, runners, activity, clicks, history, bounds>>

Runners == {"reactor", "person"}

NoPasses == [started |-> 0, succeeded |-> 0, failed |-> 0]

LessOne(n) == IF n > 0 THEN n - 1 ELSE 0   \* u64::saturating_sub

Larger(m, n) == IF m >= n THEN m ELSE n

Init ==
    /\ tree = [f \in Files |-> 1]
    /\ inbox = {} /\ processing = {} /\ outbox = {} /\ error = {}
    /\ handler = "absent"
    /\ up = FALSE /\ armed = FALSE /\ alive = FALSE
    /\ at = [r \in Runners |-> "idle"]
    /\ file = [r \in Runners |-> NoFile]
    /\ seen = [r \in Runners |-> 0]
    /\ ok = FALSE
    /\ slot = "free" /\ passes = NoPasses /\ reviewsInFlight = 0
    /\ clicks = 0
    /\ dropped = [f \in Files |-> 0]
    /\ reviewed = [f \in Files |-> 0]
    /\ letdown = {}
    /\ drops = 0 /\ starts = 0 /\ byHand = 0

-----------------------------------------------------------------------------
(* Outside the server: the working tree, the hooks, the operator's files.  *)

Edit(f) ==
    /\ tree[f] < MaxVersion
    /\ tree' = [tree EXCEPT ![f] = @ + 1]
    /\ UNCHANGED <<stages, handler, process, runners, activity, clicks, history, bounds>>

\* Mutant: a drop is discarded while the same tuple is claimed.
DropUnlessClaimed(f) ==
    /\ drops < MaxDrops
    /\ inbox' = IF f \in processing THEN inbox ELSE inbox \union {f}
    /\ dropped' = [dropped EXCEPT ![f] = tree[f]]
    /\ drops' = drops + 1
    /\ UNCHANGED <<tree, processing, outbox, error, handler, process, runners,
                   activity, clicks, reviewed, letdown, starts, byHand>>

\* drop_tuple: the space's Sink publishes with a staging write and a rename, so
\* a tuple already waiting is replaced by itself.  No server has to be running.
Drop(f) ==
    /\ drops < MaxDrops
    /\ inbox' = inbox \union {f}
    /\ dropped' = [dropped EXCEPT ![f] = tree[f]]
    /\ drops' = drops + 1
    /\ UNCHANGED <<tree, processing, outbox, error, handler, process, runners,
                   activity, clicks, reviewed, letdown, starts, byHand>>

\* Anything that can write the drop tree may replace or remove the handler file.
RewriteHandler ==
    /\ handler' \in {"absent", "foreign"} \ {handler}
    /\ UNCHANGED <<tree, stages, process, runners, activity, clicks, history, bounds>>

-----------------------------------------------------------------------------
(* Start and stop.                                                         *)

\* main's arming step: set_handler, then (armed) recover_interrupted, which
\* requeues every tuple a stopped reactor left claimed.  A rename that fails,
\* or a recovery skipped altogether, leaves its tuples where they are.
Start(arm, recovered) ==
    /\ ~up /\ starts < MaxStarts
    /\ up' = TRUE /\ armed' = arm /\ alive' = arm
    /\ handler' = IF arm THEN "pass" ELSE "absent"
    /\ recovered \subseteq processing
    /\ ~arm => recovered = {}
    /\ inbox' = inbox \union recovered
    /\ processing' = processing \ recovered
    /\ starts' = starts + 1
    /\ UNCHANGED <<tree, outbox, error, runners, activity, clicks, history, drops, byHand>>

\* A stop, or a crash: the counters, the slot and every runner are memory.
Stop ==
    /\ up
    /\ up' = FALSE /\ armed' = FALSE /\ alive' = FALSE
    /\ at' = [r \in Runners |-> "idle"]
    /\ file' = [r \in Runners |-> NoFile]
    /\ seen' = [r \in Runners |-> 0]
    /\ ok' = FALSE
    /\ slot' = "free" /\ passes' = NoPasses /\ reviewsInFlight' = 0
    /\ clicks' = 0
    /\ UNCHANGED <<tree, stages, handler, history, bounds>>

-----------------------------------------------------------------------------
(* Activity: the one pass slot and the counters behind the depth.          *)

\* Pass's guard: releasing the slot counts the pass, whichever way it ended.
SettlePass(succeeded) ==
    /\ slot' = "free"
    /\ passes' = IF succeeded THEN [passes EXCEPT !.succeeded = @ + 1]
                              ELSE [passes EXCEPT !.failed = @ + 1]

\* What a runner does with a pass that is over: the reactor still has its tuple
\* to settle, a person has nothing more to do.
Leave(r, succeeded) ==
    IF r = "reactor"
    THEN /\ at' = [at EXCEPT ![r] = "ended"]
         /\ ok' = succeeded
         /\ UNCHANGED <<file, seen>>
    ELSE /\ at' = [at EXCEPT ![r] = "idle"]
         /\ file' = [file EXCEPT ![r] = NoFile]
         /\ seen' = [seen EXCEPT ![r] = 0]
         /\ UNCHANGED ok

\* fires: the review space fires the pass, and a handler file that names
\* anything else makes the reactor refuse the tuple it claimed.
HandlerRefused(r) == r = "reactor" /\ handler = "foreign"

\* Mutant: the slot is taken without looking whether it is free.
BeginAnyway(r) ==
    /\ at[r] = "holding" /\ ~HandlerRefused(r)
    /\ slot' = r
    /\ passes' = [passes EXCEPT !.started = @ + 1]
    /\ at' = [at EXCEPT ![r] = "begun"]
    /\ UNCHANGED <<tree, stages, handler, process, file, seen, ok, reviewsInFlight,
                   clicks, history, bounds>>

\* Activity::begin claims the slot before the tuple is even parsed.
Begin(r) ==
    /\ at[r] = "holding" /\ slot = "free" /\ ~HandlerRefused(r)
    /\ slot' = r
    /\ passes' = [passes EXCEPT !.started = @ + 1]
    /\ at' = [at EXCEPT ![r] = "begun"]
    /\ UNCHANGED <<tree, stages, handler, process, file, seen, ok, reviewsInFlight,
                   clicks, history, bounds>>

\* Mutant: a refused pass is tried again and again, its tuple in hand.
RefuseForEver(r) ==
    /\ at[r] = "holding"
    /\ slot # "free" \/ HandlerRefused(r)
    /\ UNCHANGED vars

\* A pass that may not begin: the slot is taken, or the handler is foreign.
Refuse(r) ==
    /\ at[r] = "holding"
    /\ slot # "free" \/ HandlerRefused(r)
    /\ Leave(r, FALSE)
    /\ UNCHANGED <<tree, stages, handler, process, activity, clicks, history, bounds>>

\* Mutant: the early return uncounts a review that never began.
MalformedUncounts(r) ==
    /\ at[r] = "begun"
    /\ SettlePass(FALSE)
    /\ Leave(r, FALSE)
    /\ reviewsInFlight' = reviewsInFlight - 1
    /\ UNCHANGED <<tree, stages, handler, process, clicks, history, bounds>>

\* Mutant: the early return frees the slot without counting the pass.
MalformedUncounted(r) ==
    /\ at[r] = "begun"
    /\ slot' = "free"
    /\ Leave(r, FALSE)
    /\ UNCHANGED <<tree, stages, handler, process, passes, reviewsInFlight, clicks, history,
                   bounds>>

\* An early return of the pass: no content, or a tuple that does not parse.
Malformed(r) ==
    /\ at[r] = "begun"
    /\ SettlePass(FALSE)
    /\ Leave(r, FALSE)
    /\ UNCHANGED <<tree, stages, handler, process, reviewsInFlight, clicks, history, bounds>>

\* The one call: the review family counts it and reads the file as it is NOW.
Review(r) ==
    /\ at[r] = "begun"
    /\ at' = [at EXCEPT ![r] = "reviewing"]
    /\ seen' = [seen EXCEPT ![r] = tree[file[r]]]
    /\ reviewsInFlight' = reviewsInFlight + 1
    /\ UNCHANGED <<tree, stages, handler, process, file, ok, slot, passes, clicks,
                   history, bounds>>

\* Mutant: a review that fails is not uncounted.
AnswerLeaks(r, succeeded) ==
    /\ at[r] = "reviewing"
    /\ reviewsInFlight' = IF succeeded THEN LessOne(reviewsInFlight) ELSE reviewsInFlight
    /\ SettlePass(succeeded)
    /\ reviewed' = IF succeeded
                   THEN [reviewed EXCEPT ![file[r]] = Larger(@, seen[r])]
                   ELSE reviewed
    /\ Leave(r, succeeded)
    /\ UNCHANGED <<tree, stages, handler, process, clicks, dropped, letdown, bounds>>

\* The review answers or fails: Reviewing's guard uncounts it either way.
Answer(r, succeeded) ==
    /\ at[r] = "reviewing"
    /\ reviewsInFlight' = LessOne(reviewsInFlight)
    /\ SettlePass(succeeded)
    /\ reviewed' = IF succeeded
                   THEN [reviewed EXCEPT ![file[r]] = Larger(@, seen[r])]
                   ELSE reviewed
    /\ Leave(r, succeeded)
    /\ UNCHANGED <<tree, stages, handler, process, clicks, dropped, letdown, bounds>>

-----------------------------------------------------------------------------
(* The reactor: claim by a rename, run the pass, settle by a rename.       *)

Claim(f) ==
    /\ up /\ alive /\ at["reactor"] = "idle" /\ f \in inbox
    /\ inbox' = inbox \ {f}
    /\ processing' = processing \union {f}
    /\ at' = [at EXCEPT !["reactor"] = "holding"]
    /\ file' = [file EXCEPT !["reactor"] = f]
    /\ letdown' = letdown \ {f}
    /\ UNCHANGED <<tree, outbox, error, handler, process, seen, ok, activity, clicks,
                   dropped, reviewed, bounds>>

Settle ==
    /\ at["reactor"] = "ended"
    /\ processing' = processing \ {file["reactor"]}
    /\ outbox' = IF ok THEN outbox \union {file["reactor"]} ELSE outbox
    /\ error' = IF ok THEN error ELSE error \union {file["reactor"]}
    /\ letdown' = IF ok THEN letdown ELSE letdown \union {file["reactor"]}
    /\ at' = [at EXCEPT !["reactor"] = "idle"]
    /\ file' = [file EXCEPT !["reactor"] = NoFile]
    /\ seen' = [seen EXCEPT !["reactor"] = 0]
    /\ ok' = FALSE
    /\ UNCHANGED <<tree, inbox, handler, process, activity, clicks, dropped, reviewed, bounds>>

\* The watcher thread dies while the server lives.  Unwinding drops its guards,
\* so a pass it was running is counted failed; its tuple stays claimed.
WatcherDies ==
    /\ up /\ alive
    /\ alive' = FALSE
    /\ at' = [at EXCEPT !["reactor"] = "idle"]
    /\ file' = [file EXCEPT !["reactor"] = NoFile]
    /\ seen' = [seen EXCEPT !["reactor"] = 0]
    /\ ok' = FALSE
    /\ reviewsInFlight' = IF at["reactor"] = "reviewing" THEN LessOne(reviewsInFlight)
                                                         ELSE reviewsInFlight
    /\ IF slot = "reactor" THEN SettlePass(FALSE) ELSE UNCHANGED <<slot, passes>>
    /\ UNCHANGED <<tree, stages, handler, up, armed, clicks, history, bounds>>

-----------------------------------------------------------------------------
(* A person: DRAIN_ONE reads a waiting tuple (or takes it) into the pass.  *)

Pipe(f, take) ==
    /\ up /\ byHand < MaxByHand /\ at["person"] = "idle" /\ f \in inbox
    /\ at' = [at EXCEPT !["person"] = "holding"]
    /\ file' = [file EXCEPT !["person"] = f]
    /\ inbox' = IF take THEN inbox \ {f} ELSE inbox
    /\ letdown' = IF take THEN letdown \union {f} ELSE letdown
    /\ byHand' = byHand + 1
    /\ UNCHANGED <<tree, processing, outbox, error, handler, process, seen, ok, activity,
                   clicks, dropped, reviewed, drops, starts>>

\* The Review button calls the family directly, past Activity::begin.
Click ==
    /\ up /\ byHand < MaxByHand
    /\ clicks' = clicks + 1
    /\ reviewsInFlight' = reviewsInFlight + 1
    /\ byHand' = byHand + 1
    /\ UNCHANGED <<tree, stages, handler, process, runners, slot, passes, history, drops, starts>>

ClickAnswered ==
    /\ clicks > 0
    /\ clicks' = clicks - 1
    /\ reviewsInFlight' = LessOne(reviewsInFlight)
    /\ UNCHANGED <<tree, stages, handler, process, runners, slot, passes, history, bounds>>

-----------------------------------------------------------------------------
PassStep(r) ==
    Begin(r) \/ Refuse(r) \/ Malformed(r) \/ Review(r) \/ \E b \in BOOLEAN : Answer(r, b)

Next ==
    \/ \E f \in Files :
          Edit(f) \/ Drop(f) \/ Claim(f) \/ \E take \in BOOLEAN : Pipe(f, take)
    \/ RewriteHandler
    \/ \E arm \in BOOLEAN : \E recovered \in SUBSET processing : Start(arm, recovered)
    \/ Stop \/ WatcherDies \/ Settle
    \/ \E r \in Runners : PassStep(r)
    \/ Click \/ ClickAnswered

Spec == Init /\ [][Next]_vars

\* The reactor's thread and the calls it waits for keep going; nothing is
\* assumed of hooks, people or the operator.
ReactorStep == PassStep("reactor") \/ Settle \/ \E f \in Files : Claim(f)

-----------------------------------------------------------------------------
(* Properties.                                                             *)

TypeOK ==
    /\ tree \in [Files -> Nat]
    /\ inbox \subseteq Files /\ processing \subseteq Files
    /\ outbox \subseteq Files /\ error \subseteq Files
    /\ handler \in {"absent", "pass", "foreign"}
    /\ up \in BOOLEAN /\ armed \in BOOLEAN /\ alive \in BOOLEAN
    /\ at \in [Runners -> {"idle", "holding", "begun", "reviewing", "ended"}]
    /\ file \in [Runners -> Files \union {NoFile}]
    /\ seen \in [Runners -> Nat]
    /\ ok \in BOOLEAN
    /\ slot \in Runners \union {"free"}
    /\ passes \in [started : Nat, succeeded : Nat, failed : Nat]
    /\ reviewsInFlight \in Nat /\ clicks \in Nat
    /\ dropped \in [Files -> Nat] /\ reviewed \in [Files -> Nat]
    /\ letdown \subseteq Files
    /\ drops \in Nat /\ starts \in Nat /\ byHand \in Nat

\* Activity: passes are serial, one per process, whoever runs them, and the slot
\* never outlives its pass: it is held exactly while a runner is inside one.
OnePassAtATime ==
    \A r \in Runners : slot = r <=> at[r] \in {"begun", "reviewing"}

\* Pass is a guard: every pass begun in this process is counted once, as
\* succeeded or failed, unless it is the one running now.
EveryPassIsCounted ==
    passes.started = passes.succeeded + passes.failed + (IF slot = "free" THEN 0 ELSE 1)

\* Reviewing is a guard: reviews_in_flight is the number of reviews running, the
\* queue's and the button's, however each ends; a leak would stop the backfill
\* for the life of the process.
ReviewsAreCounted ==
    reviewsInFlight = clicks + Cardinality({r \in Runners : at[r] = "reviewing"})

\* The module's reason to leave the commit out of the tuple: drops of one file
\* collapse, and still the file's newest drop is never forgotten.  A file that is
\* neither waiting nor claimed, and whose tuple was not dead-lettered or taken
\* away by hand, has been reviewed at the version of its last drop or a later one.
NewestDropIsReviewed ==
    \A f \in Files : dropped[f] > 0 /\ f \notin inbox \union processing \union letdown
        => reviewed[f] >= dropped[f]

\* With the watcher alive and the server up and armed for good, a waiting request
\* does not wait for ever (the catch-up, and then the watch, claim it).
WaitingIsClaimed ==
    \A f \in Files :
        <>[](up /\ armed /\ alive) => (f \in inbox ~> f \notin inbox)

=============================================================================
