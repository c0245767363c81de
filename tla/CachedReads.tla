---------------------------- MODULE CachedReads ----------------------------
(***************************************************************************)
(* The cached reads of the browse roots and the watch that makes them      *)
(* safe, through re-arrangements of the roots while reads run:             *)
(* src/src/watch.rs (the watch, what an event cuts, the badge's epochs),   *)
(* src/src/browse.rs (which reads are cached and under which thread, the   *)
(* arrangement in force) and the re-arrangement of src/src/roots.rs.       *)
(*                                                                         *)
(* A directory is what a read of one of its files can tell apart: the      *)
(* file's text and whether a .gitignore hides the directory it is in.      *)
(* The kernel is a dependency.  Of it this module takes what src/docs/     *)
(* design/push-at-the-door.md says: a cut empties what depends on the      *)
(* thread, and an entry computed while one of its threads is cut is stale  *)
(* on arrival.                                                             *)
(***************************************************************************)
EXTENDS Naturals, Sequences, FiniteSets

CONSTANTS
    Roots, Dirs,
    NoDir,        \* the root has no line in the configuration
    NoCounter,    \* in place of an epoch: the root was never watched
    MaxChanges,   \* bound: changes of a file or of its .gitignore
    MaxEdits      \* bound: changes of the configuration

\* What is assumed of them.
CachedConstants ==
    NoDir \notin Dirs /\ NoCounter \notin Nat /\ {MaxChanges, MaxEdits} \subseteq Nat

VARIABLES
    disk,       \* per directory: the file's text, and whether it is hidden
    changes,    \* how many changes there were
    config,     \* the roots the configuration names, and where
    edits,      \* how many edits of it there were
    watches,    \* every watch started, by its number
    arrangement,\* in force: where each root is, and the number of its watch
    inForce,    \* LiveRoots' record: the roots in force, and the number of the watch held
    reload,     \* the re-arrangement under way, under the mutex of the record
    epochs,     \* the badge's counters; NoCounter before a root is first watched
    cache,      \* the kernel's entry for each read
    reader,     \* the read being computed
    memo,       \* the findings rows kept for each root, with the epoch they were read at
    poll,       \* the findings read under way
    asked,      \* the kind of read that this behaviour makes (a read changes nothing that
                \* another one sees, so each is explored by itself)
    missed,     \* history: reads whose root has had a change that a watch was not told the
                \* path of, since their thread was last cut
    missedRows  \* history: likewise roots, since their epoch last moved

site == <<disk, changes, config, edits>>
findings == <<memo, poll, asked>>
untold == <<missed, missedRows>>
vars == <<site, watches, arrangement, inForce, reload, epochs, cache, reader, findings,
          untold>>

Faces == {"file", "state"}       \* the narrow reads and the wide ones
ROOTS_THREAD == <<"roots">>
Narrow(r) == <<"root", r>>       \* root_thread
Wide(r) == <<"wide", r>>         \* wide_thread
ThreadOf(r, face) == IF face = "file" THEN Narrow(r) ELSE Wide(r)
Idle == [at |-> "idle"]
NoEntry == [answer |-> "none"]
NoWatch == [of |-> [r \in Roots |-> NoDir], hides |-> [r \in Roots |-> FALSE],
            events |-> <<>>, mode |-> "none"]
Ended == [NoWatch EXCEPT !.mode = "ended"]

Watched(g) == {r \in Roots : watches[g].of[r] # NoDir}

\* What a read of the root's file, or of its state, answers.
Answer(d, face) ==
    IF face = "file" THEN disk[d].text ELSE <<disk[d].text, disk[d].hidden>>

\* A watch over the accepted roots of dirs, its rules not read yet.
Watching(dirs, accepted) ==
    [NoWatch EXCEPT !.of = [r \in Roots |-> IF r \in accepted THEN dirs[r] ELSE NoDir],
                    !.mode = "held"]

\* RootIgnore::load: the rules as they are on disk.
Load(w) ==
    [w EXCEPT !.hides = [r \in Roots |-> w.of[r] # NoDir /\ disk[w.of[r]].hidden]]

Init ==
    /\ disk = [d \in Dirs |-> [text |-> 0, hidden |-> FALSE]] /\ changes = 0
    /\ config \in [Roots -> Dirs \cup {NoDir}] /\ edits = 0
    /\ \E accepted \in SUBSET {r \in Roots : config[r] # NoDir} :
         /\ watches = <<[Load(Watching(config, accepted)) EXCEPT !.mode = "driven"]>>
         /\ epochs = [r \in Roots |-> IF r \in accepted THEN 0 ELSE NoCounter]
    /\ arrangement = [dirs |-> config, watch |-> 1]
    /\ inForce = [dirs |-> config, watch |-> 1]
    /\ reload = Idle
    /\ cache = [r \in Roots |-> [f \in Faces |-> NoEntry]]
    /\ reader = Idle
    /\ memo = [r \in Roots |-> NoEntry] /\ poll = Idle
    /\ asked \in Faces \cup {"findings"}
    /\ missed = {} /\ missedRows = {}

-----------------------------------------------------------------------------
(* The disk, and the platform's events.                                    *)

\* The watches over a root at d that the platform still serves.
Over(d) == {g \in DOMAIN watches : /\ watches[g].mode \in {"held", "driven"}
                                   /\ \E r \in Roots : watches[g].of[r] = d}

\* An error of the watcher, or an event without a path: an overflow.
Pathless == [dir |-> NoDir, what |-> "pathless"]

\* Of these watches `told` get the event, with its path; the others get one without.
Tell(d, what, told) ==
    /\ watches' = [g \in DOMAIN watches |->
           IF g \notin Over(d) THEN watches[g]
           ELSE [watches[g] EXCEPT !.events =
                    Append(@, IF g \in told THEN [dir |-> d, what |-> what] ELSE Pathless)]]
    /\ LET blind == {r \in Roots : \E g \in Over(d) \ told : watches[g].of[r] = d}
       IN  missed' = missed \cup (blind \X Faces) /\ missedRows' = missedRows \cup blind

Change(d, what, told) ==
    /\ changes < MaxChanges /\ changes' = changes + 1
    /\ disk' = IF what = "text" THEN [disk EXCEPT ![d].text = @ + 1]
                                ELSE [disk EXCEPT ![d].hidden = ~@]
    /\ told \subseteq Over(d) /\ Tell(d, what, told)
    /\ UNCHANGED <<config, edits, arrangement, inForce, reload, epochs, cache, reader, findings>>

Edit(dirs) ==
    /\ edits < MaxEdits /\ edits' = edits + 1
    /\ dirs # config /\ config' = dirs
    /\ UNCHANGED <<disk, changes, watches, arrangement, inForce, reload, epochs,
                   cache, reader, findings, untold>>

-----------------------------------------------------------------------------
(* Cuts.                                                                   *)

\* Kernel::cut: what hangs from one of the threads goes, and the read being computed
\* will know.
Cut(threads) ==
    /\ cache' = [r \in Roots |-> [f \in Faces |->
           IF cache[r][f] # NoEntry /\ cache[r][f].threads \cap threads # {}
           THEN NoEntry ELSE cache[r][f]]]
    /\ reader' = IF reader = Idle THEN Idle ELSE [reader EXCEPT !.cuts = @ \cup threads]
    /\ missed' = {m \in missed : {ThreadOf(m[1], m[2]), ROOTS_THREAD} \cap threads = {}}

Bump(rs) ==
    /\ epochs' = [r \in Roots |-> IF r \in rs /\ epochs[r] # NoCounter
                                   THEN epochs[r] + 1 ELSE epochs[r]]
    /\ missedRows' = missedRows \ rs

Ready(g) ==
    /\ watches[g].mode \in {"driven", "dropped"} /\ watches[g].events # <<>>

\* A dropped watch whose channel is empty has no thread any more.
AfterRemoving(w, events) ==
    IF w.mode = "dropped" /\ events = <<>> THEN Ended ELSE [w EXCEPT !.events = events]

Named(g) == {r \in Watched(g) : watches[g].of[r] = Head(watches[g].events).dir}

\* A rule file changed: its rules are read again BEFORE the cut that the change makes.
Reread(g) ==
    /\ Ready(g) /\ Head(watches[g].events).what = "rules"
    /\ watches' = [watches EXCEPT
           ![g].hides = [r \in Roots |-> IF r \in Named(g) THEN disk[watches[g].of[r]].hidden
                                                           ELSE @[r]],
           ![g].events = <<[Head(@) EXCEPT !.what = "reread"]>> \o Tail(@)]
    /\ UNCHANGED <<site, arrangement, inForce, reload, epochs, cache, reader, findings, untold>>

\* What the rules say of the changed path decides the threads (Seen): the narrow ones
\* are spared a change in a hidden directory.
CutsFor(g) ==
    UNION {IF Head(watches[g].events).what = "text" /\ watches[g].hides[r]
           THEN {Wide(r)} ELSE {Narrow(r), Wide(r)} : r \in Named(g)}

\* Mutant: the cut that a changed rule file makes may come before its rules are read.
ApplyThenReread(g) ==
    /\ Ready(g)
    /\ IF Head(watches[g].events).what = "late"
       THEN /\ watches' = [watches EXCEPT
                   ![g] = AfterRemoving(IF @.mode = "driven" THEN Load(@) ELSE @,
                                        Tail(@.events))]
            /\ UNCHANGED <<epochs, cache, reader, untold>>
       ELSE /\ Cut(CutsFor(g)) /\ Bump({r \in Roots : Narrow(r) \in CutsFor(g)})
            /\ watches' = IF Head(watches[g].events).what = "rules"
                          THEN [watches EXCEPT ![g].events[1].what = "late"]
                          ELSE [watches EXCEPT ![g] = AfterRemoving(@, Tail(@.events))]
    /\ UNCHANGED <<site, arrangement, inForce, reload, findings>>

Apply(g) ==
    /\ Ready(g) /\ Head(watches[g].events).what # "rules"
    /\ Cut(CutsFor(g))
    /\ Bump({r \in Roots : Narrow(r) \in CutsFor(g)})
    /\ watches' = [watches EXCEPT ![g] = AfterRemoving(@, Tail(@.events))]
    /\ UNCHANGED <<site, arrangement, inForce, reload, findings>>

-----------------------------------------------------------------------------
(* LiveRoots::reload, one at a time: the new watch, the family over it, the *)
(* swap and its cuts, the old watch retired.                               *)

\* The file says something else than what is in force: the platform is asked for a
\* watch of every root, and refuses some.
StartWatch(accepted) ==
    /\ reload = Idle /\ config # inForce.dirs
    /\ accepted \subseteq {r \in Roots : config[r] # NoDir}
    /\ watches' = Append(watches, Watching(config, accepted))
    /\ reload' = [at |-> "watching", dirs |-> config, watch |-> Len(watches) + 1]
    /\ UNCHANGED <<site, arrangement, inForce, epochs, cache, reader, findings, untold>>

\* Mutant: a root's counter starts again with its watch.
TrackAfresh(g) ==
    /\ epochs' = [r \in Roots |-> IF r \in Watched(g) THEN 0 ELSE epochs[r]]
    /\ missedRows' = {}

\* Epochs::track: every counter there is moves, and is kept; a new one starts at 0.
Track(g) ==
    /\ epochs' = [r \in Roots |-> IF epochs[r] # NoCounter THEN epochs[r] + 1
                                  ELSE IF r \in Watched(g) THEN 0 ELSE NoCounter]
    /\ missedRows' = {}

LoadRules ==
    /\ reload.at = "watching"
    /\ watches' = [watches EXCEPT ![reload.watch] = Load(@)]
    /\ Track(reload.watch)
    /\ reload' = [reload EXCEPT !.at = "started"]
    /\ UNCHANGED <<site, arrangement, inForce, cache, reader, findings, missed>>

\* CachedReads::replace: the arrangement is swapped under its lock ...
Swap ==
    /\ reload.at = "started"
    /\ arrangement' = [dirs |-> reload.dirs, watch |-> reload.watch]
    /\ reload' = [reload EXCEPT !.at = "swapped"]
    /\ UNCHANGED <<site, watches, inForce, epochs, cache, reader, findings, untold>>

\* ... and then everything that the old one answered is cut ...
CutRoots ==
    /\ reload.at = "swapped"
    /\ Cut({ROOTS_THREAD})
    /\ reload' = [reload EXCEPT !.at = "cut"]
    /\ UNCHANGED <<site, watches, arrangement, inForce, epochs, findings, missedRows>>

Removed == {r \in Roots : inForce.dirs[r] # NoDir /\ reload.dirs[r] = NoDir}

\* ... and the threads of the roots that left.
CutRemoved ==
    /\ reload.at = "cut"
    /\ Cut(UNION {{Narrow(r), Wide(r)} : r \in Removed})
    /\ reload' = [reload EXCEPT !.at = "removed"]
    /\ UNCHANGED <<site, watches, arrangement, inForce, epochs, findings, missedRows>>

\* Mutant: the new watch is held and never given its thread.
RetireUndriven(kept) ==
    /\ reload.at = "removed"
    /\ kept \in 0 .. Len(watches[inForce.watch].events)
    /\ watches' = [watches EXCEPT
           ![inForce.watch] = AfterRemoving([@ EXCEPT !.mode = "dropped"],
                                            SubSeq(@.events, 1, kept))]
    /\ inForce' = [dirs |-> reload.dirs, watch |-> reload.watch]
    /\ reload' = Idle
    /\ UNCHANGED <<site, arrangement, epochs, cache, reader, findings, untold>>

\* The new watch is given its thread and the old one is dropped: the platform tells it
\* nothing more, what it did not hand over yet is lost, and its thread ends when it has
\* applied the rest.
Retire(kept) ==
    /\ reload.at = "removed"
    /\ kept \in 0 .. Len(watches[inForce.watch].events)
    /\ watches' = [watches EXCEPT
           ![reload.watch].mode = "driven",
           ![inForce.watch] = AfterRemoving([@ EXCEPT !.mode = "dropped"],
                                            SubSeq(@.events, 1, kept))]
    /\ inForce' = [dirs |-> reload.dirs, watch |-> reload.watch]
    /\ reload' = Idle
    /\ UNCHANGED <<site, arrangement, epochs, cache, reader, findings, untold>>

-----------------------------------------------------------------------------
(* A read through the overlay that the cache does not answer.              *)

Begin(r, face) ==
    /\ reader = Idle /\ asked = face /\ cache[r][face] = NoEntry
    /\ reader' = [at |-> "begun", root |-> r, face |-> face, cuts |-> {}]
    /\ UNCHANGED <<site, watches, arrangement, inForce, reload, epochs, cache, findings, untold>>

\* The arrangement in force resolves it, when the root is one of its own.
Resolve ==
    /\ reader.at = "begun"
    /\ LET d == arrangement.dirs[reader.root] IN
         reader' = IF d = NoDir THEN Idle
                   ELSE [at |-> "resolved", root |-> reader.root, face |-> reader.face,
                         cuts |-> reader.cuts, dir |-> d]
    /\ UNCHANGED <<site, watches, arrangement, inForce, reload, epochs, cache, findings, untold>>

\* The arrangement is looked at a second time for the thread: none for a root that it
\* does not watch, and none for the narrow read of what the rules hide.
ThreadFor(r, face) ==
    LET g == arrangement.watch
    IN  IF r \notin Watched(g) \/ (face = "file" /\ watches[g].hides[r]) THEN {}
        ELSE {ThreadOf(r, face)}

Thread ==
    /\ reader.at = "resolved"
    /\ reader' = [at |-> "threaded", root |-> reader.root, face |-> reader.face,
                  cuts |-> reader.cuts, dir |-> reader.dir,
                  threads |-> ThreadFor(reader.root, reader.face)]
    /\ UNCHANGED <<site, watches, arrangement, inForce, reload, epochs, cache, findings, untold>>

Compute ==
    /\ reader.at = "threaded"
    /\ reader' = [at |-> "computed", root |-> reader.root, face |-> reader.face,
                  cuts |-> reader.cuts, dir |-> reader.dir, threads |-> reader.threads,
                  value |-> Answer(reader.dir, reader.face)]
    /\ UNCHANGED <<site, watches, arrangement, inForce, reload, epochs, cache, findings, untold>>

\* Its own thread, and the one that every answer of the family hangs from.
Hang == reader.threads \cup {ROOTS_THREAD}

\* The kernel keeps it when it has a thread, unless one was cut since it began.
Fill ==
    /\ reader.at = "computed"
    /\ cache' = IF reader.threads = {} \/ Hang \cap reader.cuts # {} THEN cache
                ELSE [cache EXCEPT ![reader.root][reader.face] =
                        [answer |-> "kept", dir |-> reader.dir, value |-> reader.value,
                         threads |-> Hang]]
    /\ reader' = Idle
    /\ UNCHANGED <<site, watches, arrangement, inForce, reload, epochs, findings, untold>>

-----------------------------------------------------------------------------
(* A findings read for the badge or the Queue (the flight, the learned      *)
(* owners and the family's writes are in FindingsMemo).                    *)

Hit(r) == memo[r] # NoEntry /\ memo[r].epoch = epochs[r]

\* The epoch is taken before the read; a root with no counter is never kept.
Stamp(r) ==
    /\ poll = Idle /\ asked = "findings" /\ epochs[r] # NoCounter /\ ~Hit(r)
    /\ poll' = [at |-> "stamped", root |-> r, epoch |-> epochs[r]]
    /\ UNCHANGED <<site, watches, arrangement, inForce, reload, epochs, cache, reader, memo,
                   asked, untold>>

\* A read that the arrangement in force does not resolve is not kept.
ReadFindings ==
    /\ poll.at = "stamped"
    /\ LET d == arrangement.dirs[poll.root] IN
         poll' = IF d = NoDir THEN Idle
                 ELSE [at |-> "read", root |-> poll.root, epoch |-> poll.epoch,
                       dir |-> d, text |-> disk[d].text]
    /\ UNCHANGED <<site, watches, arrangement, inForce, reload, epochs, cache, reader, memo,
                   asked, untold>>

Keep ==
    /\ poll.at = "read"
    /\ memo' = [memo EXCEPT ![poll.root] = [epoch |-> poll.epoch, dir |-> poll.dir,
                                            text |-> poll.text]]
    /\ poll' = Idle
    /\ UNCHANGED <<site, watches, arrangement, inForce, reload, epochs, cache, reader, asked,
                   untold>>

-----------------------------------------------------------------------------
WatchNext == \E g \in DOMAIN watches : Reread(g) \/ Apply(g)

Rearrange ==
    \/ LoadRules \/ Swap \/ CutRoots \/ CutRemoved
    \/ \E kept \in 0 .. MaxChanges : Retire(kept)

Read == Resolve \/ Thread \/ Compute \/ Fill

Next ==
    \/ \E d \in Dirs, what \in {"text", "rules"} : \E told \in SUBSET Over(d) : Change(d, what, told)
    \/ \E dirs \in [Roots -> Dirs \cup {NoDir}] : Edit(dirs)
    \/ WatchNext
    \/ \E accepted \in SUBSET Roots : StartWatch(accepted)
    \/ Rearrange
    \/ \E r \in Roots, face \in Faces : Begin(r, face)
    \/ Read
    \/ \E r \in Roots : Stamp(r)
    \/ ReadFindings \/ Keep

Spec == Init /\ [][Next]_vars

-----------------------------------------------------------------------------
TypeOK ==
    /\ disk \in [Dirs -> [text : 0 .. MaxChanges, hidden : BOOLEAN]]
    /\ changes \in 0 .. MaxChanges /\ edits \in 0 .. MaxEdits
    /\ config \in [Roots -> Dirs \cup {NoDir}]
    /\ Len(watches) \in 1 .. MaxEdits + 1
    /\ \A g \in DOMAIN watches :
         /\ watches[g].of \in [Roots -> Dirs \cup {NoDir}]
         /\ watches[g].hides \in [Roots -> BOOLEAN]
         /\ watches[g].mode \in {"held", "driven", "dropped", "ended"}
         /\ \A i \in DOMAIN watches[g].events :
              watches[g].events[i] \in [dir : Dirs, what : {"text", "rules", "reread"}] \cup {Pathless}
    /\ {arrangement, inForce} \subseteq [dirs : [Roots -> Dirs \cup {NoDir}],
                                         watch : DOMAIN watches]
    /\ watches[inForce.watch].mode = "driven"
    /\ epochs \in [Roots -> Nat \cup {NoCounter}]
    /\ reload.at \in {"idle", "watching", "started", "swapped", "cut", "removed"}
    /\ reader.at \in {"idle", "begun", "resolved", "threaded", "computed"}
    /\ poll.at \in {"idle", "stamped", "read"}
    /\ missed \subseteq Roots \X Faces /\ missedRows \subseteq Roots

Kept(r, face) == cache[r][face] # NoEntry

\* A read made now would answer something else than the entry does.
Stale(r, face) ==
    /\ Kept(r, face)
    /\ \/ arrangement.dirs[r] # cache[r][face].dir
       \/ Answer(cache[r][face].dir, face) # cache[r][face].value

\* Some watch holds an event, not applied yet, that cuts the thread.
EventIsDue(r, face) ==
    \E g \in DOMAIN watches : \E i \in DOMAIN watches[g].events :
        /\ watches[g].events[i] # Pathless
        /\ watches[g].events[i].dir = watches[g].of[r]
        /\ face = "state" \/ watches[g].events[i].what # "text" \/ ~watches[g].hides[r]

CutIsDue(r, face) == reload.at = "swapped" \/ EventIsDue(r, face)

\* watch.rs, "no path on which a read is cached and unwatched", for what the cache holds:
\* an entry that went stale, by a change, a rule or a re-arrangement in any order, is
\* always one that a cut already under way removes.  Of a change whose path the watch is not
\* told, RootWatch::apply cuts nothing: an entry that it made stale stays, but only until the
\* next cut of its thread, whatever makes that.
StaleIsDue ==
    \A r \in Roots, face \in Faces :
        Stale(r, face) => CutIsDue(r, face) \/ <<r, face>> \in missed

\* roots.rs, "no moment exists at which a cached read of a root in force is unwatched":
\* what is cached is of a root in force where a watch, driven or about to be, hears every
\* change that it shows.
CachedIsWatched ==
    \A r \in Roots, face \in Faces :
        LET g == arrangement.watch
        IN  Kept(r, face) =>
              \/ CutIsDue(r, face)
              \/ /\ arrangement.dirs[r] = cache[r][face].dir
                 /\ watches[g].of[r] = cache[r][face].dir
                 /\ watches[g].mode \in {"held", "driven"}
                 /\ face = "file" => ~watches[g].hides[r]

\* What the memo keeps at the epoch of now: of the root where it is, watched, and with
\* nothing hidden by the rules the watch knows, it is what a read would answer, or the change
\* that made it stale has yet to move the epoch; or the watch was not told that change's path,
\* and the epoch has not moved since.
MemoIsFreshOrDue ==
    \A r \in Roots :
        /\ Hit(r) /\ memo[r].dir = arrangement.dirs[r]
        /\ r \in Watched(arrangement.watch) /\ ~watches[arrangement.watch].hides[r]
        => \/ memo[r].text = disk[memo[r].dir].text
           \/ EventIsDue(r, "file") \/ r \in missedRows

\* A counter is never taken away and never goes back: what was kept at an epoch before
\* the root left is not served when it is mounted again.
EpochsOnlyRise ==
    [][\A r \in Roots : epochs[r] # NoCounter =>
            epochs'[r] # NoCounter /\ epochs'[r] >= epochs[r]]_vars

=============================================================================
