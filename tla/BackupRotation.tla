--------------------------- MODULE BackupRotation --------------------------
(***************************************************************************)
(* The rotation of store backups and the timer that is phased to it:       *)
(* src/src/backup.rs (TakeBackup::take, lock_rotation, write_atomic,       *)
(* prune, archives, first_delay, BackupTimer).                             *)
(*                                                                         *)
(* A backup is three files that share a stamp of one second: the archive,  *)
(* the scripts archive, and the sidecar that vouches for both.  Each is    *)
(* there or not, whole (write_atomic renames it into place).  Backups are  *)
(* taken by the timer and through the door, in one process or more, and    *)
(* the process can stop between any two files; of what a prune removes,    *)
(* each file may refuse to go.  The contents of a backup are its number,   *)
(* in the order of the dumps.                                              *)
(***************************************************************************)
EXTENDS Naturals, FiniteSets, FiniteSetsExt

CONSTANTS
    Callers,     \* backups taken through the door
    Timer,       \* the one the timer takes
    Keep,        \* gonk.backup.keep
    Every,       \* the cadence
    CatchUp,     \* CATCH_UP
    RunTime,     \* bound: how long a backup takes
    MaxClock, MaxBackups, MaxStarts, MaxFound   \* bounds

VARIABLES
    clock,
    archive, scripts, sidecar,   \* per stamp: the backup whose file is there
    withScripts,                 \* whether a scripts directory is bound
    lock,                        \* who holds .rotation.lock
    take,                        \* per taker: how far its backup is
    process,                     \* up, since when, and when the timer fires
    taken, starts,
    cut,                         \* history: stamps at which one was cut short over an earlier one
    stuck,                       \* history: stamps of which a prune could not remove a file
    last                         \* history: the last backup published, its stamp, the newest stamp published

disk == <<archive, scripts, sidecar>>
vars == <<clock, disk, withScripts, lock, take, process, taken, starts, cut, stuck, last>>

Takers == Callers \cup {Timer}
Stamps == 0 .. MaxClock
NoBackup == MaxBackups + 1
Found == 0                     \* the contents of what was there before
NoTime == MaxClock + Every + CatchUp + 1   \* later than any run is due
Nobody == NoBackup
Idle == [at |-> "idle"]

\* What is assumed of them: `keep` is at least 1 (config.rs refuses 0), a bound is a number,
\* and no taker is nobody.
RotationConstants ==
    /\ {Keep, MaxClock} \subseteq Nat \ {0}
    /\ {Every, CatchUp, RunTime, MaxBackups, MaxStarts, MaxFound} \subseteq Nat
    /\ Nobody \notin Takers

\* archives(): gonk's own, and their order is that of their stamps.
Archives == {s \in Stamps : archive[s] # NoBackup}

Init ==
    /\ clock \in 0 .. 1 /\ withScripts \in BOOLEAN
    /\ \E there \in SUBSET Stamps : \E vouched \in SUBSET there :
          /\ Cardinality(there) <= MaxFound
          /\ archive = [s \in Stamps |-> IF s \in there THEN Found ELSE NoBackup]
          /\ sidecar = [s \in Stamps |-> IF s \in vouched THEN Found ELSE NoBackup]
          /\ scripts = IF withScripts THEN sidecar ELSE [s \in Stamps |-> NoBackup]
    /\ lock = Nobody
    /\ take = [t \in Takers |-> Idle]
    /\ process = [up |-> FALSE, since |-> 0, due |-> NoTime, failed |-> FALSE]
    /\ taken = 0 /\ starts = 0
    /\ cut = {} /\ stuck = {} /\ last = [stamp |-> 0, backup |-> NoBackup, newest |-> 0]

-----------------------------------------------------------------------------
(* TakeBackup::take                                                        *)

\* The scripts are read and the store dumped; one that is refused there writes nothing.
Dump(t) ==
    /\ process.up /\ take[t] = Idle /\ taken < MaxBackups
    /\ t = Timer => process.due <= clock
    /\ taken' = taken + 1
    /\ take' = [take EXCEPT ![t] = [at |-> "dumped", backup |-> taken + 1, stamp |-> 0,
                                    since |-> clock, doomed |-> {}, file |-> "sidecar"]]
    /\ process' = IF t = Timer THEN [process EXCEPT !.due = NoTime] ELSE process
    /\ UNCHANGED <<clock, disk, withScripts, lock, starts, cut, stuck, last>>

At(t, from, to) == take[t].at = from /\ take' = [take EXCEPT ![t].at = to]

\* BEFORE the lock: two backups of one second get one name.
TakeStamp(t) ==
    /\ take[t].at = "dumped"
    /\ take' = [take EXCEPT ![t].at = "stamped", ![t].stamp = clock]
    /\ UNCHANGED <<clock, disk, withScripts, lock, process, taken, starts, cut, stuck, last>>

\* Mutant: publication is not serialized.
NoLock(t) ==
    /\ At(t, "stamped", "locked")
    /\ lock' = t
    /\ UNCHANGED <<clock, disk, withScripts, process, taken, starts, cut, stuck, last>>

LockRotation(t) ==
    /\ lock = Nobody /\ lock' = t
    /\ At(t, "stamped", "locked")
    /\ UNCHANGED <<clock, disk, withScripts, process, taken, starts, cut, stuck, last>>

WriteArchive(t) ==
    /\ At(t, "locked", "archived")
    /\ archive' = [archive EXCEPT ![take[t].stamp] = take[t].backup]
    /\ UNCHANGED <<clock, scripts, sidecar, withScripts, lock, process, taken, starts, cut, stuck, last>>

WriteScripts(t) ==
    /\ At(t, "archived", "scripted")
    /\ scripts' = IF withScripts THEN [scripts EXCEPT ![take[t].stamp] = take[t].backup]
                                 ELSE scripts
    /\ UNCHANGED <<clock, archive, sidecar, withScripts, lock, process, taken, starts, cut, stuck, last>>

WriteSidecar(t) ==
    /\ At(t, "scripted", "published")
    /\ sidecar' = [sidecar EXCEPT ![take[t].stamp] = take[t].backup]
    /\ cut' = cut \ {take[t].stamp} /\ stuck' = stuck \ {take[t].stamp}
    /\ last' = [stamp |-> take[t].stamp, backup |-> take[t].backup,
                newest |-> Max({last.newest, take[t].stamp})]
    /\ UNCHANGED <<clock, archive, scripts, withScripts, lock, process, taken, starts>>

Oldest(set, n) == {s \in set : Cardinality({r \in set : r <= s}) <= n}

\* Mutant: the one just taken does not count as one of the `keep`.
DoomedBeside(stamp) ==
    LET others == Archives \ {stamp}
    IN  Oldest(others, IF Cardinality(others) > Keep THEN Cardinality(others) - Keep ELSE 0)

\* prune: all but the newest keep - 1 of the others.
Doomed(stamp) ==
    LET others == Archives \ {stamp}
    IN  Oldest(others, IF Cardinality(others) > Keep - 1
                       THEN Cardinality(others) - (Keep - 1) ELSE 0)

DecidePrune(t) ==
    /\ take[t].at = "published"
    /\ take' = [take EXCEPT ![t].at = "pruning", ![t].doomed = Doomed(take[t].stamp),
                            ![t].file = "sidecar"]
    /\ UNCHANGED <<clock, disk, withScripts, lock, process, taken, starts, cut, stuck, last>>

\* A file that is there is removed, or cannot be; what comes of it is ignored.
Remove(file, s, goes) ==
    /\ goes \/ file[s] # NoBackup
    /\ file' = IF goes THEN [file EXCEPT ![s] = NoBackup] ELSE file

\* Oldest first; of one, the sidecar, then the scripts, then the archive, each whatever became
\* of the one before it.
RemoveNext(t) ==
    /\ take[t].at = "pruning" /\ take[t].doomed # {}
    /\ \E goes \in BOOLEAN :
          LET s == Min(take[t].doomed)
          IN  /\ \/ /\ take[t].file = "sidecar" /\ Remove(sidecar, s, goes)
                    /\ take' = [take EXCEPT ![t].file = "scripts"]
                    /\ UNCHANGED <<archive, scripts>>
                 \/ /\ take[t].file = "scripts" /\ Remove(scripts, s, goes)
                    /\ take' = [take EXCEPT ![t].file = "archive"]
                    /\ UNCHANGED <<archive, sidecar>>
                 \/ /\ take[t].file = "archive" /\ Remove(archive, s, goes)
                    /\ take' = [take EXCEPT ![t].file = "sidecar", ![t].doomed = @ \ {s}]
                    /\ UNCHANGED <<scripts, sidecar>>
              /\ stuck' = IF goes THEN stuck ELSE stuck \cup {s}
    /\ UNCHANGED <<clock, withScripts, lock, process, taken, starts, cut, last>>

\* The lock goes with the file that holds it; the timer arms for its next run.
End(t, failed) ==
    /\ take' = [take EXCEPT ![t] = Idle]
    /\ lock' = IF lock = t THEN Nobody ELSE lock
    /\ process' = IF t = Timer THEN [process EXCEPT !.due = clock + Every, !.failed = failed]
                               ELSE process

Report(t) ==
    /\ take[t].at = "pruning" /\ take[t].doomed = {}
    /\ End(t, FALSE)
    /\ UNCHANGED <<clock, disk, withScripts, taken, starts, cut, stuck, last>>

\* A publication that is cut short after its archive leaves that archive without a sidecar; or,
\* over an earlier backup of the same second, under the sidecar of that one.
CutShort(ts) ==
    cut' = cut \cup {take[t].stamp : t \in {u \in ts : /\ take[u].at \in {"archived", "scripted"}
                                                     /\ sidecar[take[u].stamp] # NoBackup}}

\* A count or a write that fails ends the backup where it is.
Fail(t) ==
    /\ take[t].at \in {"dumped", "stamped", "locked", "archived", "scripted"}
    /\ End(t, TRUE)
    /\ CutShort({t})
    /\ UNCHANGED <<clock, disk, withScripts, taken, starts, stuck, last>>

-----------------------------------------------------------------------------
(* The timer and the process.                                              *)

\* newest_taken_at_ms: what the sidecar of the newest archive says.
NewestTakenAt ==
    IF Archives = {} \/ sidecar[Max(Archives)] = NoBackup THEN NoTime ELSE Max(Archives)

\* first_delay: when the newest comes due, no sooner than CATCH_UP, no later than a cadence.
FirstDelay(now, newest) ==
    IF newest = NoTime THEN CatchUp
    ELSE LET left == IF newest + Every > now THEN newest + Every - now ELSE 0
         IN  Max({CatchUp, Min({left, Every})})

Start ==
    /\ ~process.up /\ starts < MaxStarts /\ starts' = starts + 1
    /\ process' = [up |-> TRUE, since |-> clock, failed |-> FALSE,
                   due |-> clock + FirstDelay(clock, NewestTakenAt)]
    /\ UNCHANGED <<clock, disk, withScripts, lock, take, taken, cut, stuck, last>>

\* The process stops: every backup under way ends where it is, its lock with it.
Stop ==
    /\ process.up
    /\ process' = [process EXCEPT !.up = FALSE, !.due = NoTime]
    /\ take' = [t \in Takers |-> Idle] /\ lock' = Nobody
    /\ CutShort({t \in Takers : take[t] # Idle})
    /\ UNCHANGED <<clock, disk, withScripts, taken, starts, stuck, last>>

Tick ==
    /\ clock < MaxClock /\ clock' = clock + 1
    /\ \A t \in Takers : take[t] # Idle => clock - take[t].since < RunTime
    /\ UNCHANGED <<disk, withScripts, lock, take, process, taken, starts, cut, stuck, last>>

-----------------------------------------------------------------------------
Step(t) ==
    \/ TakeStamp(t) \/ LockRotation(t) \/ WriteArchive(t) \/ WriteScripts(t)
    \/ WriteSidecar(t) \/ DecidePrune(t) \/ RemoveNext(t) \/ Report(t)

Next ==
    \/ \E t \in Takers : Dump(t) \/ Step(t) \/ Fail(t)
    \/ Start \/ Stop \/ Tick

Spec == Init /\ [][Next]_vars

-----------------------------------------------------------------------------
TypeOK ==
    /\ clock \in Stamps
    /\ {archive, scripts, sidecar} \subseteq [Stamps -> 0 .. NoBackup]
    /\ process.due \in 0 .. NoTime /\ process.since \in Stamps
    /\ cut \subseteq Stamps /\ stuck \subseteq Stamps
    /\ \A t \in Takers : take[t] # Idle => take[t].stamp \in Stamps /\ process.up
    /\ \A t \in Takers : take[t].at \in {"locked", "archived", "scripted", "published",
                                         "pruning"} <=> lock = t

\* "A sidecar describing a file that does not exist, which reads as a good backup", is there
\* only where a prune could not remove it, as a stray scripts archive is: neither order of the
\* files, nor a stop between two of them, leaves one.
NoStraySidecar ==
    \A s \in Stamps \ stuck : sidecar[s] # NoBackup \/ scripts[s] # NoBackup => archive[s] # NoBackup

\* Whenever no one publishes, what a sidecar vouches for is its own backup's archive and scripts,
\* even of two backups of one second. There are two exceptions, and no third: a prune that could
\* not remove it, and a second backup of its second that stopped after its own archive, which
\* lies there under the first one's sidecar.
VouchedIsWhole ==
    lock = Nobody => \A s \in Stamps \ (cut \cup stuck) :
        sidecar[s] # NoBackup => /\ archive[s] = sidecar[s]
                                 /\ withScripts => scripts[s] = sidecar[s]

\* The last backup published is on disk with its sidecar, until another is published or takes
\* its name (and stops there, for its archive): no prune, its own or another's, removes it,
\* whatever the clock says.
LastStands ==
    last.backup # NoBackup =>
        \/ /\ sidecar[last.stamp] = last.backup
           /\ archive[last.stamp] = last.backup \/ last.stamp \in cut
        \/ \E t \in Takers : take[t] # Idle /\ take[t].stamp = last.stamp

\* A backup that reports leaves at most `keep` archives, and those that would not go; and a
\* prune never goes below `keep`, whatever would not.
PrunedToKeep ==
    [][/\ \A t \in Takers : Report(t) => Cardinality(Archives \ stuck) <= Keep
       /\ Archives' # Archives => Cardinality(Archives') >= Keep
                                  \/ Cardinality(Archives') > Cardinality(Archives)]_vars

\* ledger #1087: however often the process restarts, the next run is due within a cadence
\* of the newest archive (or of one that a backup of an older stamp has pruned since) and
\* the time a run takes, or a CATCH_UP after the start, when the process started with the
\* clock past every archive and its last run did not fail.
RestartCostsNothing ==
    process.up /\ process.due # NoTime /\ ~process.failed
    /\ (\A s \in Archives : s <= process.since)
    => \/ process.due <= process.since + CatchUp
       \/ Archives # {} /\ process.due <= Max(Archives \cup {last.newest}) + Every + RunTime

=============================================================================
