------------------------------ MODULE MCReads ------------------------------
(* What stands in front of a read, in one run: the findings rows, whose     *)
(* names and constants are the module's own, and beside them browse's       *)
(* cached reads, the parsed files, and the connection to a mounted peer.    *)
(* They share no state, so one of them moves in each behaviour, and the     *)
(* others stay as they began.                                               *)
EXTENDS FindingsMemo, TLC

CONSTANTS
    Browsed, Dirs, NoDir, MaxChanges, MaxEdits,       \* CachedReads: the roots browse reads
    Inodes, Attempts, MaxRewrites,                    \* FileCache: the same two requests
    FirstHold, RetryAfter, ConnectTime, CallTime, MaxLeft, MaxFailures   \* MountedPeer: two callers

VARIABLES
    part,
    disk, changes, config, edits, watches, arrangement, inForce, reload, cuts, cache, reader,
    kept, poll, asked, missed, missedRows,
    path, inodes, coarse, time, writes, editing, entry, lock, get, gets,
    peer, connected, hold, failures, at, issues, mine, left, limit, timer, outcome, quiet

Cached == INSTANCE CachedReads WITH Roots <- Browsed, epochs <- cuts, memo <- kept

File == INSTANCE FileCache
          WITH Readers <- Clients, MaxWrites <- MaxRewrites, asks <- gets

Mount == INSTANCE MountedPeer WITH Retry <- RetryAfter, asks <- issues

ASSUME CachedBounds == Cached!CachedConstants
ASSUME FileBounds == File!FileConstants
ASSUME MountBounds == Mount!MountConstants

cachedVars == <<disk, changes, config, edits, watches, arrangement, inForce, reload, cuts, cache,
                reader, kept, poll, asked, missed, missedRows>>
fileVars == <<path, inodes, coarse, time, writes, editing, entry, lock, get, gets>>
mountVars == <<peer, connected, hold, failures, at, issues, mine, left, limit, timer, outcome,
               quiet>>
partsVars == <<part, cachedVars, vars, fileVars, mountVars>>

PartsInit ==
    /\ part \in {"cached", "rows", "file", "mount"}
    /\ Cached!Init /\ (part # "cached" => config = [r \in Browsed |-> CHOOSE d \in Dirs : TRUE]
                                          /\ asked = "file" /\ cuts = [r \in Browsed |-> 0])
    /\ Init /\ (part # "rows" => epochs = [r \in Roots |-> 0])
    /\ File!Init /\ (part # "file" => path = 0 /\ coarse)
    /\ Mount!Init /\ (part # "mount" => peer = "up")

PartsNext ==
    /\ \/ part = "cached" /\ Cached!Next /\ UNCHANGED <<vars, fileVars, mountVars>>
       \/ part = "rows" /\ Next /\ UNCHANGED <<cachedVars, fileVars, mountVars>>
       \/ part = "file" /\ File!Next /\ UNCHANGED <<cachedVars, vars, mountVars>>
       \/ part = "mount" /\ Mount!Next /\ UNCHANGED <<cachedVars, vars, fileVars>>
    /\ UNCHANGED part

PartsSpec == PartsInit /\ [][PartsNext]_partsVars

-----------------------------------------------------------------------------
(* Each conjunct is stated, with the code's words, in the part's module.   *)

\* The types of the four.
PartsTypeOK == Cached!TypeOK /\ TypeOK /\ File!TypeOK /\ Mount!TypeOK

\* roots.rs and browse.rs: no change to a repository, to its ignore rules or to the
\* configuration outlives, in a cached read or in the rows kept for the root, the cut or the
\* epoch that is under way for it, but for a change whose path the watch was not told, which
\* may outlive all but the next of them; and what is cached is of a root that is watched.
StaleIsDue == Cached!StaleIsDue /\ Cached!CachedIsWatched /\ Cached!MemoIsFreshOrDue

\* queue.rs and file_cache.rs: an answer holds every write that was done before it was asked
\* for, whichever request read it; it is never one's that the asker may not read, nor one
\* torn of two versions, and what is kept under a version is the text of that version.
AnswersAreCurrent ==
    /\ AnswerIsCurrent /\ RefusedIsRefused /\ CounterIsThere
    /\ File!AnswerIsCurrent /\ File!NeverTorn /\ File!KeptIsItsVersion

\* watch.rs and queue.rs: neither an epoch nor the rows kept at one ever go back, so that
\* what was kept before a root left is not served when it is mounted again.
NothingGoesBack == Cached!EpochsOnlyRise /\ MemoNeverGoesBack

\* mount.rs: a burst of first calls costs one handshake, a hold is of a dial that failed,
\* never of a call that was lost, and a peer that is down costs one dial per hold,
\* never one per request.
HoldsAreOfDials ==
    []Mount!OneHandshake /\ []Mount!OnlyFailedDialsHold /\ Mount!OneDialPerHold

\* One finding, in one of two roots.
MCRootOf == [f \in Findings |-> CHOOSE r \in Roots : TRUE]
=============================================================================
