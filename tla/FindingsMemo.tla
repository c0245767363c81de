---------------------------- MODULE FindingsMemo ---------------------------
(***************************************************************************)
(* The findings rows that the Queue page and the header badge share, and   *)
(* the epochs that say when they may have moved: src/src/queue.rs (Reads,  *)
(* read_answers, read_through), src/src/watch.rs (Epochs) and the writes   *)
(* that src/src/browse.rs observes (Touching, StoreWrites).                *)
(*                                                                         *)
(* A write changes a finding and touches the epochs after it; a read takes *)
(* the epoch before it, under the lock of its slot.  A change on the disk  *)
(* that the watch cuts for is a write whose touch is the watch's.          *)
(***************************************************************************)
EXTENDS Naturals, FiniteSets

CONSTANTS
    Clients,     \* requests for rows, served at the same time
    Writers,     \* writes and changes under way at the same time
    Roots, Findings,
    RootOf,      \* where a finding is
    Grants,      \* the scopes a caller may have
    Allowed,     \* those that the findings are readable under
    Nobody,      \* no holder of a lock; no owner learned
    NoCounter,   \* in place of an epoch: the table does not hold the root
    NoRows,      \* in place of rows: none were read
    MaxWrites,   \* bound: writes
    MaxAsks,     \* bound: requests of one client
    MaxTracks    \* bound: re-arrangements of the roots

ASSUME MemoConstants ==
    /\ RootOf \in [Findings -> Roots]
    /\ Nobody \notin Clients /\ Nobody \notin Roots
    /\ NoCounter \notin Nat
    /\ \A fs \in SUBSET Findings : NoRows \notin [fs -> Nat]
    /\ {MaxWrites, MaxAsks, MaxTracks} \subseteq Nat

VARIABLES
    version,   \* of each finding: how often it was written
    epochs,    \* of each root; NoCounter when the table does not hold it
    owners,    \* the root of a finding, once a listing named it
    memo,      \* per slot: the rows and the epoch they were read at
    flight,    \* per slot: who holds its lock
    ask,       \* per client: what it asks for and where that stands
    doing,     \* per writer: what it wrote and has not touched for
    asks, tracks,
    settled    \* history: the version of each finding whose write was touched for

bounds == <<asks, tracks>>
vars == <<version, epochs, owners, memo, flight, ask, doing, bounds, settled>>

Empty == [epoch |-> NoCounter, rows |-> NoRows]
Idle == [at |-> "idle"]
Slots == Roots \X Grants
Of(r) == {f \in Findings : RootOf[f] = r}
Root(c) == ask[c].slot[1]
Grant(c) == ask[c].slot[2]

Init ==
    /\ version = [f \in Findings |-> 0] /\ settled = version
    /\ epochs \in [Roots -> {0, NoCounter}]
    /\ owners = [f \in Findings |-> Nobody]
    /\ memo = [s \in Slots |-> Empty] /\ flight = [s \in Slots |-> Nobody]
    /\ ask = [c \in Clients |-> Idle] /\ doing = [w \in Writers |-> Idle]
    /\ asks = [c \in Clients |-> 0] /\ tracks = 0

-----------------------------------------------------------------------------
(* read_answers and read_through, for one root.                            *)

Answered(c, with) == ask' = [ask EXCEPT ![c].at = "answered", ![c].rows = with]

Ask(c, s) ==
    /\ ask[c].at \in {"idle", "answered"} /\ asks[c] < MaxAsks
    /\ ask' = [ask EXCEPT ![c] = [at |-> "asked", slot |-> s, stamp |-> NoCounter,
                                  rows |-> NoRows, asOf |-> settled]]
    /\ asks' = [asks EXCEPT ![c] = @ + 1]
    /\ UNCHANGED <<version, epochs, owners, memo, flight, doing, tracks, settled>>

\* First look: the root's epoch, and then the memo at it; a root with no counter is
\* read, as is what the memo does not hold.
Look(c) ==
    /\ ask[c].at = "asked"
    /\ ask' = [ask EXCEPT ![c].at = IF epochs[Root(c)] = NoCounter THEN "missing" ELSE "looked",
                          ![c].stamp = epochs[Root(c)]]
    /\ UNCHANGED <<version, epochs, owners, memo, flight, doing, bounds, settled>>

\* What the slot holds, when it was read at the epoch taken.
Held(c) == IF memo[ask[c].slot].epoch = ask[c].stamp /\ ask[c].stamp # NoCounter
           THEN memo[ask[c].slot].rows ELSE NoRows

HitOrMiss(c) ==
    /\ ask[c].at = "looked"
    /\ IF Held(c) # NoRows THEN Answered(c, Held(c))
                           ELSE ask' = [ask EXCEPT ![c].at = "missing"]
    /\ UNCHANGED <<version, epochs, owners, memo, flight, doing, bounds, settled>>

\* A root with no counter is read and not kept; of the others, one read of a slot at a time.
Enter(c) ==
    /\ ask[c].at = "missing"
    /\ IF epochs[Root(c)] = NoCounter
       THEN /\ ask' = [ask EXCEPT ![c].at = "reading", ![c].stamp = NoCounter]
            /\ UNCHANGED flight
       ELSE /\ flight[ask[c].slot] = Nobody
            /\ flight' = [flight EXCEPT ![ask[c].slot] = c]
            /\ ask' = [ask EXCEPT ![c].at = "locked", ![c].stamp = NoCounter]
    /\ UNCHANGED <<version, epochs, owners, memo, doing, bounds, settled>>

\* The epoch is taken BEFORE the read.
Stamp(c) ==
    /\ ask[c].at = "locked"
    /\ ask' = [ask EXCEPT ![c].at = "stamped", ![c].stamp = epochs[Root(c)]]
    /\ UNCHANGED <<version, epochs, owners, memo, flight, doing, bounds, settled>>

Release(c) == flight' = [s \in Slots |-> IF flight[s] = c THEN Nobody ELSE flight[s]]

\* The read another request was making may have answered this one.
HitAgain(c) ==
    /\ ask[c].at = "stamped"
    /\ IF Held(c) # NoRows THEN Answered(c, Held(c)) /\ Release(c)
                           ELSE /\ ask' = [ask EXCEPT ![c].at = "reading"]
                                /\ UNCHANGED flight
    /\ UNCHANGED <<version, epochs, owners, memo, doing, bounds, settled>>

\* The hub answers under the caller's own scopes.
Read(c) ==
    /\ ask[c].at = "reading" /\ Grant(c) \in Allowed
    /\ ask' = [ask EXCEPT ![c].at = "read",
                          ![c].rows = [f \in Of(Root(c)) |-> version[f]]]
    /\ UNCHANGED <<version, epochs, owners, memo, flight, doing, bounds, settled>>

\* A refused or failed read is never kept.
Refused(c) ==
    /\ ask[c].at = "reading"
    /\ Answered(c, NoRows) /\ Release(c)
    /\ UNCHANGED <<version, epochs, owners, memo, doing, bounds, settled>>

\* A listing teaches the table whose the findings are.
Learn(c) ==
    /\ ask[c].at = "read"
    /\ IF ask[c].stamp = NoCounter
       THEN Answered(c, ask[c].rows) /\ UNCHANGED owners
       ELSE /\ ask' = [ask EXCEPT ![c].at = "learned"]
            /\ owners' = [f \in Findings |-> IF f \in Of(Root(c)) THEN Root(c) ELSE owners[f]]
    /\ UNCHANGED <<version, epochs, memo, flight, doing, bounds, settled>>

\* Mutant: the rows are kept at the epoch found after the read.
KeepAtNow(c) ==
    /\ ask[c].at = "learned"
    /\ memo' = [memo EXCEPT ![ask[c].slot] = [epoch |-> epochs[Root(c)], rows |-> ask[c].rows]]
    /\ Answered(c, ask[c].rows) /\ Release(c)
    /\ UNCHANGED <<version, epochs, owners, doing, bounds, settled>>

Keep(c) ==
    /\ ask[c].at = "learned"
    /\ memo' = [memo EXCEPT ![ask[c].slot] = [epoch |-> ask[c].stamp, rows |-> ask[c].rows]]
    /\ Answered(c, ask[c].rows) /\ Release(c)
    /\ UNCHANGED <<version, epochs, owners, doing, bounds, settled>>

-----------------------------------------------------------------------------
(* Writes, and the epochs.                                                 *)

Written == {p \in Findings \X (1 .. MaxWrites) : p[2] <= version[p[1]]}

\* A write through the family or the store's door, a change on the disk: touch_for's
\* cases, the finding's own name, a root, or nothing that says where.
Write(w, f, names) ==
    /\ doing[w] = Idle /\ Cardinality(Written) < MaxWrites
    /\ version' = [version EXCEPT ![f] = @ + 1]
    /\ doing' = [doing EXCEPT ![w] = [at |-> IF names = "finding" THEN "written" ELSE "found",
                                      finding |-> f, version |-> version[f] + 1,
                                      touches |-> IF names = "root" THEN {RootOf[f]} ELSE Roots]]
    /\ UNCHANGED <<epochs, owners, memo, flight, ask, bounds, settled>>

\* touch_finding: its root when the table has seen it, every root when not.
OwnerOrAll(f) == IF owners[f] = Nobody THEN Roots ELSE {owners[f]}

FindOwner(w) ==
    /\ doing[w].at = "written"
    /\ doing' = [doing EXCEPT ![w].at = "found", ![w].touches = OwnerOrAll(doing[w].finding)]
    /\ UNCHANGED <<version, epochs, owners, memo, flight, ask, bounds, settled>>

\* AFTER the write ran, whether it was refused or not.
Touch(w) ==
    /\ doing[w].at = "found"
    /\ epochs' = [r \in Roots |-> IF r \in doing[w].touches /\ epochs[r] # NoCounter
                                  THEN epochs[r] + 1 ELSE epochs[r]]
    /\ settled' = [settled EXCEPT ![doing[w].finding] =
                       IF doing[w].version > @ THEN doing[w].version ELSE @]
    /\ doing' = [doing EXCEPT ![w] = Idle]
    /\ UNCHANGED <<version, owners, memo, flight, ask, bounds>>

\* Epochs::track: every counter there is moves and none is taken away.
Track(rs) ==
    epochs' = [r \in Roots |-> IF epochs[r] # NoCounter THEN epochs[r] + 1
                               ELSE IF r \in rs THEN 0 ELSE NoCounter]

Rearrange(rs) ==
    /\ tracks < MaxTracks /\ tracks' = tracks + 1
    /\ Track(rs)
    /\ UNCHANGED <<version, owners, memo, flight, ask, doing, asks, settled>>

-----------------------------------------------------------------------------
Serve(c) ==
    \/ Look(c) \/ HitOrMiss(c) \/ Enter(c) \/ Stamp(c) \/ HitAgain(c)
    \/ Read(c) \/ Refused(c) \/ Learn(c) \/ Keep(c)

Next ==
    \/ \E c \in Clients : Serve(c) \/ \E s \in Slots : Ask(c, s)
    \/ \E w \in Writers : \/ FindOwner(w) \/ Touch(w)
                          \/ \E f \in Findings, names \in {"finding", "root", "all"} :
                                Write(w, f, names)
    \/ \E rs \in SUBSET Roots : Rearrange(rs)

Spec == Init /\ [][Next]_vars

-----------------------------------------------------------------------------
TypeOK ==
    /\ {version, settled} \subseteq [Findings -> Nat]
    /\ epochs \in [Roots -> Nat \cup {NoCounter}]
    /\ owners \in [Findings -> Roots \cup {Nobody}]
    /\ \A s \in Slots : memo[s] # Empty =>
          memo[s].epoch \in Nat /\ memo[s].rows \in [Of(s[1]) -> Nat]
    /\ \A c \in Clients : ask[c] # Idle =>
         /\ ask[c].at \in {"asked", "looked", "missing", "locked", "stamped", "reading",
                           "read", "learned", "answered"}
         /\ ask[c].slot \in Slots /\ ask[c].stamp \in Nat \cup {NoCounter}
    /\ \A s \in Slots : flight[s] # Nobody =>
          /\ ask[flight[s]].at \in {"locked", "stamped", "reading", "read", "learned"}
          /\ ask[flight[s]].slot = s

\* The Queue's and the badge's promise: an answer holds every write that was done,
\* touch and all, before it was asked for, whoever read it first and whatever was
\* written, learned or re-arranged meanwhile.
AnswerIsCurrent ==
    \A c \in Clients :
        ask[c].at = "answered" /\ ask[c].rows # NoRows
        => \A f \in Of(Root(c)) : ask[c].rows[f] >= ask[c].asOf[f]

\* A root one caller may read and another may not never answers the second from the
\* first's read.
RefusedIsRefused ==
    \A c \in Clients : ask[c].at = "answered" /\ ask[c].rows # NoRows => Grant(c) \in Allowed

\* read_through expects the counter it looked for before it waited for the lock.
CounterIsThere == \A c \in Clients : ask[c].at = "locked" => epochs[Root(c)] # NoCounter

\* One read per slot at a time: a listing never replaces one read after it.
MemoNeverGoesBack ==
    [][\A s \in Slots : memo[s] # Empty =>
          \A f \in Of(s[1]) : memo'[s].rows[f] >= memo[s].rows[f]]_vars

=============================================================================
