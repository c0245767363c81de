--------------------------- MODULE PasskeysProofs ---------------------------
(***************************************************************************)
(* What holds of the session table for any passkeys, tokens, requests,     *)
(* lifetimes and bounds, and of the ceremonies for any challenges, invites *)
(* and grants, of which Passkeys.cfg checks small instances.  A site v is  *)
(* a server with its requests, lifetimes and bounds: what is shown of the  *)
(* sessions is shown of every v, and then of the two that MCPasskeys has.  *)
(***************************************************************************)
EXTENDS MCPasskeys, Sequences, FiniteSetTheorems, TLAPS

-----------------------------------------------------------------------------
(* Sessions, in the table or in the file.                                  *)

\* A function of tokens out of a pool, within the bound.
SessionsOf(v, T, pool) ==
    /\ T = [t \in DOMAIN T |-> T[t]] /\ DOMAIN T \subseteq pool
    /\ \A t \in DOMAIN T : T[t] \in Site(v)!SessionType
    /\ IsFiniteSet(DOMAIN T) /\ Cardinality(DOMAIN T) <= v.sessions

\* A session that a line named has such a line still to be read.
Due(T, seen) ==
    /\ seen \in 0..Len(log)
    /\ \A t \in DOMAIN T \intersect named : \E i \in seen + 1..Len(log) : log[i] = T[t].cred

\* When each was last seen is no later than it was used, and not much earlier.
Recent(T, lastUse, fails) ==
    \A t \in DOMAIN T :
        /\ T[t].last_seen <= lastUse[t]
        /\ fails = 0 => lastUse[t] < T[t].last_seen + SeenWrite

\* What the file and the table agree on when nothing is owed.
Clean ==
    up /\ ~dirty => /\ DOMAIN file.sessions = DOMAIN table
                    /\ file.there => file.seen = logSeen

\* Of a session in both, T tells whose it is and, until a save fails, what the file holds.
Kept(T, fails) ==
    \A t \in DOMAIN T \intersect DOMAIN file.sessions :
        /\ T[t].cred = file.sessions[t].cred
        /\ fails = 0 => T[t].stored_seen = file.sessions[t].last_seen

Stored ==
    /\ \A t \in DOMAIN file.sessions : file.sessions[t].stored_seen = file.sessions[t].last_seen
    /\ Kept(table, failures)

Decided == [at : {"decided"}, cred : Creds, now : Nat, overtaken : BOOLEAN]
Opening == [at : {"opening"}, cred : Creds, now : Nat, expires : Nat, overtaken : BOOLEAN]
Found == [at : {"found", "enrolled", "resolved"}, op : {"page", "logout-all"}, token : Tokens,
          now : Nat, cred : Creds, issued : Nat, expires : Nat]
Leaving == [at : {"unenrolled", "ending"}, cred : Creds]

RequestsOK(v) ==
    /\ req \in [v.requests ->
                  {Site(v)!Idle} \union Decided \union Opening \union Found \union Leaving]
    /\ ~up => \A r \in v.requests : req[r] = Site(v)!Idle

WorldOK ==
    /\ clock \in Nat /\ up \in BOOLEAN
    /\ enrolled \subseteq Creds /\ revoking \subseteq Creds
    /\ grant \in [Creds -> {"read", "write", "none"}]
    /\ log \in Seq(Creds)
    /\ opened \subseteq Tokens /\ named \subseteq opened
    /\ ended \subseteq opened /\ written \subseteq opened
    /\ used \in [Tokens -> Nat]
    /\ {edits, starts, failures} \subseteq Nat

TableOK(v) ==
    /\ dirty \in BOOLEAN
    /\ SessionsOf(v, table, opened) /\ Due(table, logSeen) /\ Recent(table, used, failures)
    /\ ~up => table = <<>> /\ logSeen = 0 /\ dirty = FALSE /\ ended = {}

FileOK(v) ==
    /\ file = [there |-> file.there, seen |-> file.seen, sessions |-> file.sessions]
    /\ file.there \in BOOLEAN /\ (~file.there => file.sessions = <<>>)
    /\ SessionsOf(v, file.sessions, opened) /\ Due(file.sessions, file.seen)
    /\ Recent(file.sessions, used, failures)

SessionsInv(v) ==
    /\ WorldOK /\ RequestsOK(v) /\ TableOK(v) /\ FileOK(v) /\ Clean /\ Stored
    /\ Site(v)!NothingEndedComesBack

LEMMA Nothing ==
    ASSUME NEW v, Site(v)!SessionConstants
    PROVE  /\ DOMAIN <<>> = {}
           /\ \A pool : SessionsOf(v, <<>>, pool)
           /\ \A lastUse, fails : Recent(<<>>, lastUse, fails)
<1>1. DOMAIN <<>> = {} /\ <<>> = [t \in DOMAIN <<>> |-> <<>>[t]]
  OBVIOUS
<1>2. IsFiniteSet(DOMAIN <<>>) /\ Cardinality(DOMAIN <<>>) <= v.sessions
  BY <1>1, FS_EmptySet DEF Site!SessionConstants
<1>3. QED
  BY <1>1, <1>2 DEF SessionsOf, Recent

LEMMA SiteCounts == \A v, S : Site(v)!Cardinality(S) = Cardinality(S)
BY Zenon DEF Site!Cardinality, Cardinality

LEMMA Implied ==
    ASSUME NEW v, Site(v)!SessionConstants, SessionsInv(v)
    PROVE  /\ Site(v)!TypeOK /\ Site(v)!NothingEndedComesBack /\ Site(v)!NamedIsEndedOnceRead
           /\ Site(v)!CleanFileIsTheTable
<1>1. Site(v)!TypeOK
  <2>1. Len(log) \in Nat
    BY DEF SessionsInv, WorldOK
  <2>2. QED
    BY <2>1, SiteCounts DEF SessionsInv, WorldOK, TableOK, FileOK, SessionsOf, Due, Site!TypeOK
<1>2. Site(v)!NamedIsEndedOnceRead
  <2>1. Len(log) \in Nat
    BY DEF SessionsInv, WorldOK
  <2>2. \A T, seen : Due(T, seen) => \A t \in named \intersect DOMAIN T : seen < Len(log)
    BY <2>1 DEF Due
  <2>3. QED
    BY <2>2 DEF SessionsInv, TableOK, FileOK, Site!NamedIsEndedOnceRead
<1>3. Site(v)!CleanFileIsTheTable
  BY DEF SessionsInv, TableOK, Clean, Recent, Site!CleanFileIsTheTable
<1>4. QED
  BY <1>1, <1>2, <1>3 DEF SessionsInv

-----------------------------------------------------------------------------
(* The helpers.                                                            *)

\* What a read of the log gets to, and whom it names.
LEMMA ReadLog ==
    ASSUME NEW v, Site(v)!SessionConstants, log \in Seq(Creds), NEW seen \in 0..Len(log)
    PROVE  /\ Site(v)!ReadTo(seen) \in seen..Len(log)
           /\ Site(v)!Named(seen) = {log[i] : i \in seen + 1..Site(v)!ReadTo(seen)}
           /\ Site(v)!ReadTo(seen) = seen => Site(v)!Named(seen) = {}
<1>1. Len(log) \in Nat /\ ReadMax \in Nat /\ Site(v)!ReadFrom(seen) = seen
  BY DEF Site!SessionConstants, Site!ReadFrom
<1>2. Site(v)!ReadTo(seen) \in seen..Len(log)
  BY <1>1 DEF Site!ReadTo, Site!Least
<1>3. Site(v)!Named(seen) = {log[i] : i \in seen + 1..Site(v)!ReadTo(seen)}
  BY <1>1 DEF Site!Named
<1>4. QED
  BY <1>1, <1>2, <1>3

\* W is what is left of T once those of S are out.
Leaves(v, T, S, W, pool) ==
    /\ SessionsOf(v, W, pool) /\ DOMAIN W = DOMAIN T \ S /\ \A t \in DOMAIN W : W[t] = T[t]
    /\ \A seen : Due(T, seen) => Due(W, seen)
    /\ \A lastUse, fails : Recent(T, lastUse, fails) => Recent(W, lastUse, fails)

\* Sessions taken out leave the others as they were.
LEMMA Taken ==
    ASSUME NEW v, Site(v)!SessionConstants, NEW T, NEW S, NEW pool, SessionsOf(v, T, pool)
    PROVE  Leaves(v, T, S, Site(v)!Without(T, S), pool)
<1> DEFINE W == Site(v)!Without(T, S)
<1>1. /\ DOMAIN W = DOMAIN T \ S /\ \A t \in DOMAIN W : W[t] = T[t]
      /\ W = [t \in DOMAIN W |-> W[t]]
  BY DEF Site!Without
<1>2. IsFiniteSet(DOMAIN W) /\ Cardinality(DOMAIN W) <= Cardinality(DOMAIN T)
        /\ Cardinality(DOMAIN W) \in Nat /\ Cardinality(DOMAIN T) \in Nat
  <2> HIDE DEF W
  <2>1. DOMAIN W \subseteq DOMAIN T /\ IsFiniteSet(DOMAIN T)
    BY <1>1 DEF SessionsOf
  <2>2. QED
    BY <2>1, FS_Subset, FS_CardinalityType
<1>3. SessionsOf(v, W, pool)
  <2> HIDE DEF W
  <2>1. v.sessions \in Nat /\ Cardinality(DOMAIN T) <= v.sessions
    BY DEF Site!SessionConstants, SessionsOf
  <2>2. Cardinality(DOMAIN W) <= v.sessions
    BY <1>2, <2>1
  <2>3. DOMAIN W \subseteq pool /\ \A t \in DOMAIN W : W[t] \in Site(v)!SessionType
    BY <1>1 DEF SessionsOf
  <2>4. QED
    BY <1>1, <1>2, <2>2, <2>3 DEF SessionsOf
<1>4. \A seen : Due(T, seen) => Due(W, seen)
  <2> HIDE DEF W
  <2> QED
    BY <1>1 DEF Due
<1>5. \A lastUse, fails : Recent(T, lastUse, fails) => Recent(W, lastUse, fails)
  <2> HIDE DEF W
  <2> QED
    BY <1>1 DEF Recent
<1>6. QED
  BY <1>1, <1>3, <1>4, <1>5 DEF Leaves

\* W is what is left of T once the log has been read.
ReadOn(v, T, seen, W, pool) ==
    /\ SessionsOf(v, W, pool) /\ DOMAIN W \subseteq DOMAIN T
    /\ \A t \in DOMAIN W : W[t] = T[t]
    /\ Due(W, Site(v)!ReadTo(seen))
    /\ Site(v)!ReadTo(seen) = seen => DOMAIN W = DOMAIN T
    /\ \A lastUse, fails : Recent(T, lastUse, fails) => Recent(W, lastUse, fails)

\* Whoever the log has named by now is out; whoever is left and was named has a line to come.
LEMMA Logged ==
    ASSUME NEW v, Site(v)!SessionConstants, log \in Seq(Creds),
           NEW T, NEW pool, SessionsOf(v, T, pool), NEW seen, Due(T, seen)
    PROVE  ReadOn(v, T, seen, Site(v)!AfterLog(T, seen), pool)
<1> DEFINE W == Site(v)!AfterLog(T, seen)
           S == Site(v)!Of(T, Site(v)!Named(seen))
<1>1. W = Site(v)!Without(T, S)
  BY DEF Site!AfterLog
<1>2. /\ SessionsOf(v, W, pool) /\ DOMAIN W = DOMAIN T \ S /\ \A t \in DOMAIN W : W[t] = T[t]
      /\ Due(W, seen)
      /\ \A lastUse, fails : Recent(T, lastUse, fails) => Recent(W, lastUse, fails)
  <2> HIDE DEF S
  <2> HIDE DEF W
  <2>1. Leaves(v, T, S, W, pool)
    BY <1>1, Taken
  <2>2. QED
    BY <2>1 DEF Leaves
<1>3. seen \in 0..Len(log) /\ Len(log) \in Nat
  BY DEF Due
<1>4. /\ Site(v)!ReadTo(seen) \in seen..Len(log)
      /\ Site(v)!Named(seen) = {log[i] : i \in seen + 1..Site(v)!ReadTo(seen)}
      /\ Site(v)!ReadTo(seen) = seen => Site(v)!Named(seen) = {}
  BY <1>3, ReadLog
<1>5. \A t \in DOMAIN W : T[t].cred \notin Site(v)!Named(seen)
  BY <1>2 DEF Site!Of
<1>6. Due(W, Site(v)!ReadTo(seen))
  <2> SUFFICES ASSUME NEW t \in DOMAIN W \intersect named
               PROVE  \E i \in Site(v)!ReadTo(seen) + 1..Len(log) : log[i] = W[t].cred
    BY <1>3, <1>4 DEF Due
  <2>1. PICK i \in seen + 1..Len(log) : log[i] = T[t].cred
    BY <1>2 DEF Due
  <2>2. i \notin seen + 1..Site(v)!ReadTo(seen)
    BY <1>4, <1>5, <2>1
  <2>3. i \in Site(v)!ReadTo(seen) + 1..Len(log)
    BY <1>3, <1>4, <2>1, <2>2
  <2>4. QED
    BY <1>2, <2>1, <2>3
<1>7. Site(v)!ReadTo(seen) = seen => DOMAIN W = DOMAIN T
  BY <1>2, <1>4 DEF Site!Of
<1>8. QED
  BY <1>2, <1>6, <1>7 DEF ReadOn

-----------------------------------------------------------------------------
(* A save.                                                                 *)

\* What an operation made of memory, when it comes to save it.
Ready(v, T, seen, changed) ==
    /\ SessionsOf(v, T, opened') /\ Due(T, seen) /\ Recent(T, used', failures) /\ Kept(T, failures)
    /\ (ended \union written) \intersect DOMAIN T = {}
    /\ used' \in [Tokens -> Nat] /\ \A t \in opened : used[t] <= used'[t]
    /\ ~changed => used' = used
    /\ ~changed /\ ~dirty => /\ DOMAIN T = DOMAIN file.sessions
                             /\ file.there => file.seen = seen

\* What memory and the file are to each other after a save.
SavedOK(v) ==
    /\ TableOK(v) /\ FileOK(v) /\ Clean /\ Stored /\ Site(v)!NothingEndedComesBack
    /\ ended \subseteq opened /\ written \subseteq opened /\ failures \in Nat

\* The sessions as they are written down.
StoredAs(T) == [t \in DOMAIN T |-> [T[t] EXCEPT !.stored_seen = T[t].last_seen]]

LEMMA Written ==
    ASSUME NEW v, Site(v)!SessionConstants, NEW T, NEW pool, SessionsOf(v, T, pool)
    PROVE  /\ SessionsOf(v, StoredAs(T), pool) /\ DOMAIN StoredAs(T) = DOMAIN T
           /\ \A t \in DOMAIN T : /\ StoredAs(T)[t].cred = T[t].cred
                                  /\ StoredAs(T)[t].last_seen = T[t].last_seen
                                  /\ StoredAs(T)[t].stored_seen = T[t].last_seen
           /\ \A seen : Due(T, seen) => Due(StoredAs(T), seen)
           /\ \A lastUse, fails : Recent(T, lastUse, fails) => Recent(StoredAs(T), lastUse, fails)
<1> DEFINE W == StoredAs(T)
<1>1. DOMAIN W = DOMAIN T /\ W = [t \in DOMAIN W |-> W[t]]
  BY DEF StoredAs
<1>2. \A t \in DOMAIN T : W[t] \in Site(v)!SessionType /\ W[t].cred = T[t].cred
                          /\ W[t].last_seen = T[t].last_seen /\ W[t].stored_seen = T[t].last_seen
  BY DEF StoredAs, SessionsOf, Site!SessionType
<1> HIDE DEF W
<1>3. SessionsOf(v, W, pool)
  BY <1>1, <1>2 DEF SessionsOf
<1>4. \A seen : Due(T, seen) => Due(W, seen)
  BY <1>1, <1>2 DEF Due
<1>5. \A lastUse, fails : Recent(T, lastUse, fails) => Recent(W, lastUse, fails)
  BY <1>1, <1>2 DEF Recent
<1>6. QED
  BY <1>1, <1>2, <1>3, <1>4, <1>5 DEF W

LEMMA Saved ==
    ASSUME NEW v, Site(v)!SessionConstants, SessionsInv(v), NEW T, NEW seen,
           NEW changed \in BOOLEAN,
           Ready(v, T, seen, changed), Site(v)!Save(T, seen, changed), up',
           opened \subseteq opened', UNCHANGED <<log, named>>
    PROVE  SavedOK(v)'
<1> DEFINE stored == StoredAs(T)
<1>1. /\ SessionsOf(v, T, opened') /\ Due(T, seen) /\ Recent(T, used', failures)
      /\ (ended \union written) \intersect DOMAIN T = {} /\ Kept(T, failures)
      /\ failures \in Nat
      /\ logSeen' = seen
      /\ ended \subseteq opened' /\ written \subseteq opened'
      /\ ended' = ended \union (opened \ DOMAIN T)
  BY DEF Ready, Site!Save, SessionsInv, WorldOK
<1>2. \A X, n : Due(X, n) => Due(X, n)'
  BY DEF Due
<1>3. /\ FileOK(v) /\ Clean /\ Stored /\ Site(v)!NothingEndedComesBack
      /\ SessionsOf(v, file.sessions, opened) /\ Due(file.sessions, file.seen)
      /\ Recent(file.sessions, used, failures)
  BY DEF SessionsInv, FileOK
<1>4. SessionsOf(v, file.sessions, opened')
  BY <1>3 DEF SessionsOf
<1>5. \A t \in DOMAIN file.sessions :
          /\ used[t] <= used'[t] /\ used[t] \in Nat /\ used'[t] \in Nat
          /\ file.sessions[t].last_seen \in Nat
  <2> SUFFICES ASSUME NEW t \in DOMAIN file.sessions
               PROVE  /\ used[t] <= used'[t] /\ used[t] \in Nat /\ used'[t] \in Nat
                      /\ file.sessions[t].last_seen \in Nat
    OBVIOUS
  <2>1. t \in opened /\ t \in Tokens
    BY <1>3 DEF SessionsOf, SessionsInv, WorldOK
  <2>2. used[t] <= used'[t] /\ used[t] \in Nat /\ used'[t] \in Nat
    BY <2>1 DEF SessionsInv, WorldOK, Ready
  <2>3. file.sessions[t].last_seen \in Nat
    BY <1>3 DEF SessionsOf, Site!SessionType
  <2>4. QED
    BY <2>2, <2>3
<1>6. CASE UNCHANGED file /\ table' = T /\ dirty' = FALSE /\ ~changed /\ ~dirty
           /\ written' = written \union (opened \ DOMAIN T) /\ UNCHANGED failures
  <2>1. DOMAIN T = DOMAIN file.sessions /\ (file.there => file.seen = seen) /\ used' = used
    BY <1>6 DEF Ready
  <2>2. TableOK(v)'
    BY <1>1, <1>2, <1>6 DEF TableOK
  <2>3. FileOK(v)'
    BY <1>2, <1>3, <1>4, <1>6, <2>1 DEF FileOK
  <2>4. Clean' /\ Site(v)!NothingEndedComesBack'
    BY <1>1, <1>6, <2>1 DEF Clean, Site!NothingEndedComesBack
  <2>5. Stored'
    BY <1>1, <1>3, <1>6 DEF Stored, Kept
  <2>6. QED
    BY <1>1, <1>6, <2>2, <2>3, <2>4, <2>5 DEF SavedOK
<1>7. CASE UNCHANGED file /\ table' = T /\ dirty' = TRUE /\ failures' = failures + 1
           /\ UNCHANGED written
  <2>1. failures' # 0 /\ failures' \in Nat
    BY <1>1, <1>7
  <2>2. TableOK(v)'
    <3>1. Recent(T, used', failures')
      BY <1>1, <2>1 DEF Recent
    <3>2. QED
      BY <1>1, <1>2, <1>7, <3>1 DEF TableOK
  <2>3. FileOK(v)'
    <3>1. Recent(file.sessions, used', failures')
      <4> SUFFICES ASSUME NEW t \in DOMAIN file.sessions
                   PROVE  file.sessions[t].last_seen <= used'[t]
        BY <2>1 DEF Recent
      <4>1. file.sessions[t].last_seen <= used[t]
        BY <1>3 DEF Recent
      <4>2. QED
        BY <1>5, <4>1
    <3>2. QED
      BY <1>2, <1>3, <1>4, <1>7, <3>1 DEF FileOK
  <2>4. Clean' /\ Site(v)!NothingEndedComesBack'
    BY <1>1, <1>3, <1>7 DEF Clean, Site!NothingEndedComesBack
  <2>5. Stored'
    BY <1>1, <1>3, <1>7, <2>1 DEF Stored, Kept
  <2>6. QED
    BY <1>1, <1>7, <2>1, <2>2, <2>3, <2>4, <2>5 DEF SavedOK
<1>8. CASE /\ table' = stored /\ dirty' = FALSE
           /\ file' = [there |-> TRUE, seen |-> seen, sessions |-> stored]
           /\ written' = written \union (opened \ DOMAIN T) /\ UNCHANGED failures
  <2>1. /\ SessionsOf(v, stored, opened') /\ DOMAIN stored = DOMAIN T
        /\ \A t \in DOMAIN T : /\ stored[t].cred = T[t].cred
                               /\ stored[t].last_seen = T[t].last_seen
                               /\ stored[t].stored_seen = T[t].last_seen
        /\ Due(stored, seen) /\ Recent(stored, used', failures)
    <3> HIDE DEF stored
    <3>1. \A X : X = StoredAs(T) => X = stored
      BY DEF stored
    <3>2. /\ SessionsOf(v, StoredAs(T), opened') /\ DOMAIN StoredAs(T) = DOMAIN T
          /\ \A t \in DOMAIN T : /\ StoredAs(T)[t].cred = T[t].cred
                                 /\ StoredAs(T)[t].last_seen = T[t].last_seen
                                 /\ StoredAs(T)[t].stored_seen = T[t].last_seen
          /\ Due(StoredAs(T), seen)
          /\ Recent(StoredAs(T), used', failures)
      BY <1>1, Written
    <3>3. QED
      BY <3>1, <3>2
  <2> HIDE DEF stored
  <2>2. file'.there = TRUE /\ file'.seen = seen /\ file'.sessions = stored
    BY <1>8
  <2>3. TableOK(v)'
    BY <1>1, <1>2, <1>8, <2>1 DEF TableOK
  <2>4. FileOK(v)'
    BY <1>1, <1>2, <1>8, <2>1, <2>2 DEF FileOK
  <2>5. Clean'
    BY <1>1, <1>8, <2>2 DEF Clean
  <2>6. Stored'
    BY <1>8, <2>1, <2>2 DEF Stored, Kept
  <2>7. Site(v)!NothingEndedComesBack'
    BY <1>1, <1>8, <2>1, <2>2 DEF Site!NothingEndedComesBack
  <2>8. QED
    BY <1>1, <1>8, <2>3, <2>4, <2>5, <2>6, <2>7 DEF SavedOK
<1>9. QED
  BY <1>6, <1>7, <1>8 DEF Site!Save, StoredAs

\* Part of the table, as it is or shorter, saved by the running server.
LEMMA PartSaved ==
    ASSUME NEW v, Site(v)!SessionConstants, SessionsInv(v), NEW T, NEW seen,
           NEW changed \in BOOLEAN,
           SessionsOf(v, T, opened), Due(T, seen), DOMAIN T \subseteq DOMAIN table,
           \A t \in DOMAIN T : T[t] = table[t],
           ~changed => DOMAIN T = DOMAIN table /\ seen = logSeen,
           Site(v)!Save(T, seen, changed), up, UNCHANGED <<up, log, named, used, opened>>
    PROVE  SavedOK(v)'
<1>1. Recent(T, used, failures) /\ Kept(T, failures)
  BY DEF SessionsInv, TableOK, Stored, Recent, Kept
<1>2. (ended \union written) \intersect DOMAIN T = {}
  BY DEF SessionsInv, Site!NothingEndedComesBack
<1>3. used \in [Tokens -> Nat] /\ \A t \in opened : used[t] <= used[t]
  BY DEF SessionsInv, WorldOK
<1>4. ~changed /\ ~dirty => DOMAIN T = DOMAIN file.sessions /\ (file.there => file.seen = seen)
  BY DEF SessionsInv, Clean
<1>5. Ready(v, T, seen, changed)
  BY <1>1, <1>2, <1>3, <1>4 DEF Ready
<1>6. QED
  BY <1>5, Saved

\* A step that leaves memory, the file and the log alone.
LEMMA Untouched ==
    ASSUME NEW v, Site(v)!SessionConstants, SessionsInv(v),
           UNCHANGED <<up, log, Site(v)!memory, file, opened, ended, written, failures, named,
                       used>>
    PROVE  SavedOK(v)'
<1>1. \A X, n : Due(X, n) => Due(X, n)'
  BY DEF Due
<1>2. TableOK(v)' /\ FileOK(v)'
  BY <1>1 DEF SessionsInv, TableOK, FileOK, Site!memory
<1>3. Clean' /\ Stored' /\ Site(v)!NothingEndedComesBack'
  BY DEF SessionsInv, Clean, Stored, Kept, Site!NothingEndedComesBack, Site!memory
<1>4. QED
  BY <1>2, <1>3 DEF SavedOK, SessionsInv, WorldOK

Asks(v) == {Site(v)!Idle} \union Decided \union Opening \union Found \union Leaving

\* What a request holds at each of its steps.
LEMMA Asked ==
    ASSUME NEW v, Site(v)!SessionConstants, SessionsInv(v), NEW r \in v.requests
    PROVE  /\ req[r].at = "decided" => req[r] \in Decided
           /\ req[r].at = "opening" => req[r] \in Opening
           /\ req[r].at \in {"found", "enrolled", "resolved"} => req[r] \in Found
           /\ req[r].at \in {"unenrolled", "ending"} => req[r] \in Leaving
           /\ req[r].at # "idle" => up
  BY DEF SessionsInv, RequestsOK, Site!Idle, Decided, Opening, Found, Leaving

\* One request moves, while the server runs.
LEMMA Moved ==
    ASSUME NEW v, Site(v)!SessionConstants, SessionsInv(v), up', NEW r \in v.requests,
           NEW q \in Asks(v), req' = [req EXCEPT ![r] = q]
    PROVE  RequestsOK(v)'
  BY DEF SessionsInv, RequestsOK, Asks

-----------------------------------------------------------------------------
(* The command line and the operator.                                      *)

LEMMA RevokeKeeps ==
    ASSUME NEW v, Site(v)!SessionConstants, SessionsInv(v), NEW c \in Creds, Site(v)!Revoke(c)
    PROVE  SessionsInv(v)'
<1>1. SavedOK(v)'
  BY Untouched DEF Site!Revoke, Site!memory, Site!bounds, Site!history
<1>2. WorldOK'
  BY DEF Site!Revoke, Site!Edited, SessionsInv, WorldOK, Site!history
<1>3. RequestsOK(v)'
  <2>1. \A r \in v.requests :
           req'[r] \in Asks(v) /\ (req[r] = Site(v)!Idle => req'[r] = Site(v)!Idle)
    <3> SUFFICES ASSUME NEW r \in v.requests
                 PROVE  req'[r] \in Asks(v) /\ (req[r] = Site(v)!Idle => req'[r] = Site(v)!Idle)
      OBVIOUS
    <3>1. CASE req[r].at \in {"decided", "opening"} /\ req[r].cred = c
      <4>1. req'[r] = [req[r] EXCEPT !.overtaken = TRUE] /\ req[r] # Site(v)!Idle
        BY <3>1 DEF Site!Revoke, Site!Idle
      <4>2. req[r] \in Decided \union Opening
        BY <3>1, Asked
      <4>3. req'[r] \in Decided \union Opening
        BY <4>1, <4>2 DEF Decided, Opening
      <4>4. QED
        BY <4>1, <4>3 DEF Asks
    <3>2. CASE ~(req[r].at \in {"decided", "opening"} /\ req[r].cred = c)
      BY <3>2 DEF Site!Revoke, SessionsInv, RequestsOK, Asks
    <3>3. QED
      BY <3>1, <3>2
  <2>2. req' = [r \in v.requests |-> req'[r]] /\ up' = up
    BY DEF Site!Revoke
  <2>3. QED
    BY <2>1, <2>2 DEF RequestsOK, Asks, SessionsInv
<1>4. QED
  BY <1>1, <1>2, <1>3 DEF SavedOK, SessionsInv

\* A line is due for every session there is of the passkey it names.
LEMMA LineKeeps ==
    ASSUME NEW v, Site(v)!SessionConstants, SessionsInv(v), NEW c \in Creds, Site(v)!Line(c)
    PROVE  SessionsInv(v)'
<1>1. log \in Seq(Creds) /\ log' = Append(log, c) /\ Len(log') = Len(log) + 1 /\ Len(log) \in Nat
      /\ \A i \in 1..Len(log) : log'[i] = log[i] /\ log'[Len(log) + 1] = c
      /\ log' \in Seq(Creds)
  BY DEF SessionsInv, WorldOK, Site!Line
<1>2. log'[Len(log) + 1] = c
  BY <1>1
<1>3. named' = named \union Site(v)!Of(table, {c}) \union Site(v)!Of(file.sessions, {c})
  BY DEF Site!Line
<1>4. ASSUME NEW T, NEW seen, Due(T, seen),
             \A t \in DOMAIN T \intersect named' : t \in named \/ T[t].cred = c
      PROVE  Due(T, seen)'
  <2>1. seen \in 0..Len(log')
    BY <1>1, <1>4 DEF Due
  <2>2. ASSUME NEW t \in DOMAIN T \intersect named'
        PROVE  \E i \in seen + 1..Len(log') : log'[i] = T[t].cred
    <3>1. CASE t \in named
      BY <1>1, <1>4, <3>1 DEF Due
    <3>2. CASE T[t].cred = c
      <4>1. Len(log) + 1 \in seen + 1..Len(log')
        BY <1>1, <1>4 DEF Due
      <4>2. QED
        BY <1>2, <3>2, <4>1
    <3>3. QED
      BY <1>4, <2>2, <3>1, <3>2
  <2>3. QED
    BY <2>1, <2>2 DEF Due
<1>5. Due(table, logSeen)'
  <2>1. \A t \in DOMAIN table \intersect named' : t \in named \/ table[t].cred = c
    BY <1>3 DEF Site!Of, SessionsInv, Stored, Kept
  <2>2. Due(table, logSeen) /\ table' = table /\ logSeen' = logSeen
    BY DEF SessionsInv, TableOK, Site!Line, Site!memory
  <2>3. QED
    BY <1>4, <2>1, <2>2
<1>6. Due(file.sessions, file.seen)'
  <2>1. \A t \in DOMAIN file.sessions \intersect named' : t \in named \/ file.sessions[t].cred = c
    BY <1>3 DEF Site!Of, SessionsInv, Stored, Kept
  <2>2. Due(file.sessions, file.seen) /\ file' = file
    BY DEF SessionsInv, FileOK, Site!Line
  <2>3. QED
    BY <1>4, <2>1, <2>2
<1>7. TableOK(v)' /\ FileOK(v)'
  BY <1>5, <1>6 DEF SessionsInv, TableOK, FileOK, Site!Line, Site!memory, Site!bounds
<1>8. Clean' /\ Stored' /\ Site(v)!NothingEndedComesBack' /\ RequestsOK(v)'
  BY DEF SessionsInv, Clean, Stored, Kept, Site!NothingEndedComesBack, RequestsOK, Site!Line,
         Site!memory, Site!bounds
<1>9. WorldOK'
  <2>1. named' \subseteq opened
    BY <1>3 DEF Site!Of, SessionsInv, WorldOK, TableOK, FileOK, SessionsOf
  <2>2. UNCHANGED <<clock, up, enrolled, grant, opened, ended, written, used, Site(v)!bounds>>
        /\ revoking' = revoking \ {c}
    BY DEF Site!Line
  <2>3. QED
    BY <1>1, <2>1, <2>2 DEF SessionsInv, WorldOK, Site!bounds
<1>10. QED
  BY <1>7, <1>8, <1>9 DEF SessionsInv

LEMMA OutsideKeeps ==
    ASSUME NEW v, Site(v)!SessionConstants, SessionsInv(v),
           \/ Site(v)!Tick
           \/ \E c \in Creds : Site(v)!LineLost(c) \/ Site(v)!Enrol(c) \/ Site(v)!Regrant(c)
    PROVE  SessionsInv(v)'
<1>1. UNCHANGED <<up, log, Site(v)!memory, file, opened, ended, written, failures, named, used,
                  req>>
  BY DEF Site!Tick, Site!LineLost, Site!Enrol, Site!Regrant, Site!bounds, Site!history,
         Site!authority
<1>2. SavedOK(v)'
  BY <1>1, Untouched
<1>3. RequestsOK(v)'
  BY <1>1 DEF SessionsInv, RequestsOK
<1>4. WorldOK'
  <2>1. CASE Site(v)!Tick
    BY <2>1 DEF Site!Tick, Site!bounds, Site!history, Site!authority, SessionsInv, WorldOK
  <2>2. CASE \E c \in Creds : Site(v)!LineLost(c)
    BY <2>2 DEF Site!LineLost, Site!bounds, Site!history, SessionsInv, WorldOK
  <2>3. CASE \E c \in Creds : Site(v)!Enrol(c)
    BY <2>3 DEF Site!Enrol, Site!Edited, Site!history, SessionsInv, WorldOK
  <2>4. CASE \E c \in Creds : Site(v)!Regrant(c)
    BY <2>4 DEF Site!Regrant, Site!Edited, Site!history, SessionsInv, WorldOK
  <2>5. QED
    BY <2>1, <2>2, <2>3, <2>4
<1>5. QED
  BY <1>2, <1>3, <1>4 DEF SavedOK, SessionsInv

-----------------------------------------------------------------------------
(* Start and stop.                                                         *)

\* What a start reads is the file's, less what expired and what the log names meanwhile.
LEMMA StartKeeps ==
    ASSUME NEW v, Site(v)!SessionConstants, SessionsInv(v), Site(v)!Start
    PROVE  SessionsInv(v)'
<1> DEFINE kept == {t \in DOMAIN file.sessions : file.sessions[t].expires > clock}
           seen == IF file.there THEN file.seen ELSE Len(log)
           T == [t \in kept |-> file.sessions[t]]
           read == Site(v)!AfterLog(T, seen)
           changed == kept # DOMAIN file.sessions \/ Site(v)!ReadTo(seen) # seen
<1>1. /\ Site(v)!Save(read, Site(v)!ReadTo(seen), changed)
      /\ ~up /\ up' = TRUE /\ starts' = starts + 1
      /\ UNCHANGED <<clock, enrolled, grant, revoking, log, req, opened, edits, named, used>>
  BY DEF Site!Start, Site!authority
<1>2. /\ FileOK(v) /\ WorldOK /\ Clean /\ Stored /\ Site(v)!NothingEndedComesBack
      /\ SessionsOf(v, file.sessions, opened) /\ log \in Seq(Creds) /\ Len(log) \in Nat
      /\ Recent(file.sessions, used, failures)
  BY DEF SessionsInv, FileOK, WorldOK
<1>3. Due(file.sessions, seen)
  BY <1>2, Nothing DEF FileOK, Due
<1>4. T = Site(v)!Without(file.sessions, DOMAIN file.sessions \ kept)
  BY DEF Site!Without
<1>5. /\ SessionsOf(v, T, opened) /\ DOMAIN T = kept /\ \A t \in kept : T[t] = file.sessions[t]
      /\ Due(T, seen) /\ Recent(T, used, failures)
  <2> HIDE DEF kept, T, seen
  <2>1. DOMAIN file.sessions \ (DOMAIN file.sessions \ kept) = kept
    BY DEF kept
  <2> DEFINE S == DOMAIN file.sessions \ kept
  <2>2. Leaves(v, file.sessions, S, T, opened)
    <3> HIDE DEF S
    <3>1. T = Site(v)!Without(file.sessions, S)
      BY <1>4 DEF S
    <3>2. QED
      BY <1>2, <3>1, Taken
  <2>3. QED
    BY <1>2, <1>3, <2>1, <2>2 DEF Leaves
<1>6. /\ SessionsOf(v, read, opened) /\ DOMAIN read \subseteq DOMAIN T
      /\ \A t \in DOMAIN read : read[t] = T[t]
      /\ Due(read, Site(v)!ReadTo(seen)) /\ (Site(v)!ReadTo(seen) = seen => DOMAIN read = DOMAIN T)
      /\ Recent(read, used, failures)
  <2> HIDE DEF T, seen, kept
  <2> QED
    BY <1>2, <1>5, Logged DEF ReadOn
<1> HIDE DEF T, read
<1>7. Kept(read, failures) /\ (ended \union written) \intersect DOMAIN read = {}
  <2>1. ended = {}
    BY <1>1 DEF SessionsInv, TableOK
  <2>2. QED
    BY <1>2, <1>5, <1>6, <2>1 DEF Kept, Stored, Site!NothingEndedComesBack
<1>8. used \in [Tokens -> Nat] /\ \A t \in opened : used[t] <= used[t]
  BY <1>2 DEF WorldOK
<1>9. ~changed => /\ DOMAIN read = DOMAIN file.sessions
                  /\ file.there => file.seen = Site(v)!ReadTo(seen)
  BY <1>5, <1>6
<1> HIDE DEF seen, changed
<1>10. Ready(v, read, Site(v)!ReadTo(seen), changed)
  BY <1>1, <1>6, <1>7, <1>8, <1>9 DEF Ready
<1>11. changed \in BOOLEAN
  BY DEF changed
<1>12. SavedOK(v)'
  BY <1>1, <1>10, <1>11, Saved
<1>13. WorldOK'
  BY <1>1, <1>2, <1>12 DEF WorldOK, SavedOK
<1>14. RequestsOK(v)'
  BY <1>1 DEF SessionsInv, RequestsOK
<1>15. QED
  BY <1>12, <1>13, <1>14 DEF SavedOK, SessionsInv

LEMMA StopKeeps ==
    ASSUME NEW v, Site(v)!SessionConstants, SessionsInv(v), Site(v)!Stop
    PROVE  SessionsInv(v)'
<1>1. \A X, n : Due(X, n) => Due(X, n)'
  BY DEF Due, Site!Stop, Site!authority, Site!history
<1>2. FileOK(v)'
  BY <1>1 DEF SessionsInv, FileOK, Site!Stop, Site!bounds, Site!history
<1>3. TableOK(v)'
  <2>1. Due(<<>>, 0)
    BY Nothing DEF SessionsInv, WorldOK, Due
  <2>2. QED
    BY <1>1, <2>1, Nothing DEF TableOK, Site!Stop
<1>4. Clean' /\ Stored' /\ Site(v)!NothingEndedComesBack'
  BY Nothing DEF SessionsInv, Clean, Stored, Kept, Site!NothingEndedComesBack, Site!Stop,
                 Site!history
<1>5. WorldOK' /\ RequestsOK(v)'
  BY DEF SessionsInv, WorldOK, RequestsOK, Site!Stop, Site!authority, Site!bounds, Site!history
<1>6. QED
  BY <1>2, <1>3, <1>4, <1>5 DEF SessionsInv

-----------------------------------------------------------------------------
(* The requests.                                                           *)

\* A request that leaves memory alone and moves on, or ends.
LEMMA Quiet ==
    ASSUME NEW v, Site(v)!SessionConstants, SessionsInv(v), NEW r \in v.requests,
           NEW q \in Asks(v), req' = [req EXCEPT ![r] = q], up,
           UNCHANGED <<clock, Site(v)!authority, up, Site(v)!memory, file, opened, Site(v)!bounds, Site(v)!history>>
    PROVE  SessionsInv(v)'
<1>1. SavedOK(v)'
  BY Untouched DEF Site!authority, Site!bounds, Site!history
<1>2. RequestsOK(v)'
  BY Moved
<1>3. WorldOK'
  BY DEF SessionsInv, WorldOK, Site!authority, Site!bounds, Site!history
<1>4. QED
  BY <1>1, <1>2, <1>3 DEF SavedOK, SessionsInv

\* A request that saves, and then moves on or ends.
LEMMA Busy ==
    ASSUME NEW v, Site(v)!SessionConstants, SessionsInv(v), NEW r \in v.requests,
           NEW q \in Asks(v), req' = [req EXCEPT ![r] = q], up,
           UNCHANGED <<clock, Site(v)!authority, up, opened, edits, starts, named, used>>, SavedOK(v)'
    PROVE  SessionsInv(v)'
<1>1. RequestsOK(v)'
  BY Moved
<1>2. WorldOK'
  BY DEF SessionsInv, WorldOK, SavedOK, Site!authority
<1>3. QED
  BY <1>1, <1>2 DEF SavedOK, SessionsInv

LEMMA DecideKeeps ==
    ASSUME NEW v, Site(v)!SessionConstants, SessionsInv(v), NEW r \in v.requests,
           NEW c \in Creds, Site(v)!Decide(r, c)
    PROVE  SessionsInv(v)'
<1> DEFINE q == [at |-> "decided", cred |-> c, now |-> clock, overtaken |-> FALSE]
<1>1. q \in Asks(v)
  BY DEF Asks, Decided, SessionsInv, WorldOK
<1>2. QED
  BY <1>1, Quiet DEF Site!Decide

LEMMA LifetimeIsNat ==
    ASSUME NEW v, Site(v)!SessionConstants
    PROVE  \A kind : Site(v)!Lifetime(kind) \in Nat
  BY DEF Site!SessionConstants, Site!Lifetime, Site!Least

LEMMA GrantKeeps ==
    ASSUME NEW v, Site(v)!SessionConstants, SessionsInv(v), NEW r \in v.requests,
           Site(v)!Grant(r)
    PROVE  SessionsInv(v)'
<1>1. req[r] \in Decided /\ up
  BY Asked DEF Site!Grant
<1> DEFINE q == [at |-> "opening", cred |-> req[r].cred, now |-> req[r].now,
                 expires |-> req[r].now + Site(v)!Lifetime(grant[req[r].cred]),
                 overtaken |-> req[r].overtaken]
<1>2. q \in Asks(v) /\ Site(v)!Idle \in Asks(v)
  BY <1>1, LifetimeIsNat DEF Asks, Decided, Opening
<1>3. req \in [v.requests -> Asks(v)]
  BY DEF SessionsInv, RequestsOK, Asks
<1>4. req' = [req EXCEPT ![r] = q] \/ req' = [req EXCEPT ![r] = Site(v)!Idle]
  BY <1>3 DEF Site!Grant, Site!Done
<1>5. QED
  BY <1>1, <1>2, <1>4, Quiet DEF Site!Grant

LEMMA ReadClientsKeeps ==
    ASSUME NEW v, Site(v)!SessionConstants, SessionsInv(v), NEW r \in v.requests,
           Site(v)!ReadClients(r)
    PROVE  SessionsInv(v)'
<1>1. req[r] \in Found /\ up
  BY Asked DEF Site!ReadClients
<1> DEFINE stays == [req[r] EXCEPT !.at = "enrolled"]
           goes == [at |-> "unenrolled", cred |-> req[r].cred]
<1>2. stays \in Asks(v) /\ goes \in Asks(v) /\ Site(v)!Idle \in Asks(v)
  BY <1>1 DEF Asks, Found, Leaving
<1>3. req \in [v.requests -> Asks(v)]
  BY DEF SessionsInv, RequestsOK, Asks
<1>4. PICK q \in {stays, goes, Site(v)!Idle} : req' = [req EXCEPT ![r] = q]
  BY <1>3 DEF Site!ReadClients, Site!Done
<1>5. QED
  BY <1>1, <1>2, <1>4, Quiet DEF Site!ReadClients

LEMMA ReadGrantsKeeps ==
    ASSUME NEW v, Site(v)!SessionConstants, SessionsInv(v), NEW r \in v.requests,
           Site(v)!ReadGrants(r)
    PROVE  SessionsInv(v)'
<1>1. req[r] \in Found /\ up
  BY Asked DEF Site!ReadGrants
<1> DEFINE bound == Site(v)!Least(req[r].expires,
                                  req[r].issued + Site(v)!Lifetime(grant[req[r].cred]))
           q == [[req[r] EXCEPT !.at = "resolved"] EXCEPT !.expires = bound]
<1>2. bound \in Nat
  BY <1>1, LifetimeIsNat DEF Found, Site!Least
<1>3. q \in Asks(v) /\ Site(v)!Idle \in Asks(v)
  BY <1>1, <1>2 DEF Asks, Found
<1>4. req \in [v.requests -> Asks(v)]
  BY DEF SessionsInv, RequestsOK, Asks
<1>5. req' = [req EXCEPT ![r] = q] \/ req' = [req EXCEPT ![r] = Site(v)!Idle]
  BY <1>1, <1>4 DEF Site!ReadGrants, Site!Done, Found
<1>6. QED
  BY <1>1, <1>3, <1>5, Quiet DEF Site!ReadGrants

\* The sessions the mutex-held operations leave of the table.
LEMMA TableLess ==
    ASSUME NEW v, Site(v)!SessionConstants, SessionsInv(v), NEW S
    PROVE  /\ SessionsOf(v, Site(v)!Without(table, S), opened)
           /\ Due(Site(v)!Without(table, S), logSeen)
           /\ DOMAIN Site(v)!Without(table, S) = DOMAIN table \ S
           /\ \A t \in DOMAIN Site(v)!Without(table, S) : Site(v)!Without(table, S)[t] = table[t]
<1>1. SessionsOf(v, table, opened) /\ Due(table, logSeen)
  BY DEF SessionsInv, TableOK
<1>2. Leaves(v, table, S, Site(v)!Without(table, S), opened)
  BY <1>1, Taken
<1>3. QED
  BY <1>1, <1>2 DEF Leaves

LEMMA TableRead ==
    ASSUME NEW v, Site(v)!SessionConstants, SessionsInv(v)
    PROVE  /\ SessionsOf(v, Site(v)!AfterLog(table, logSeen), opened)
           /\ Due(Site(v)!AfterLog(table, logSeen), Site(v)!ReadTo(logSeen))
           /\ DOMAIN Site(v)!AfterLog(table, logSeen) \subseteq DOMAIN table
           /\ \A t \in DOMAIN Site(v)!AfterLog(table, logSeen) :
                  Site(v)!AfterLog(table, logSeen)[t] = table[t]
           /\ Site(v)!ReadTo(logSeen) = logSeen =>
                  DOMAIN Site(v)!AfterLog(table, logSeen) = DOMAIN table
<1>1. SessionsOf(v, table, opened) /\ Due(table, logSeen) /\ log \in Seq(Creds)
  BY DEF SessionsInv, TableOK, WorldOK
<1>2. ReadOn(v, table, logSeen, Site(v)!AfterLog(table, logSeen), opened)
  BY <1>1, Logged
<1>3. QED
  BY <1>2 DEF ReadOn

\* Without() of any sessions, its changes told, is saved as it should.
LEMMA Ends ==
    ASSUME NEW v, Site(v)!SessionConstants, SessionsInv(v), NEW S, NEW changed \in BOOLEAN,
           S \intersect DOMAIN table # {} => changed,
           Site(v)!Save(Site(v)!Without(table, S), logSeen, changed), up,
           UNCHANGED <<up, log, named, used, opened>>
    PROVE  SavedOK(v)'
<1> DEFINE T == Site(v)!Without(table, S)
<1>1. /\ SessionsOf(v, T, opened) /\ Due(T, logSeen) /\ DOMAIN T = DOMAIN table \ S
      /\ \A t \in DOMAIN T : T[t] = table[t]
  BY TableLess
<1> HIDE DEF T
<1>2. ~changed => DOMAIN T = DOMAIN table
  BY <1>1
<1>3. Site(v)!Save(T, logSeen, changed)
  BY DEF T
<1>4. QED
  BY <1>1, <1>2, <1>3, PartSaved

LEMMA EndsTheirs ==
    ASSUME NEW v, Site(v)!SessionConstants, SessionsInv(v), NEW r \in v.requests,
           Site(v)!EndUnenrolled(r) \/ Site(v)!EndAll(r)
    PROVE  SessionsInv(v)'
<1> DEFINE theirs == Site(v)!Of(table, {req[r].cred})
<1>1. /\ Site(v)!Save(Site(v)!Without(table, theirs), logSeen, theirs # {})
      /\ req' = [req EXCEPT ![r] = Site(v)!Idle] /\ up
      /\ UNCHANGED <<clock, Site(v)!authority, up, opened, edits, starts, named, used>>
  BY Asked DEF Site!EndUnenrolled, Site!EndAll, Site!Done
<1>2. theirs \intersect DOMAIN table # {} => theirs # {}
  OBVIOUS
<1> HIDE DEF theirs
<1>3. SavedOK(v)'
  BY <1>1, <1>2, Ends DEF Site!authority
<1>4. QED
  BY <1>1, <1>3, Busy DEF Asks

LEMMA LogoutKeeps ==
    ASSUME NEW v, Site(v)!SessionConstants, SessionsInv(v), NEW t \in Tokens, Site(v)!Logout(t)
    PROVE  SessionsInv(v)'
<1> DEFINE S == {t}
           changed == t \in DOMAIN table
<1>1. /\ Site(v)!Save(Site(v)!Without(table, S), logSeen, changed) /\ up
      /\ UNCHANGED <<clock, Site(v)!authority, up, req, opened, edits, starts, named, used>>
  BY DEF Site!Logout
<1>2. changed \in BOOLEAN /\ (S \intersect DOMAIN table # {} => changed)
  OBVIOUS
<1> HIDE DEF S, changed
<1>3. SavedOK(v)'
  BY <1>1, <1>2, Ends DEF Site!authority
<1>4. WorldOK' /\ RequestsOK(v)'
  BY <1>1, <1>3 DEF SessionsInv, WorldOK, RequestsOK, SavedOK, Site!authority
<1>5. QED
  BY <1>3, <1>4 DEF SavedOK, SessionsInv

LEMMA LookKeeps ==
    ASSUME NEW v, Site(v)!SessionConstants, SessionsInv(v), NEW r \in v.requests,
           NEW t \in Tokens, NEW op \in {"page", "logout-all"},
           Site(v)!Look(r, t, op)
    PROVE  SessionsInv(v)'
<1> DEFINE read == Site(v)!AfterLog(table, logSeen)
           seen == Site(v)!ReadTo(logSeen)
           q == [at |-> "found", op |-> op, token |-> t, now |-> clock, cred |-> read[t].cred,
                 issued |-> read[t].issued, expires |-> read[t].expires]
<1>1. /\ up /\ UNCHANGED <<clock, Site(v)!authority, up, opened, edits, starts, named, used>>
      /\ \/ Site(v)!Save(read, seen, seen # logSeen) /\ req' = [req EXCEPT ![r] = Site(v)!Idle]
         \/ /\ Site(v)!Save(Site(v)!Without(read, {t}), seen, TRUE)
            /\ req' = [req EXCEPT ![r] = Site(v)!Idle]
         \/ /\ t \in DOMAIN read /\ Site(v)!Save(read, seen, seen # logSeen)
            /\ req' = [req EXCEPT ![r] = q]
  BY DEF Site!Look, Site!Done
<1>2. /\ SessionsOf(v, read, opened) /\ Due(read, seen) /\ DOMAIN read \subseteq DOMAIN table
      /\ \A u \in DOMAIN read : read[u] = table[u]
      /\ seen = logSeen => DOMAIN read = DOMAIN table
  BY TableRead
<1>3. t \in DOMAIN read => q \in Asks(v)
  BY <1>2 DEF SessionsOf, Site!SessionType, Asks, Found, SessionsInv, WorldOK
<1>4. /\ SessionsOf(v, Site(v)!Without(read, {t}), opened) /\ Due(Site(v)!Without(read, {t}), seen)
      /\ DOMAIN Site(v)!Without(read, {t}) \subseteq DOMAIN table
      /\ \A u \in DOMAIN Site(v)!Without(read, {t}) : Site(v)!Without(read, {t})[u] = table[u]
  <2> HIDE DEF read, seen
  <2>1. Leaves(v, read, {t}, Site(v)!Without(read, {t}), opened)
    BY <1>2, Taken
  <2>2. QED
    BY <1>2, <2>1 DEF Leaves
<1> HIDE DEF read, seen, q
<1>5. SavedOK(v)'
  <2>1. CASE Site(v)!Save(read, seen, seen # logSeen)
    BY <1>1, <1>2, <2>1, PartSaved DEF Site!authority
  <2>2. CASE Site(v)!Save(Site(v)!Without(read, {t}), seen, TRUE)
    <3> DEFINE T == Site(v)!Without(read, {t})
    <3> HIDE DEF T
    <3>1. Site(v)!Save(T, seen, TRUE)
      BY <2>2 DEF T
    <3>2. QED
      BY <1>1, <1>4, <3>1, PartSaved DEF Site!authority, T
  <2>3. QED
    BY <1>1, <2>1, <2>2
<1>6. PICK a \in Asks(v) : req' = [req EXCEPT ![r] = a]
  BY <1>1, <1>3 DEF Asks
<1>7. QED
  BY <1>1, <1>5, <1>6, Busy

\* What the bound leaves room for.
LEMMA OneMore ==
    ASSUME NEW v, Site(v)!SessionConstants, NEW T, NEW pool, SessionsOf(v, T, pool),
           ~Site(v)!Full(T), NEW t, NEW s \in Site(v)!SessionType
    PROVE  SessionsOf(v, [u \in DOMAIN T \union {t} |-> IF u = t THEN s ELSE T[u]], pool \union {t})
<1> DEFINE D == DOMAIN T \union {t}
           W == [u \in D |-> IF u = t THEN s ELSE T[u]]
<1>1. IsFiniteSet(DOMAIN T) /\ Cardinality(DOMAIN T) \in Nat /\ v.sessions \in Nat
      /\ Cardinality(DOMAIN T) < v.sessions
  <2>1. IsFiniteSet(DOMAIN T)
    BY DEF SessionsOf
  <2>2. Cardinality(DOMAIN T) \in Nat
    BY <2>1, FS_CardinalityType
  <2>3. QED
    BY <2>1, <2>2, SiteCounts DEF Site!SessionConstants, Site!Full
<1>2. IsFiniteSet(D) /\ Cardinality(D) <= Cardinality(DOMAIN T) + 1 /\ Cardinality(D) \in Nat
  <2>1. IsFiniteSet(D) /\ (Cardinality(D) = Cardinality(DOMAIN T)
                            \/ Cardinality(D) = Cardinality(DOMAIN T) + 1)
    BY <1>1, FS_AddElement
  <2>2. QED
    BY <1>1, <2>1
<1>3. Cardinality(D) <= v.sessions
  BY <1>1, <1>2
<1>4. DOMAIN W = D /\ W = [u \in DOMAIN W |-> W[u]] /\ \A u \in D : W[u] \in Site(v)!SessionType
  BY DEF SessionsOf
<1>5. D \subseteq pool \union {t}
  BY DEF SessionsOf
<1> HIDE DEF W
<1>6. SessionsOf(v, W, pool \union {t})
  BY <1>2, <1>3, <1>4, <1>5 DEF SessionsOf
<1>7. QED
  BY <1>6 DEF W

\* A token is minted once, so what is new is in no file and has ended nowhere.
LEMMA OpenKeeps ==
    ASSUME NEW v, Site(v)!SessionConstants, SessionsInv(v), NEW r \in v.requests,
           NEW t \in Tokens, Site(v)!Open(r, t)
    PROVE  SessionsInv(v)'
<1> DEFINE q == req[r]
           read == Site(v)!AfterLog(table, logSeen)
           seen == Site(v)!ReadTo(logSeen)
           over == {u \in DOMAIN read : Site(v)!Over(read[u], q.now)}
           live == Site(v)!Without(read, over)
           more == [u \in DOMAIN live \union {t} |->
                       IF u = t THEN Site(v)!NewSession(q) ELSE live[u]]
           fewer == DOMAIN live # DOMAIN read \/ seen # logSeen
<1>1. /\ q \in Opening /\ up /\ t \notin opened /\ req' = [req EXCEPT ![r] = Site(v)!Idle]
      /\ UNCHANGED <<clock, Site(v)!authority, up, edits, starts, named>>
  BY Asked DEF Site!Open, Site!Done
<1>2. /\ SessionsOf(v, read, opened) /\ Due(read, seen) /\ DOMAIN read \subseteq DOMAIN table
      /\ \A u \in DOMAIN read : read[u] = table[u]
      /\ seen = logSeen => DOMAIN read = DOMAIN table
  BY TableRead
<1>3. /\ SessionsOf(v, live, opened) /\ Due(live, seen) /\ DOMAIN live \subseteq DOMAIN table
      /\ \A u \in DOMAIN live : live[u] = table[u]
  <2> HIDE DEF read, seen, over
  <2>1. Leaves(v, read, over, Site(v)!Without(read, over), opened)
    BY <1>2, Taken
  <2>2. QED
    BY <1>2, <2>1 DEF Leaves
<1>4. fewer \in BOOLEAN /\ (~fewer => DOMAIN live = DOMAIN table /\ seen = logSeen)
  BY <1>2
<1>5. /\ Site(v)!NewSession(q) \in Site(v)!SessionType /\ q.now \in Nat
      /\ Site(v)!NewSession(q).last_seen = q.now
  BY <1>1 DEF Opening, Site!NewSession, Site!SessionType
<1>6. \/ Site(v)!Full(live) /\ Site(v)!Save(live, seen, fewer) /\ UNCHANGED <<opened, used>>
      \/ /\ ~Site(v)!Full(live) /\ Site(v)!Save(more, seen, TRUE)
         /\ opened' = opened \union {t} /\ used' = [used EXCEPT ![t] = q.now]
  BY DEF Site!Open
<1> HIDE DEF q, read, seen, over, live, fewer
<1>7. CASE Site(v)!Full(live) /\ Site(v)!Save(live, seen, fewer) /\ UNCHANGED <<opened, used>>
  <2>1. SavedOK(v)'
    BY <1>1, <1>3, <1>4, <1>7, PartSaved DEF Site!authority
  <2>2. QED
    BY <1>1, <1>7, <2>1, Busy DEF Asks
<1>8. CASE /\ ~Site(v)!Full(live) /\ Site(v)!Save(more, seen, TRUE)
           /\ opened' = opened \union {t} /\ used' = [used EXCEPT ![t] = q.now]
  <2>1. SessionsOf(v, more, opened')
    BY <1>3, <1>5, <1>8, OneMore
  <2>2. /\ DOMAIN more = DOMAIN live \union {t}
        /\ \A u \in DOMAIN live : u # t /\ more[u] = table[u]
        /\ more[t] = Site(v)!NewSession(q)
    BY <1>1, <1>3 DEF SessionsOf
  <2>3. /\ t \notin named /\ t \notin ended /\ t \notin written /\ t \notin DOMAIN file.sessions
        /\ used \in [Tokens -> Nat] /\ opened \subseteq Tokens
        /\ (ended \union written) \intersect DOMAIN table = {}
    BY <1>1 DEF SessionsInv, WorldOK, FileOK, SessionsOf, Site!NothingEndedComesBack
  <2> HIDE DEF more
  <2>4. Due(more, seen)
    BY <1>3, <2>2, <2>3 DEF Due
  <2>5. Recent(more, used', failures)
    <3> SUFFICES ASSUME NEW u \in DOMAIN more
                 PROVE  /\ more[u].last_seen <= used'[u]
                        /\ failures = 0 => used'[u] < more[u].last_seen + SeenWrite
      BY DEF Recent
    <3>1. CASE u = t
      <4>1. used'[u] = q.now /\ more[u].last_seen = q.now /\ q.now \in Nat
              /\ SeenWrite \in Nat \ {0}
        BY <1>5, <1>8, <2>2, <2>3, <3>1 DEF Site!SessionConstants
      <4>2. QED
        BY <4>1
    <3>2. CASE u # t
      <4>1. u \in DOMAIN table /\ more[u] = table[u] /\ used'[u] = used[u]
        BY <1>3, <1>8, <2>2, <2>3, <3>2
      <4>2. QED
        BY <4>1 DEF SessionsInv, TableOK, Recent
    <3>3. QED
      BY <3>1, <3>2
  <2>6. Kept(more, failures)
    BY <1>3, <2>2, <2>3 DEF Kept, SessionsInv, Stored
  <2>7. (ended \union written) \intersect DOMAIN more = {}
    BY <1>3, <2>2, <2>3
  <2>8. /\ used' \in [Tokens -> Nat] /\ \A u \in opened : used[u] <= used'[u]
        /\ opened \subseteq opened' /\ opened' \subseteq Tokens
    <3>1. used' \in [Tokens -> Nat] /\ \A u \in opened : used'[u] = used[u] /\ used[u] \in Nat
      BY <1>1, <1>5, <1>8, <2>3
    <3>2. QED
      BY <1>8, <2>3, <3>1
  <2>9. Ready(v, more, seen, TRUE)
    BY <2>1, <2>4, <2>5, <2>6, <2>7, <2>8 DEF Ready
  <2>10. SavedOK(v)'
    BY <1>1, <1>8, <2>8, <2>9, Saved DEF Site!authority
  <2>11. WorldOK'
    BY <1>1, <2>8, <2>10 DEF SessionsInv, WorldOK, SavedOK, Site!authority
  <2>12. RequestsOK(v)'
    BY <1>1, Moved DEF Asks
  <2>13. QED
    BY <2>10, <2>11, <2>12 DEF SavedOK, SessionsInv
<1>9. QED
  BY <1>6, <1>7, <1>8

\* A request's commit: what the file is told of last_seen late, it is told within SeenWrite.
LEMMA CommitKeeps ==
    ASSUME NEW v, Site(v)!SessionConstants, SessionsInv(v), NEW r \in v.requests,
           Site(v)!Commit(r)
    PROVE  SessionsInv(v)'
<1> DEFINE q == req[r]
           tok == q.token
           s == table[tok]
           at == IF s.last_seen >= q.now THEN s.last_seen ELSE q.now
           T == [table EXCEPT ![tok].last_seen = at]
           lastUse == [used EXCEPT ![tok] = IF @ >= q.now THEN @ ELSE q.now]
           ending == [at |-> "ending", cred |-> q.cred]
<1>1. /\ q \in Found /\ up
      /\ UNCHANGED <<clock, Site(v)!authority, up, opened, edits, starts, named>>
  BY Asked DEF Site!Commit
<1>2. /\ WorldOK /\ SessionsOf(v, table, opened) /\ Due(table, logSeen) /\ Kept(table, failures)
      /\ Recent(table, used, failures) /\ FileOK(v) /\ Clean /\ Stored
      /\ Site(v)!NothingEndedComesBack
      /\ used \in [Tokens -> Nat] /\ opened \subseteq Tokens /\ failures \in Nat
      /\ dirty \in BOOLEAN
  BY DEF SessionsInv, TableOK, Stored, WorldOK
<1>3. ending \in Asks(v) /\ Site(v)!Idle \in Asks(v)
  BY <1>1 DEF Asks, Found, Leaving
<1>4. \/ /\ Site(v)!Save(Site(v)!Without(table, {tok}), logSeen, tok \in DOMAIN table)
         /\ req' = [req EXCEPT ![r] = Site(v)!Idle] /\ UNCHANGED used
      \/ /\ req' = [req EXCEPT ![r] = Site(v)!Idle]
         /\ UNCHANGED <<Site(v)!memory, file, ended, written, failures, used>>
      \/ /\ tok \in DOMAIN table /\ used' = lastUse
         /\ \/ Site(v)!Save(T, logSeen, TRUE)
            \/ /\ ~Site(v)!SeenIsOld(s, at) /\ table' = T
               /\ UNCHANGED <<logSeen, dirty, file, ended, written, failures>>
         /\ req' \in {[req EXCEPT ![r] = ending], [req EXCEPT ![r] = Site(v)!Idle]}
  BY DEF Site!Commit, Site!Done
<1>5. CASE /\ Site(v)!Save(Site(v)!Without(table, {tok}), logSeen, tok \in DOMAIN table)
           /\ req' = [req EXCEPT ![r] = Site(v)!Idle] /\ UNCHANGED used
  <2> DEFINE S == {tok}
             changed == tok \in DOMAIN table
  <2>1. changed \in BOOLEAN /\ (S \intersect DOMAIN table # {} => changed)
        /\ Site(v)!Save(Site(v)!Without(table, S), logSeen, changed)
    BY <1>5
  <2> HIDE DEF S, changed
  <2>2. SavedOK(v)'
    BY <1>1, <1>5, <2>1, Ends DEF Site!authority
  <2>3. QED
    BY <1>1, <1>3, <1>5, <2>2, Busy
<1>6. CASE /\ req' = [req EXCEPT ![r] = Site(v)!Idle]
           /\ UNCHANGED <<Site(v)!memory, file, ended, written, failures, used>>
  <2>1. SavedOK(v)'
    BY <1>1, <1>6, Untouched DEF Site!authority
  <2>2. QED
    BY <1>1, <1>3, <1>6, <2>1, Busy
<1>7. CASE /\ tok \in DOMAIN table /\ used' = lastUse
           /\ \/ Site(v)!Save(T, logSeen, TRUE)
              \/ /\ ~Site(v)!SeenIsOld(s, at) /\ table' = T
                 /\ UNCHANGED <<logSeen, dirty, file, ended, written, failures>>
           /\ req' \in {[req EXCEPT ![r] = ending], [req EXCEPT ![r] = Site(v)!Idle]}
  <2>1. /\ tok \in opened /\ tok \in Tokens /\ s \in Site(v)!SessionType /\ q.now \in Nat
        /\ s.last_seen \in Nat /\ s.stored_seen \in Nat /\ used[tok] \in Nat
        /\ SeenWrite \in Nat \ {0}
    BY <1>1, <1>2, <1>7 DEF Site!SessionConstants, SessionsOf, Site!SessionType, Found
  <2>2. at \in Nat /\ at >= s.last_seen /\ at >= q.now /\ at \in {s.last_seen, q.now}
    BY <2>1
  <2>3. /\ lastUse[tok] \in Nat /\ used[tok] <= lastUse[tok] /\ q.now <= lastUse[tok]
        /\ lastUse[tok] \in {used[tok], q.now}
        /\ lastUse \in [Tokens -> Nat] /\ \A t \in Tokens : t # tok => lastUse[t] = used[t]
    BY <1>2, <2>1
  <2>4. /\ DOMAIN T = DOMAIN table /\ T = [t \in DOMAIN T |-> T[t]]
        /\ \A t \in DOMAIN table : /\ T[t] \in Site(v)!SessionType
                                   /\ T[t].cred = table[t].cred
                                   /\ T[t].stored_seen = table[t].stored_seen
                                   /\ T[t].last_seen = IF t = tok THEN at ELSE table[t].last_seen
    <3>1. DOMAIN T = DOMAIN table /\ T = [t \in DOMAIN T |-> T[t]]
      BY <1>2 DEF SessionsOf
    <3>2. ASSUME NEW t \in DOMAIN table
          PROVE  /\ T[t] \in Site(v)!SessionType
                 /\ T[t].cred = table[t].cred
                 /\ T[t].stored_seen = table[t].stored_seen
                 /\ T[t].last_seen = IF t = tok THEN at ELSE table[t].last_seen
      <4> HIDE DEF at
      <4>1. table[t] \in Site(v)!SessionType
        BY <1>2 DEF SessionsOf
      <4>2. T[t] = IF t = tok THEN [table[t] EXCEPT !.last_seen = at] ELSE table[t]
        BY <1>2, <3>2 DEF SessionsOf
      <4>3. QED
        BY <2>2, <4>1, <4>2 DEF Site!SessionType
    <3>3. QED
      BY <3>1, <3>2
  <2> HIDE DEF q, tok, s, at, T, lastUse
  <2>5. SessionsOf(v, T, opened) /\ Due(T, logSeen) /\ Kept(T, failures)
    BY <1>2, <2>4 DEF SessionsOf, Due, Kept
  <2>6. s = table[tok] /\ used' = lastUse
    BY <1>7 DEF s
  <2>7. Recent(T, used', failures)
    <3> SUFFICES ASSUME NEW t \in DOMAIN table
                 PROVE  /\ T[t].last_seen <= lastUse[t]
                        /\ failures = 0 => lastUse[t] < T[t].last_seen + SeenWrite
      BY <2>4, <2>6 DEF Recent
    <3>1. /\ table[t].last_seen <= used[t]
          /\ failures = 0 => used[t] < table[t].last_seen + SeenWrite
      BY <1>2 DEF Recent
    <3>2. CASE t = tok
      <4>1. /\ T[t].last_seen = at /\ s.last_seen <= used[tok]
            /\ failures = 0 => used[tok] < s.last_seen + SeenWrite
        BY <2>4, <2>6, <3>1, <3>2
      <4>2. QED
        BY <2>1, <2>2, <2>3, <3>2, <4>1
    <3>3. CASE t # tok
      <4>1. t \in Tokens
        BY <1>2 DEF SessionsOf
      <4>2. QED
        BY <2>3, <2>4, <3>1, <3>3, <4>1
    <3>4. QED
      BY <3>2, <3>3
  <2>8. used' \in [Tokens -> Nat] /\ \A t \in opened : used[t] <= used'[t]
    <3>1. \A t \in opened : used[t] \in Nat /\ (t # tok => lastUse[t] = used[t])
      BY <1>2, <2>3
    <3>2. QED
      BY <2>3, <2>6, <3>1
  <2>9. (ended \union written) \intersect DOMAIN T = {}
    BY <1>2, <2>4 DEF Site!NothingEndedComesBack
  <2>10. SavedOK(v)'
    <3>1. CASE Site(v)!Save(T, logSeen, TRUE)
      <4>1. Ready(v, T, logSeen, TRUE)
        BY <1>1, <2>5, <2>7, <2>8, <2>9 DEF Ready
      <4>2. QED
        BY <1>1, <3>1, <4>1, Saved DEF Site!authority
    <3>2. CASE /\ ~Site(v)!SeenIsOld(s, at) /\ table' = T
               /\ UNCHANGED <<logSeen, dirty, file, ended, written, failures>>
      <4>1. \A X, n : Due(X, n) => Due(X, n)'
        BY <1>1 DEF Due, Site!authority
      <4>2. at < s.stored_seen + SeenWrite
        BY <2>1, <2>2, <3>2 DEF Site!SeenIsOld
      <4>3. Recent(file.sessions, lastUse, failures)
        <5> SUFFICES ASSUME NEW t \in DOMAIN file.sessions
                     PROVE  /\ file.sessions[t].last_seen <= lastUse[t]
                            /\ failures = 0 => lastUse[t] < file.sessions[t].last_seen + SeenWrite
          BY DEF Recent
        <5>1. /\ file.sessions[t].last_seen <= used[t]
              /\ failures = 0 => used[t] < file.sessions[t].last_seen + SeenWrite
              /\ t \in opened /\ file.sessions[t].last_seen \in Nat
          BY <1>2 DEF FileOK, Recent, SessionsOf, Site!SessionType
        <5>2. CASE t = tok
          <6>1. failures = 0 => s.stored_seen = file.sessions[tok].last_seen
            BY <1>2, <1>7, <2>6, <5>2 DEF Kept
          <6>2. QED
            BY <2>1, <2>2, <2>3, <4>2, <5>1, <5>2, <6>1
        <5>3. CASE t # tok
          <6>1. lastUse[t] = used[t]
            BY <1>2, <2>3, <5>1, <5>3
          <6>2. QED
            BY <5>1, <6>1
        <5>4. QED
          BY <5>2, <5>3
      <4>4. TableOK(v)' /\ FileOK(v)'
        BY <1>1, <1>2, <2>5, <2>6, <2>7, <3>2, <4>1, <4>3 DEF TableOK, FileOK
      <4>5. Clean' /\ Stored' /\ Site(v)!NothingEndedComesBack'
        BY <1>1, <1>2, <2>4, <2>5, <3>2 DEF Clean, Stored, Kept, Site!NothingEndedComesBack
      <4>6. QED
        BY <1>1, <1>2, <3>2, <4>4, <4>5 DEF SavedOK, WorldOK
    <3>3. QED
      BY <1>7, <3>1, <3>2
  <2>11. WorldOK'
    BY <1>1, <1>2, <2>8, <2>10 DEF WorldOK, SavedOK, Site!authority
  <2>12. RequestsOK(v)'
    BY <1>1, <1>3, <1>7, Moved
  <2>13. QED
    BY <2>10, <2>11, <2>12 DEF SavedOK, SessionsInv
<1>8. QED
  BY <1>4, <1>5, <1>6, <1>7

-----------------------------------------------------------------------------
LEMMA InvInit == ASSUME NEW v, Site(v)!SessionConstants, Site(v)!Init PROVE SessionsInv(v)
<1>1. log = <<>> /\ Len(log) = 0 /\ DOMAIN table = {} /\ DOMAIN file.sessions = {}
  <2>1. log = <<>> /\ table = <<>> /\ file.sessions = <<>>
    BY DEF Site!Init, Site!NoFile
  <2>2. QED
    BY <2>1, Nothing
<1>2. WorldOK
  <2>1. log \in Seq(Creds)
    BY <1>1
  <2>2. grant \in [Creds -> {"read", "write", "none"}]
    BY DEF Site!Init
  <2>3. /\ clock = 0 /\ up = FALSE /\ enrolled = Creds /\ revoking = {} /\ opened = {}
        /\ ended = {} /\ written = {} /\ named = {} /\ edits = 0 /\ starts = 0 /\ failures = 0
    BY DEF Site!Init
  <2>4. used \in [Tokens -> Nat]
    BY DEF Site!Init
  <2>5. up \in BOOLEAN
    BY <2>3
  <2>6. clock \in Nat /\ {edits, starts, failures} \subseteq Nat
    BY <2>3
  <2>7. enrolled \subseteq Creds /\ revoking \subseteq Creds
    BY <2>3
  <2>8. /\ opened \subseteq Tokens /\ named \subseteq opened
        /\ ended \subseteq opened /\ written \subseteq opened
    BY <2>3
  <2>9. QED
    BY <2>1, <2>2, <2>4, <2>5, <2>6, <2>7, <2>8 DEF WorldOK
<1>3. RequestsOK(v)
  BY DEF Site!Init, RequestsOK
<1>4. Due(<<>>, 0)
  BY <1>1, Nothing DEF Due
<1>5. TableOK(v)
  BY <1>4, Nothing DEF Site!Init, TableOK
<1>6. FileOK(v)
  BY <1>4, Nothing DEF Site!Init, FileOK, Site!NoFile
<1>7. Clean /\ Stored /\ Site(v)!NothingEndedComesBack
  BY <1>1 DEF Site!Init, Clean, Stored, Kept, Site!NothingEndedComesBack
<1>8. QED
  BY <1>2, <1>3, <1>5, <1>6, <1>7 DEF SessionsInv

LEMMA InvStep ==
    ASSUME NEW v, Site(v)!SessionConstants, SessionsInv(v), [Site(v)!Next]_(Site(v)!vars)
    PROVE  SessionsInv(v)'
<1>1. CASE UNCHANGED Site(v)!vars
  <2>1. SavedOK(v)'
    BY <1>1, Untouched DEF Site!vars, Site!authority, Site!bounds, Site!history
  <2>2. WorldOK' /\ RequestsOK(v)'
    BY <1>1 DEF Site!vars, Site!authority, Site!bounds, Site!history, SessionsInv, WorldOK,
                RequestsOK
  <2>3. QED
    BY <2>1, <2>2 DEF SavedOK, SessionsInv
<1>2. CASE \E c \in Creds : \/ Site(v)!Revoke(c) \/ Site(v)!Line(c) \/ Site(v)!LineLost(c)
                            \/ Site(v)!Enrol(c) \/ Site(v)!Regrant(c)
  BY <1>2, RevokeKeeps, LineKeeps, OutsideKeeps
<1>3. ASSUME NEW r \in v.requests, Site(v)!RequestStep(r) PROVE SessionsInv(v)'
  BY <1>3, DecideKeeps, OpenKeeps, LookKeeps, GrantKeeps, ReadClientsKeeps, EndsTheirs,
     ReadGrantsKeeps, CommitKeeps DEF Site!RequestStep
<1>4. CASE \E t \in Tokens : Site(v)!Logout(t)
  BY <1>4, LogoutKeeps
<1>5. CASE Site(v)!Start \/ Site(v)!Stop \/ Site(v)!Tick
  BY <1>5, StartKeeps, StopKeeps, OutsideKeeps
<1>6. QED
  BY <1>1, <1>2, <1>3, <1>4, <1>5 DEF Site!Next

-----------------------------------------------------------------------------
(* The ceremonies: the values of their state.                              *)

Entries == [state : {"enrolled"}, grant : Grants, count : Nat]
Sealed == [state : {"minted"}, purpose : {"register", "login"}, expires : Nat, key : Nat]
Issued == [state : {"live"}, grant : Grants, expires : Nat]

Registers == [at : {"checked"}, op : {"register"}, now : Nat, challenge : Challenges,
              cred : Creds, invite : Invites]
Enrols == [at : {"redeemed"}, op : {"register"}, now : Nat, challenge : Challenges,
           cred : Creds, invite : Invites, grant : Grants]
SignsIn == [at : {"checked"}, op : {"login"}, now : Nat, challenge : Challenges,
            cred : Creds, count : Nat]
Verified == [at : {"verified", "answered"}, op : {"login"}, now : Nat, challenge : Challenges,
             cred : Creds, count : Nat, entry : Entries]

Typed ==
    /\ ticks \in Nat /\ boot \in Nat
    /\ minted \in [Challenges -> {Ceremony!Absent} \union Sealed]
    /\ answered \subseteq {h \in Challenges : minted[h] # Ceremony!Absent}
    /\ clients \in [Creds -> {Ceremony!Absent} \union Entries]
    /\ grants \subseteq Grants /\ issued \subseteq Invites
    /\ invites \in [Invites -> {Ceremony!Absent} \union Issued]
    /\ lock \in Pair \union {"free"}
    /\ doing \in [Pair -> {Ceremony!Idle} \union Registers \union Enrols \union SignsIn
         \union Verified]
    /\ device \in [Creds -> Nat]
    /\ answers \in [Challenges -> Nat] /\ spent \in [Invites -> Nat]
    /\ enrolments \in [Creds -> Nat] /\ revocations \in [Creds -> Nat]

\* A request under way carries a challenge of this start of the server, read its clock in the
\* past, and, when it signs in, carries a counter its authenticator has passed.
Underway ==
    /\ \A h \in Challenges : minted[h] # Ceremony!Absent => minted[h].key <= boot
    /\ \A r \in Pair : doing[r].at # "idle" =>
          /\ minted[doing[r].challenge] # Ceremony!Absent /\ minted[doing[r].challenge].key = boot
          /\ doing[r].now <= ticks
          /\ doing[r].op = "login" => doing[r].count <= device[doing[r].cred]
    /\ \A c \in Creds : Ceremony!Enrolled(c) => clients[c].count <= device[c]
    /\ \A i \in Invites : invites[i] # Ceremony!Absent => i \in issued

\* A challenge that was answered is remembered for as long as it could be answered again.
Answered ==
    \A h \in Challenges :
        /\ minted[h] = Ceremony!Absent => answers[h] = 0
        /\ answers[h] > 0 /\ ticks < minted[h].expires /\ minted[h].key = boot => h \in answered
        /\ answers[h] > 1 => ticks >= minted[h].expires

\* One registration has redeemed an invite and not yet enrolled: it holds the lock, and the
\* invite is spent nowhere else.
Redeeming ==
    /\ \A r \in Pair : lock = r <=> doing[r].at = "redeemed"
    /\ \A r \in Pair : doing[r].at = "redeemed" =>
          /\ ~Ceremony!Enrolled(doing[r].cred) /\ invites[doing[r].invite] = Ceremony!Absent
          /\ doing[r].invite \in issued /\ spent[doing[r].invite] = 0
    /\ \A i \in Invites :
          spent[i] <= 1 /\ (spent[i] = 1 => invites[i] = Ceremony!Absent /\ i \in issued)

CeremonyInv ==
    Ceremony!CeremonyConstants /\ Typed /\ Underway /\ Answered /\ Redeeming
      /\ Ceremony!RevokeStands

LEMMA Values ==
    /\ \A e \in Entries : e # Ceremony!Absent
    /\ \A s \in Sealed : s # Ceremony!Absent
    /\ \A i \in Issued : i # Ceremony!Absent
    /\ Ceremony!Idle.at = "idle"
BY DEF Entries, Sealed, Issued, Ceremony!Absent, Ceremony!Idle

LEMMA CeremonyImplied == CeremonyInv => Ceremony!TypeOK /\ Ceremony!SpentOnce
                           /\ Ceremony!RevokeStands
<1> SUFFICES ASSUME CeremonyInv PROVE Ceremony!TypeOK /\ Ceremony!SpentOnce
      /\ Ceremony!RevokeStands
  OBVIOUS
<1>1. \A c \in Creds : Ceremony!Enrolled(c) => clients[c].grant \in Grants
        /\ clients[c].count \in 0..device[c]
  BY DEF CeremonyInv, Typed, Underway, Entries, Ceremony!Enrolled
<1>2. \A i \in Invites : invites[i] # Ceremony!Absent => i \in issued
        /\ invites[i].grant \in Grants
  BY DEF CeremonyInv, Typed, Underway, Issued
<1>3. \A r \in Pair : doing[r].at \in {"idle", "checked", "redeemed", "verified", "answered"}
  BY DEF CeremonyInv, Typed, Registers, Enrols, SignsIn, Verified, Ceremony!Idle
<1>4. Ceremony!SpentOnce
  BY DEF CeremonyInv, Answered, Redeeming, Ceremony!SpentOnce
<1>5. QED
  BY <1>1, <1>2, <1>3, <1>4 DEF CeremonyInv, Typed, Ceremony!TypeOK

LEMMA CeremonyInit == ASSUME Ceremony!CeremonyConstants, Ceremony!Init PROVE CeremonyInv
<1>1. PICK g \in Grants : clients \in [Creds -> {Ceremony!Absent, Ceremony!Entry(g, 0)}]
  BY DEF Ceremony!Init
<1>2. Ceremony!Entry(g, 0) \in Entries /\ Ceremony!Entry(g, 0).count = 0
  BY DEF Ceremony!Entry, Entries
<1>3. clients \in [Creds -> {Ceremony!Absent} \union Entries]
  BY <1>1, <1>2
<1>4. Typed
  BY <1>3 DEF Ceremony!Init, Typed, Ceremony!CeremonyConstants
<1>5. Underway
  BY <1>1, <1>2, Values DEF Ceremony!Init, Underway, Ceremony!Enrolled
<1>6. Answered /\ Redeeming
  BY Values DEF Ceremony!Init, Answered, Redeeming, Ceremony!CeremonyConstants
<1>7. Ceremony!RevokeStands
  <2>1. \A c \in Creds : /\ enrolments[c] = IF Ceremony!Enrolled(c) THEN 1 ELSE 0
                         /\ revocations[c] = 0
    BY DEF Ceremony!Init, Ceremony!Enrolled
  <2>2. \A n \in {0, 1} : n = 0 + n
    OBVIOUS
  <2>3. ASSUME NEW c \in Creds
        PROVE  enrolments[c] = revocations[c] + (IF Ceremony!Enrolled(c) THEN 1 ELSE 0)
    <3>1. CASE Ceremony!Enrolled(c)
      BY <2>1, <2>2, <3>1
    <3>2. CASE ~Ceremony!Enrolled(c)
      BY <2>1, <2>2, <3>2
    <3>3. QED
      BY <3>1, <3>2
  <2>4. QED
    BY <2>3 DEF Ceremony!RevokeStands
<1>8. QED
  BY <1>4, <1>5, <1>6, <1>7 DEF CeremonyInv

-----------------------------------------------------------------------------
(* What no request takes part in.                                          *)

LEMMA InvMint ==
    ASSUME CeremonyInv, NEW h \in Challenges, NEW purpose \in {"register", "login"},
             Ceremony!Mint(h, purpose)
    PROVE  CeremonyInv'
<1> DEFINE new == [state |-> "minted", purpose |-> purpose, expires |-> ticks + Lasting,
             key |-> boot]
<1>1. /\ minted[h] = Ceremony!Absent /\ minted' = [minted EXCEPT ![h] = new]
      /\ UNCHANGED <<ticks, boot, answered, Ceremony!files, lock, doing, device,
           Ceremony!history>>
  BY DEF Ceremony!Mint
<1>2. new \in Sealed /\ new # Ceremony!Absent /\ new.key = boot
  BY Values DEF CeremonyInv, Typed, Sealed, Ceremony!CeremonyConstants
<1> HIDE DEF new
<1>3. Typed'
  BY <1>1, <1>2 DEF Ceremony!files, Ceremony!history, CeremonyInv, Typed
<1>4. \A r \in Pair : doing[r].at # "idle" => doing[r].challenge \in Challenges
  BY Values DEF CeremonyInv, Typed, Registers, Enrols, SignsIn, Verified
<1>5. Underway'
  BY <1>1, <1>2, <1>4 DEF Ceremony!files, CeremonyInv, Typed, Underway, Ceremony!Enrolled
<1>6. Answered'
  BY <1>1, <1>2 DEF Ceremony!history, CeremonyInv, Typed, Answered
<1>7. Redeeming' /\ Ceremony!RevokeStands'
  BY <1>1 DEF Ceremony!files, Ceremony!history, CeremonyInv, Redeeming, Ceremony!RevokeStands,
              Ceremony!Enrolled
<1>8. QED
  BY <1>3, <1>5, <1>6, <1>7 DEF CeremonyInv

LEMMA InvInvite ==
    ASSUME CeremonyInv, NEW i \in Invites, NEW g \in Grants, Ceremony!Invite(i, g)
    PROVE  CeremonyInv'
<1> DEFINE new == [state |-> "live", grant |-> g, expires |-> ticks + Lasting]
<1>1. /\ i \notin issued /\ grants' = grants \union {g} /\ issued' = issued \union {i}
      /\ UNCHANGED <<ticks, boot, minted, answered, clients, lock, doing, device,
           Ceremony!history>>
      /\ invites' = [j \in Invites |->
                      IF j = i THEN new
                      ELSE IF invites[j] # Ceremony!Absent /\ invites[j].expires <= ticks
                        THEN Ceremony!Absent
                      ELSE invites[j]]
  BY DEF Ceremony!Invite
<1>2. new \in Issued
  BY DEF CeremonyInv, Typed, Issued, Ceremony!CeremonyConstants
<1> HIDE DEF new
<1>3. \A j \in Invites : j # i => invites'[j] \in {Ceremony!Absent, invites[j]}
  BY <1>1
<1>4. Typed'
  BY <1>1, <1>2 DEF Ceremony!history, CeremonyInv, Typed
<1>5. Underway' /\ Answered' /\ Ceremony!RevokeStands'
  BY <1>1, <1>3 DEF Ceremony!history, CeremonyInv, Underway, Answered, Ceremony!RevokeStands,
                    Ceremony!Enrolled
<1>6. Redeeming'
  <2>1. \A r \in Pair : doing[r].at = "redeemed" => doing[r].invite \in Invites
    BY Values DEF CeremonyInv, Typed, Registers, Enrols, SignsIn, Verified
  <2>2. QED
    BY <1>1, <1>3, <2>1 DEF Ceremony!history, CeremonyInv, Redeeming, Ceremony!Enrolled
<1>7. QED
  BY <1>4, <1>5, <1>6 DEF CeremonyInv

LEMMA InvRevoke ==
    ASSUME CeremonyInv, NEW c \in Creds, Ceremony!Revoke(c)
    PROVE  CeremonyInv'
<1>1. /\ lock = "free" /\ Ceremony!Enrolled(c)
           /\ clients' = [clients EXCEPT ![c] = Ceremony!Absent]
      /\ revocations' = [revocations EXCEPT ![c] = @ + 1]
      /\ UNCHANGED <<ticks, boot, minted, answered, grants, invites, issued, lock, doing, device,
                     answers, spent, enrolments>>
  BY DEF Ceremony!Revoke
<1>2. Typed' /\ Answered'
  BY <1>1 DEF CeremonyInv, Typed, Answered
<1>3. Underway' /\ Ceremony!RevokeStands'
  BY <1>1 DEF CeremonyInv, Typed, Underway, Ceremony!RevokeStands, Ceremony!Enrolled
<1>4. Redeeming'
  BY <1>1 DEF CeremonyInv, Redeeming, Ceremony!CeremonyConstants
<1>5. QED
  BY <1>2, <1>3, <1>4 DEF CeremonyInv

LEMMA InvWorld ==
    ASSUME CeremonyInv, Ceremony!Tick \/ Ceremony!Restart
             \/ \E g \in Grants : Ceremony!DropGrant(g)
    PROVE  CeremonyInv'
<1>1. ASSUME NEW g \in Grants, Ceremony!DropGrant(g) PROVE CeremonyInv'
  BY <1>1 DEF Ceremony!DropGrant, Ceremony!history, CeremonyInv, Typed, Underway, Answered,
              Redeeming, Ceremony!RevokeStands, Ceremony!Enrolled
<1>2. CASE Ceremony!Tick
  <2>1. ticks' = ticks + 1 /\ UNCHANGED <<boot, minted, answered, Ceremony!files, lock, doing,
          device, Ceremony!history>>
    BY <1>2 DEF Ceremony!Tick
  <2>2. Typed' /\ Redeeming' /\ Ceremony!RevokeStands'
    BY <2>1 DEF Ceremony!files, Ceremony!history, CeremonyInv, Typed, Redeeming,
                Ceremony!RevokeStands, Ceremony!Enrolled
  <2>3. Underway'
    <3>1. \A r \in Pair : doing[r].at # "idle" => doing[r].now \in Nat
      BY Values DEF CeremonyInv, Typed, Registers, Enrols, SignsIn, Verified
    <3>2. QED
      BY <2>1, <3>1 DEF Ceremony!files, CeremonyInv, Typed, Underway, Ceremony!Enrolled
  <2>4. Answered'
    <3>1. \A h \in Challenges : minted[h] # Ceremony!Absent => minted[h].expires \in Nat
      BY DEF CeremonyInv, Typed, Sealed
    <3>2. QED
      BY <2>1, <3>1 DEF Ceremony!history, CeremonyInv, Typed, Answered
  <2>5. QED
    BY <2>2, <2>3, <2>4 DEF CeremonyInv
<1>3. CASE Ceremony!Restart
  <2>1. /\ boot' = boot + 1 /\ answered' = {} /\ lock' = "free"
             /\ doing' = [r \in Pair |-> Ceremony!Idle]
        /\ UNCHANGED <<ticks, minted, Ceremony!files, device, Ceremony!history>>
    BY <1>3 DEF Ceremony!Restart
  <2>2. Typed'
    BY <2>1 DEF Ceremony!files, Ceremony!history, CeremonyInv, Typed
  <2>3. \A h \in Challenges : minted[h] # Ceremony!Absent => minted[h].key \in Nat
          /\ minted[h].key < boot'
    BY <2>1 DEF CeremonyInv, Typed, Underway, Sealed
  <2>4. Underway' /\ Ceremony!RevokeStands'
    BY <2>1, <2>3, Values DEF Ceremony!files, Ceremony!history, CeremonyInv, Underway,
                              Ceremony!RevokeStands, Ceremony!Enrolled, Typed
  <2>5. Answered'
    BY <2>1, <2>3 DEF Ceremony!history, CeremonyInv, Typed, Answered
  <2>6. Redeeming'
    BY <2>1, Values DEF Ceremony!files, Ceremony!history, CeremonyInv, Redeeming,
                        Ceremony!CeremonyConstants
  <2>7. QED
    BY <2>2, <2>4, <2>5, <2>6 DEF CeremonyInv
<1>4. QED
  BY <1>1, <1>2, <1>3

-----------------------------------------------------------------------------
(* A request.                                                              *)

\* Where a request stands says what it carries.
LEMMA Standing ==
    ASSUME Typed, NEW r \in Pair
    PROVE  /\ doing[r].at = "idle" <=> doing[r] = Ceremony!Idle
           /\ doing[r].at = "checked" /\ doing[r].op = "register" => doing[r] \in Registers
           /\ doing[r].at = "checked" /\ doing[r].op = "login" => doing[r] \in SignsIn
           /\ doing[r].at = "redeemed" => doing[r] \in Enrols
           /\ doing[r].at \in {"verified", "answered"} => doing[r] \in Verified
           /\ doing[r].at # "idle" =>
                 /\ doing[r].challenge \in Challenges /\ doing[r].cred \in Creds
                                   /\ doing[r].now \in Nat
<1>1. doing[r] \in {Ceremony!Idle} \union Registers \union Enrols \union SignsIn \union Verified
  BY DEF Typed
<1>2. CASE doing[r] = Ceremony!Idle
  BY <1>2 DEF Ceremony!Idle
<1>3. CASE doing[r] \in Registers
  BY <1>3 DEF Registers, Ceremony!Idle
<1>4. CASE doing[r] \in Enrols
  BY <1>4 DEF Enrols, Ceremony!Idle
<1>5. CASE doing[r] \in SignsIn
  BY <1>5 DEF SignsIn, Ceremony!Idle
<1>6. CASE doing[r] \in Verified
  BY <1>6 DEF Verified, Ceremony!Idle
<1>7. QED
  BY <1>1, <1>2, <1>3, <1>4, <1>5, <1>6

\* A request that ends without having redeemed leaves everything as it was.
LEMMA InvDone ==
    ASSUME CeremonyInv, NEW r \in Pair, doing[r].at # "redeemed", Ceremony!Done(r),
           UNCHANGED <<ticks, boot, minted, answered, Ceremony!files, lock, device,
             Ceremony!history>>
    PROVE  CeremonyInv'
<1>1. doing' = [doing EXCEPT ![r] = Ceremony!Idle] /\ doing'[r].at = "idle"
  BY Values DEF Ceremony!Done, CeremonyInv, Typed
<1>2. Typed' /\ Answered' /\ Ceremony!RevokeStands'
  BY <1>1 DEF Ceremony!files, Ceremony!history, CeremonyInv, Typed, Answered,
              Ceremony!RevokeStands, Ceremony!Enrolled
<1>3. Underway'
  BY <1>1 DEF Ceremony!files, CeremonyInv, Typed, Underway, Ceremony!Enrolled
<1>4. Redeeming'
  BY <1>1 DEF Ceremony!files, Ceremony!history, CeremonyInv, Typed, Redeeming, Ceremony!Enrolled
<1>5. QED
  BY <1>2, <1>3, <1>4 DEF CeremonyInv

LEMMA InvCheck ==
    ASSUME CeremonyInv, NEW r \in Pair, NEW h \in Challenges, NEW c \in Creds,
           Ceremony!SignInCheck(r, h, c) \/ \E i \in Invites : Ceremony!RegisterCheck(r, h, c, i)
    PROVE  CeremonyInv'
<1>1. ASSUME NEW i \in Invites, Ceremony!RegisterCheck(r, h, c, i) PROVE CeremonyInv'
  <2> DEFINE new == [at |-> "checked", op |-> "register", now |-> ticks, challenge |-> h,
                     cred |-> c, invite |-> i]
  <2>1. /\ doing' = [doing EXCEPT ![r] = new] /\ doing[r] = Ceremony!Idle
        /\ UNCHANGED <<ticks, boot, minted, answered, Ceremony!files, lock, device,
             Ceremony!history>>
        /\ minted[h] # Ceremony!Absent /\ minted[h].key = boot
    BY <1>1 DEF Ceremony!RegisterCheck, Ceremony!Valid
  <2>2. /\ new \in Registers /\ new.at = "checked" /\ new.challenge = h /\ new.now = ticks
        /\ new.op = "register"
    BY DEF CeremonyInv, Typed, Registers
  <2> HIDE DEF new
  <2>3. Typed' /\ Answered' /\ Ceremony!RevokeStands'
    BY <2>1, <2>2 DEF Ceremony!files, Ceremony!history, CeremonyInv, Typed, Answered,
                      Ceremony!RevokeStands, Ceremony!Enrolled
  <2>4. Underway'
    BY <2>1, <2>2 DEF Ceremony!files, CeremonyInv, Typed, Underway, Ceremony!Enrolled
  <2>5. Redeeming'
    BY <2>1, <2>2, Values DEF Ceremony!files, Ceremony!history, CeremonyInv, Typed, Redeeming,
                              Ceremony!Enrolled
  <2>6. QED
    BY <2>3, <2>4, <2>5 DEF CeremonyInv
<1>2. CASE Ceremony!SignInCheck(r, h, c)
  <2> DEFINE new == [at |-> "checked", op |-> "login", now |-> ticks, challenge |-> h,
                     cred |-> c, count |-> device'[c]]
  <2>1. /\ doing' = [doing EXCEPT ![r] = new] /\ doing[r] = Ceremony!Idle
        /\ device' = [device EXCEPT ![c] = @ + 1]
        /\ UNCHANGED <<ticks, boot, minted, answered, Ceremony!files, lock, Ceremony!history>>
        /\ minted[h] # Ceremony!Absent /\ minted[h].key = boot
    BY <1>2 DEF Ceremony!SignInCheck, Ceremony!Valid
  <2>2. device' \in [Creds -> Nat] /\ \A d \in Creds : device[d] <= device'[d]
          /\ device[d] \in Nat
    BY <2>1 DEF CeremonyInv, Typed
  <2>3. /\ new \in SignsIn /\ new.at = "checked" /\ new.challenge = h /\ new.now = ticks
        /\ new.op = "login" /\ new.count = device'[c] /\ new.cred = c
    BY <2>2 DEF CeremonyInv, Typed, SignsIn
  <2> HIDE DEF new
  <2>4. Typed' /\ Answered' /\ Ceremony!RevokeStands'
    BY <2>1, <2>2, <2>3 DEF Ceremony!files, Ceremony!history, CeremonyInv, Typed, Answered,
                            Ceremony!RevokeStands, Ceremony!Enrolled
  <2>5. \A q \in Pair : doing[q].at # "idle" /\ doing[q].op = "login" =>
           doing[q].count \in Nat /\ doing[q].cred \in Creds
    BY Values DEF CeremonyInv, Typed, Registers, Enrols, SignsIn, Verified
  <2>6. Underway'
    <3>1. \A q \in Pair : doing'[q].at # "idle" =>
             /\ minted[doing'[q].challenge] # Ceremony!Absent
                  /\ minted[doing'[q].challenge].key = boot
             /\ doing'[q].now <= ticks
             /\ doing'[q].op = "login" => doing'[q].count <= device'[doing'[q].cred]
      <4> SUFFICES ASSUME NEW q \in Pair, doing'[q].at # "idle"
                   PROVE  /\ minted[doing'[q].challenge] # Ceremony!Absent
                          /\ minted[doing'[q].challenge].key = boot
                          /\ doing'[q].now <= ticks
                          /\ doing'[q].op = "login" => doing'[q].count <= device'[doing'[q].cred]
        OBVIOUS
      <4>1. CASE q = r
        BY <2>1, <2>2, <2>3, <4>1 DEF CeremonyInv, Typed
      <4>2. CASE q # r
        BY <2>1, <2>2, <2>5, <4>2 DEF CeremonyInv, Typed, Underway
      <4>3. QED
        BY <4>1, <4>2
    <3>2. \A d \in Creds : Ceremony!Enrolled(d) => clients[d].count <= device'[d]
      BY <2>2 DEF CeremonyInv, Typed, Underway, Ceremony!Enrolled, Entries
    <3>3. QED
      BY <2>1, <3>1, <3>2 DEF Ceremony!files, CeremonyInv, Underway, Ceremony!Enrolled
  <2>7. Redeeming'
    BY <2>1, <2>3, Values DEF Ceremony!files, Ceremony!history, CeremonyInv, Typed, Redeeming,
                              Ceremony!Enrolled
  <2>8. QED
    BY <2>4, <2>6, <2>7 DEF CeremonyInv
<1>3. QED
  BY <1>1, <1>2

LEMMA InvRedeem ==
    ASSUME CeremonyInv, NEW r \in Pair, Ceremony!Redeem(r)
    PROVE  CeremonyInv'
<1> DEFINE i == doing[r].invite
           c == doing[r].cred
<1>1. /\ doing[r].at = "checked" /\ doing[r].op = "register" /\ lock = "free"
      /\ UNCHANGED <<ticks, boot, minted, answered, clients, grants, issued, device,
           Ceremony!history>>
  BY DEF Ceremony!Redeem
<1>2. doing[r] \in Registers /\ i \in Invites /\ c \in Creds
  BY <1>1, Standing DEF CeremonyInv, Registers
<1>3. \A q \in Pair : doing[q].at # "redeemed"
  BY <1>1 DEF CeremonyInv, Redeeming, Ceremony!CeremonyConstants
<1>4. CASE Ceremony!Done(r) /\ UNCHANGED <<invites, lock>>
  BY <1>1, <1>4, InvDone DEF Ceremony!files
<1>5. CASE invites' = [invites EXCEPT ![i] = Ceremony!Absent] /\ Ceremony!Done(r)
        /\ UNCHANGED lock
  <2>1. doing' = [doing EXCEPT ![r] = Ceremony!Idle] /\ doing'[r].at = "idle"
    BY <1>5, Values DEF Ceremony!Done, CeremonyInv, Typed
  <2>2. Typed' /\ Answered' /\ Ceremony!RevokeStands'
    BY <1>1, <1>2, <1>5, <2>1 DEF Ceremony!history, CeremonyInv, Typed, Answered,
                                  Ceremony!RevokeStands, Ceremony!Enrolled
  <2>3. Underway'
    BY <1>1, <1>2, <1>5, <2>1 DEF CeremonyInv, Typed, Underway, Ceremony!Enrolled
  <2>4. Redeeming'
    <3>1. \A q \in Pair : doing'[q].at # "redeemed" /\ lock' # q
      BY <1>1, <1>3, <1>5, <2>1 DEF CeremonyInv, Typed, Ceremony!CeremonyConstants
    <3>2. QED
      BY <1>1, <1>2, <1>5, <3>1 DEF Ceremony!history, CeremonyInv, Typed, Redeeming
  <2>5. QED
    BY <2>2, <2>3, <2>4 DEF CeremonyInv
<1>6. CASE /\ ~Ceremony!Enrolled(c) /\ invites[i] # Ceremony!Absent
           /\ invites' = [invites EXCEPT ![i] = Ceremony!Absent] /\ lock' = r
           /\ doing' = [doing EXCEPT ![r] =
                 [at |-> "redeemed", op |-> "register", now |-> @.now, challenge |-> @.challenge,
                  cred |-> @.cred, invite |-> @.invite, grant |-> invites[@.invite].grant]]
  <2> DEFINE new == [at |-> "redeemed", op |-> "register", now |-> doing[r].now,
                     challenge |-> doing[r].challenge, cred |-> c, invite |-> i,
                     grant |-> invites[i].grant]
  <2>1. doing' = [doing EXCEPT ![r] = new]
    BY <1>6
  <2>2. invites[i] \in Issued /\ i \in issued /\ spent[i] = 0
    <3>1. invites[i] \in Issued /\ i \in issued
      BY <1>2, <1>6 DEF CeremonyInv, Typed, Underway
    <3>2. spent[i] \in Nat /\ spent[i] <= 1 /\ spent[i] # 1
      BY <1>2, <1>6 DEF CeremonyInv, Typed, Redeeming
    <3>3. QED
      BY <3>1, <3>2
  <2>3. /\ new \in Enrols /\ new.at = "redeemed" /\ new.op = "register" /\ new.cred = c
        /\ new.challenge = doing[r].challenge /\ new.now = doing[r].now /\ new.invite = i
    BY <1>2, <2>2 DEF Registers, Enrols, Issued
  <2>4. doing[r].at # "idle"
    BY <1>1
  <2> HIDE DEF new, i, c
  <2>5. Typed' /\ Answered' /\ Ceremony!RevokeStands'
    BY <1>1, <1>2, <1>6, <2>1, <2>3 DEF Ceremony!history, CeremonyInv, Typed, Answered,
                                        Ceremony!RevokeStands, Ceremony!Enrolled
  <2>6. Underway'
    BY <1>1, <1>2, <1>6, <2>1, <2>3, <2>4 DEF CeremonyInv, Typed, Underway, Ceremony!Enrolled
  <2>7. Redeeming'
    <3>1. \A q \in Pair : (q = r <=> doing'[q].at = "redeemed")
      BY <1>3, <2>1, <2>3 DEF CeremonyInv, Typed
    <3>2. doing'[r] = new /\ invites'[i] = Ceremony!Absent
           /\ \A j \in Invites : j # i => invites'[j] = invites[j]
      BY <1>2, <1>6, <2>1 DEF CeremonyInv, Typed
    <3>3. QED
      BY <1>1, <1>2, <1>6, <2>2, <2>3, <3>1, <3>2 DEF Ceremony!history, CeremonyInv, Redeeming,
                                                  Ceremony!Enrolled
  <2>8. QED
    BY <2>5, <2>6, <2>7 DEF CeremonyInv
<1>7. QED
  BY <1>4, <1>5, <1>6 DEF Ceremony!Redeem

\* What answering a challenge keeps: it was not answered, or what it was answered for is over.
LEMMA AnsweredMarked ==
    ASSUME CeremonyInv, NEW r \in Pair, doing[r].at # "idle", Ceremony!MarkAnswered(r),
           UNCHANGED <<ticks, boot, minted>>
    PROVE  /\ Answered' /\ answers' \in [Challenges -> Nat]
           /\ answered' \subseteq {h \in Challenges : minted[h] # Ceremony!Absent}
<1> DEFINE g == doing[r].challenge
           n == doing[r].now
<1>1. g \in Challenges /\ n \in Nat /\ n <= ticks /\ minted[g] # Ceremony!Absent
        /\ minted[g].key = boot
  BY Standing DEF CeremonyInv, Underway
<1>2. \A h \in Challenges : minted[h] # Ceremony!Absent => minted[h].expires \in Nat
  BY DEF CeremonyInv, Typed, Sealed
<1>3. answered' = Ceremony!Kept(n) \union {g}
        /\ \A h \in answered : minted[h].expires > ticks => h \in Ceremony!Kept(n)
  <2>1. ticks \in Nat
    BY DEF CeremonyInv, Typed
  <2>2. QED
    BY <1>1, <1>2, <2>1 DEF Ceremony!MarkAnswered, Ceremony!Kept, CeremonyInv, Typed
<1>4. \/ answers' = answers
      \/ answers' = [answers EXCEPT ![g] = @ + 1] /\ g \notin Ceremony!Kept(n)
  BY DEF Ceremony!MarkAnswered, Ceremony!MayAnswer
<1>5. answers' \in [Challenges -> Nat]
        /\ answered' \subseteq {h \in Challenges : minted[h] # Ceremony!Absent}
  BY <1>1, <1>3, <1>4 DEF CeremonyInv, Typed, Ceremony!Kept
<1>6. ASSUME NEW h \in Challenges, minted[h] # Ceremony!Absent, answers'[h] > 0,
               ticks < minted[h].expires,
             minted[h].key = boot
      PROVE  h \in answered'
  <2>1. CASE h = g
    BY <1>3, <2>1
  <2>2. CASE h # g
    <3>1. h \in answered
      BY <1>4, <1>6, <2>2 DEF CeremonyInv, Typed, Answered
    <3>2. QED
      BY <1>2, <1>3, <1>6, <3>1
  <2>3. QED
    BY <2>1, <2>2
<1>7. ASSUME NEW h \in Challenges, answers'[h] > 1 PROVE ticks >= minted[h].expires
  <2>1. CASE answers[h] > 1
    BY <2>1 DEF CeremonyInv, Answered
  <2>2. CASE ~(answers[h] > 1)
    <3>1. h = g /\ answers[g] = 1 /\ g \notin Ceremony!Kept(n)
      BY <1>4, <1>7, <2>2 DEF CeremonyInv, Typed
    <3>2. ticks < minted[g].expires => g \in answered
      BY <1>1, <3>1 DEF CeremonyInv, Answered
    <3>3. ticks \in Nat /\ minted[g].expires \in Nat
      BY <1>1, <1>2 DEF CeremonyInv, Typed
    <3>4. QED
      BY <1>3, <3>1, <3>2, <3>3
  <2>3. QED
    BY <2>1, <2>2
<1>8. ASSUME NEW h \in Challenges, minted[h] = Ceremony!Absent PROVE answers'[h] = 0
  BY <1>1, <1>4, <1>8 DEF CeremonyInv, Typed, Answered
<1>9. \A h \in Challenges : answers'[h] > 0 => minted[h] # Ceremony!Absent
  BY <1>8
<1>10. Answered'
  BY <1>6, <1>7, <1>8, <1>9 DEF Answered
<1>11. QED
  BY <1>5, <1>10

LEMMA InvEnrol ==
    ASSUME CeremonyInv, NEW r \in Pair, Ceremony!Enrol(r)
    PROVE  CeremonyInv'
<1> DEFINE i == doing[r].invite
           c == doing[r].cred
           g == doing[r].grant
<1>1. /\ doing[r].at = "redeemed" /\ lock' = "free"
           /\ doing' = [doing EXCEPT ![r] = Ceremony!Idle]
      /\ UNCHANGED <<ticks, boot, minted, grants, invites, issued, device, revocations>>
  BY DEF Ceremony!Enrol, Ceremony!Done, Ceremony!history
<1>2. doing[r] \in Enrols /\ i \in Invites /\ c \in Creds /\ g \in Grants /\ doing'[r].at = "idle"
  BY <1>1, Standing, Values DEF CeremonyInv, Enrols, Typed
<1>3. \A q \in Pair : doing'[q].at # "redeemed" /\ lock' # q
  <2>1. \A q \in Pair : doing[q].at = "redeemed" => q = r
    BY <1>1 DEF CeremonyInv, Redeeming
  <2>2. QED
    BY <1>1, <1>2, <2>1 DEF CeremonyInv, Typed, Ceremony!CeremonyConstants
<1>4. ~Ceremony!Enrolled(c) /\ invites[i] = Ceremony!Absent /\ i \in issued /\ spent[i] = 0
  BY <1>1 DEF CeremonyInv, Redeeming
<1>5. Answered' /\ answers' \in [Challenges -> Nat]
        /\ answered' \subseteq {h \in Challenges : minted[h] # Ceremony!Absent}
  <2>1. CASE UNCHANGED <<answered, Ceremony!history>>
    BY <1>1, <2>1 DEF Ceremony!history, CeremonyInv, Typed, Answered
  <2>2. CASE Ceremony!MarkAnswered(r)
    BY <1>1, <2>2, AnsweredMarked
  <2>3. QED
    BY <2>1, <2>2 DEF Ceremony!Enrol
<1>6. \/ UNCHANGED <<clients, enrolments, spent>>
      \/ /\ clients' = [clients EXCEPT ![c] = Ceremony!Entry(g, 0)]
         /\ enrolments' = [enrolments EXCEPT ![c] = @ + 1]
         /\ spent' = [spent EXCEPT ![i] = @ + 1]
  BY DEF Ceremony!Enrol, Ceremony!history
<1>7. Ceremony!Entry(g, 0) \in Entries /\ Ceremony!Entry(g, 0).count = 0
        /\ Ceremony!Entry(g, 0) # Ceremony!Absent
  BY <1>2, Values DEF Ceremony!Entry, Entries
<1> HIDE DEF i, c, g
<1>8. Typed'
  BY <1>1, <1>2, <1>5, <1>6, <1>7 DEF CeremonyInv, Typed
<1>9. Underway'
  BY <1>1, <1>2, <1>6, <1>7 DEF CeremonyInv, Typed, Underway, Ceremony!Enrolled
<1>10. Redeeming'
  BY <1>1, <1>2, <1>3, <1>4, <1>6 DEF CeremonyInv, Typed, Redeeming
<1>11. Ceremony!RevokeStands'
  BY <1>1, <1>2, <1>4, <1>6, <1>7 DEF CeremonyInv, Typed, Ceremony!RevokeStands, Ceremony!Enrolled
<1>12. QED
  BY <1>5, <1>8, <1>9, <1>10, <1>11 DEF CeremonyInv

LEMMA InvSignIn ==
    ASSUME CeremonyInv, NEW r \in Pair, Ceremony!Verify(r) \/ Ceremony!Answer(r)
             \/ Ceremony!WriteCount(r)
    PROVE  CeremonyInv'
<1>1. CASE Ceremony!Verify(r)
  <2> DEFINE entry == clients[doing[r].cred]
             new == [at |-> "verified", op |-> "login", now |-> doing[r].now,
                     challenge |-> doing[r].challenge, cred |-> doing[r].cred,
                       count |-> doing[r].count,
                     entry |-> entry]
  <2>1. /\ doing[r].at = "checked" /\ doing[r].op = "login"
        /\ UNCHANGED <<ticks, boot, minted, answered, Ceremony!files, lock, device,
             Ceremony!history>>
        /\ Ceremony!Done(r) \/ (entry # Ceremony!Absent /\ doing' = [doing EXCEPT ![r] = new])
    BY <1>1 DEF Ceremony!Verify
  <2>2. doing[r] \in SignsIn
    BY <2>1, Standing DEF CeremonyInv
  <2>3. CASE Ceremony!Done(r)
    BY <2>1, <2>3, InvDone
  <2>4. CASE entry # Ceremony!Absent /\ doing' = [doing EXCEPT ![r] = new]
    <3>1. entry \in Entries
      BY <2>2, <2>4 DEF CeremonyInv, Typed, SignsIn
    <3>2. /\ new \in Verified /\ new.at = "verified" /\ new.op = "login" /\ new.now = doing[r].now
          /\ new.challenge = doing[r].challenge /\ new.cred = doing[r].cred
               /\ new.count = doing[r].count
      BY <2>2, <3>1 DEF SignsIn, Verified
    <3>3. doing' = [doing EXCEPT ![r] = new]
      BY <2>4
    <3> HIDE DEF new
    <3>4. Typed' /\ Answered' /\ Ceremony!RevokeStands'
      BY <2>1, <3>2, <3>3 DEF Ceremony!files, Ceremony!history, CeremonyInv, Typed, Answered,
                              Ceremony!RevokeStands, Ceremony!Enrolled
    <3>5. Underway'
      BY <2>1, <3>2, <3>3 DEF Ceremony!files, CeremonyInv, Typed, Underway, Ceremony!Enrolled
    <3>6. Redeeming'
      BY <2>1, <3>2, <3>3 DEF Ceremony!files, Ceremony!history, CeremonyInv, Typed, Redeeming,
                              Ceremony!Enrolled
    <3>7. QED
      BY <3>4, <3>5, <3>6 DEF CeremonyInv
  <2>5. QED
    BY <2>1, <2>3, <2>4
<1>2. CASE Ceremony!Answer(r)
  <2>1. /\ doing[r].at = "verified" /\ Ceremony!MarkAnswered(r)
        /\ UNCHANGED <<ticks, boot, minted, Ceremony!files, lock, device, spent, enrolments,
             revocations>>
        /\ doing' \in {[doing EXCEPT ![r].at = "answered"], [doing EXCEPT ![r] = Ceremony!Idle]}
    BY <1>2 DEF Ceremony!Answer, Ceremony!Done
  <2>2. Answered' /\ answers' \in [Challenges -> Nat]
          /\ answered' \subseteq {h \in Challenges : minted[h] # Ceremony!Absent}
    BY <2>1, AnsweredMarked
  <2>3. PICK new : /\ doing' = [doing EXCEPT ![r] = new]
                   /\ new = Ceremony!Idle \/ new = [doing[r] EXCEPT !.at = "answered"]
    BY <2>1
  <2>4. doing[r] \in Verified
    BY <2>1, Standing DEF CeremonyInv
  <2>5. /\ new = Ceremony!Idle \/ new \in Verified
        /\ new.at # "redeemed"
        /\ new.at # "idle" => /\ new.challenge = doing[r].challenge /\ new.now = doing[r].now
                             /\ new.op = "login" /\ new.count = doing[r].count
                                  /\ new.cred = doing[r].cred
    BY <2>3, <2>4, Values DEF Verified, Ceremony!Idle
  <2>6. Typed' /\ Ceremony!RevokeStands'
    BY <2>1, <2>2, <2>3, <2>5 DEF Ceremony!files, CeremonyInv, Typed, Ceremony!RevokeStands,
                                  Ceremony!Enrolled
  <2>7. Underway'
    <3>1. doing[r].op = "login"
      BY <2>4 DEF Verified
    <3>2. QED
      BY <2>1, <2>3, <2>5, <3>1 DEF Ceremony!files, CeremonyInv, Typed, Underway,
                                    Ceremony!Enrolled
  <2>8. Redeeming'
    BY <2>1, <2>3, <2>5 DEF Ceremony!files, CeremonyInv, Typed, Redeeming, Ceremony!Enrolled
  <2>9. QED
    BY <2>2, <2>6, <2>7, <2>8 DEF CeremonyInv
<1>3. CASE Ceremony!WriteCount(r)
  <2> DEFINE c == doing[r].cred
  <2>1. /\ doing[r].at = "answered" /\ lock = "free" /\ Ceremony!Done(r)
        /\ UNCHANGED <<ticks, boot, minted, answered, grants, invites, issued, lock, device,
                       answers, spent, enrolments, revocations>>
        /\ \/ Ceremony!Enrolled(c) /\ clients' = [clients EXCEPT ![c].count = doing[r].count]
           \/ UNCHANGED clients
    BY <1>3 DEF Ceremony!WriteCount
  <2>2. CASE UNCHANGED clients
    BY <2>1, <2>2, InvDone DEF Ceremony!files, Ceremony!history
  <2>3. CASE Ceremony!Enrolled(c) /\ clients' = [clients EXCEPT ![c].count = doing[r].count]
    <3>1. doing[r] \in Verified /\ c \in Creds /\ doing[r].count \in Nat
            /\ doing[r].count <= device[c]
      BY <2>1, Standing DEF CeremonyInv, Underway, Verified
    <3>2. clients[c] \in Entries
      BY <2>3, <3>1 DEF CeremonyInv, Typed, Ceremony!Enrolled
    <3>3. PICK new : /\ clients' = [clients EXCEPT ![c] = new]
                     /\ new = [clients[c] EXCEPT !.count = doing[r].count]
      BY <2>3
    <3>4. new \in Entries /\ new # Ceremony!Absent /\ new.count = doing[r].count
      BY <3>1, <3>2, <3>3, Values DEF Entries
    <3>5. doing' = [doing EXCEPT ![r] = Ceremony!Idle] /\ doing'[r].at = "idle"
      BY <2>1, Values DEF Ceremony!Done, CeremonyInv, Typed
    <3> HIDE DEF c
    <3>6. Typed' /\ Answered'
      BY <2>1, <3>1, <3>3, <3>4, <3>5 DEF CeremonyInv, Typed, Answered
    <3>7. Underway'
      BY <2>1, <3>1, <3>3, <3>4, <3>5 DEF CeremonyInv, Typed, Underway, Ceremony!Enrolled
    <3>8. Redeeming'
      <4>1. \A q \in Pair : doing'[q].at # "redeemed" /\ lock' # q
        BY <2>1, <3>5 DEF CeremonyInv, Typed, Redeeming, Ceremony!CeremonyConstants
      <4>2. QED
        BY <2>1, <4>1 DEF CeremonyInv, Redeeming
    <3>9. Ceremony!RevokeStands'
      BY <2>1, <2>3, <3>1, <3>3, <3>4 DEF CeremonyInv, Typed, Ceremony!RevokeStands,
                                          Ceremony!Enrolled
    <3>10. QED
      BY <3>6, <3>7, <3>8, <3>9 DEF CeremonyInv
  <2>4. QED
    BY <2>1, <2>2, <2>3
<1>4. QED
  BY <1>1, <1>2, <1>3

LEMMA CeremonyStep ==
    ASSUME CeremonyInv, [Ceremony!Next]_(Ceremony!vars)
    PROVE  CeremonyInv'
<1>1. CASE UNCHANGED Ceremony!vars
  BY <1>1 DEF Ceremony!vars, Ceremony!files, Ceremony!history, CeremonyInv, Typed, Underway,
              Answered, Redeeming,
              Ceremony!RevokeStands, Ceremony!Enrolled
<1>2. CASE Ceremony!CommandLine
  BY <1>2, InvInvite, InvRevoke, InvWorld DEF Ceremony!CommandLine
<1>3. ASSUME NEW r \in Pair, Ceremony!RequestStep(r) PROVE CeremonyInv'
  BY <1>3, InvCheck, InvRedeem, InvEnrol, InvSignIn DEF Ceremony!RequestStep
<1>4. QED
  BY <1>1, <1>2, <1>3, InvMint, InvWorld DEF Ceremony!Next

LEMMA CeremoniesKeep == PartsSpec => []CeremonyInv
<1>1. PartsInit => CeremonyInv
  BY CeremonyBounds, CeremonyInit DEF PartsInit
<1>2. ASSUME CeremonyInv, [PartsNext]_partsVars PROVE CeremonyInv'
  <2>1. [Ceremony!Next]_(Ceremony!vars)
    BY <1>2 DEF PartsNext, partsVars, ceremonyVars, Ceremony!vars, Ceremony!files,
      Ceremony!history
  <2>2. QED
    BY <1>2, <2>1, CeremonyStep
<1>3. QED
  BY <1>1, <1>2, PTL DEF PartsSpec

-----------------------------------------------------------------------------
(* The three parts together.                                               *)

SessionsAll ==
    /\ part = "restarts" => SessionsInv(Restarts)
    /\ part # "restarts" => SessionsInv(Crowd)

LEMMA SessionsKeep == PartsSpec => []SessionsAll
<1>1. PartsInit => SessionsAll
  BY SiteBounds, InvInit DEF PartsInit, SessionsAll
<1>2. ASSUME SessionsAll, [PartsNext]_partsVars PROVE SessionsAll'
  <2>1. UNCHANGED part
    BY <1>2 DEF PartsNext, partsVars
  <2>2. CASE part = "restarts"
    <3>1. [Site(Restarts)!Next]_(Site(Restarts)!vars)
      BY <1>2, <2>2 DEF PartsNext, partsVars, sessionVars, Site!vars, Site!authority,
                        Site!memory, Site!bounds, Site!history
    <3>2. SessionsInv(Restarts)'
      BY <1>2, <2>2, <3>1, SiteBounds, InvStep DEF SessionsAll
    <3>3. QED
      BY <2>1, <2>2, <3>2 DEF SessionsAll
  <2>3. CASE part # "restarts"
    <3>1. [Site(Crowd)!Next]_(Site(Crowd)!vars)
      BY <1>2, <2>3 DEF PartsNext, partsVars, sessionVars, Site!vars, Site!authority,
                        Site!memory, Site!bounds, Site!history
    <3>2. SessionsInv(Crowd)'
      BY <1>2, <2>3, <3>1, SiteBounds, InvStep DEF SessionsAll
    <3>3. QED
      BY <2>1, <2>3, <3>2 DEF SessionsAll
  <2>4. QED
    BY <2>2, <2>3
<1>3. QED
  BY <1>1, <1>2, PTL DEF PartsSpec

LEMMA SessionsImplied ==
    ASSUME SessionsAll
    PROVE  /\ IF part = "restarts" THEN Site(Restarts)!TypeOK ELSE Site(Crowd)!TypeOK
           /\ EndedStaysEnded /\ CleanFileIsTheTable
<1>1. CASE part = "restarts"
  <2>1. /\ Site(Restarts)!TypeOK /\ Site(Restarts)!NothingEndedComesBack
        /\ Site(Restarts)!NamedIsEndedOnceRead /\ Site(Restarts)!CleanFileIsTheTable
    BY <1>1, SiteBounds, Implied DEF SessionsAll
  <2>2. QED
    BY <1>1, <2>1 DEF EndedStaysEnded, CleanFileIsTheTable, Site!EndedStaysEnded
<1>2. CASE part # "restarts"
  <2>1. /\ Site(Crowd)!TypeOK /\ Site(Crowd)!NothingEndedComesBack
        /\ Site(Crowd)!NamedIsEndedOnceRead /\ Site(Crowd)!CleanFileIsTheTable
    BY <1>2, SiteBounds, Implied DEF SessionsAll
  <2>2. QED
    BY <1>2, <2>1 DEF EndedStaysEnded, CleanFileIsTheTable, Site!EndedStaysEnded
<1>3. QED
  BY <1>1, <1>2

-----------------------------------------------------------------------------
\* identity.rs: whichever part moves, every value a ceremony keeps is of its type, and an entry
\* never counts past its authenticator; every session is of a token that was minted, in the
\* table and in the file, and neither ever holds more than MAX_PENDING of them.
THEOREM PasskeyTyping == PartsSpec => []PartsTypeOK
<1>1. CeremonyInv /\ SessionsAll => PartsTypeOK
  BY CeremonyImplied, SessionsImplied DEF PartsTypeOK
<1>2. QED
  BY <1>1, CeremoniesKeep, SessionsKeep, PTL

\* identity.rs: a session that ended is out of the table until the process stops, also when the
\* save of its ending failed; once any save since was written it is out of the file too, and no
\* restart brings it back; and a session that a line of passkeys.log names is gone once the line
\* is read.  (An ending that no save covered is undone by a restart.)
THEOREM SessionsStayEnded == PartsSpec => []EndedStaysEnded
<1>1. SessionsAll => EndedStaysEnded
  BY SessionsImplied
<1>2. QED
  BY <1>1, SessionsKeep, PTL

\* identity.rs: a file that is not behind is the table, and of last_seen a restart loses less
\* than SEEN_WRITE_SECONDS unless a save has failed.
THEOREM FilesAreTheTable == PartsSpec => []CleanFileIsTheTable
<1>1. SessionsAll => CleanFileIsTheTable
  BY SessionsImplied
<1>2. QED
  BY <1>1, SessionsKeep, PTL

\* identity.rs: a challenge is answered once for as long as it lives, however many requests
\* carry it at once and over a restart; an invite enrols one passkey; the lock on clients.json
\* is held by the registration under way and nobody else; and no sign-in under way brings a
\* passkey back that was revoked meanwhile.
THEOREM CeremoniesStayFinal == PartsSpec => []CeremoniesAreFinal
<1>1. CeremonyInv => CeremoniesAreFinal
  BY CeremonyImplied DEF CeremoniesAreFinal
<1>2. QED
  BY <1>1, CeremoniesKeep, PTL

=============================================================================
