-------------------------- MODULE PasskeySessions --------------------------
(***************************************************************************)
(* The session table of src/src/identity.rs: opened by a sign-in, kept in  *)
(* memory and in gonk/sessions.json, ended by a sign-out, a bound, a       *)
(* revoke or a line another process appends to gonk/passkeys.log, and      *)
(* restored at a start.  A request takes the table's mutex twice and reads *)
(* clients.json and grants.json in between, without it.  A save may fail:  *)
(* memory then stands, and the file is behind until a later save.          *)
(***************************************************************************)
EXTENDS Naturals, Sequences, FiniteSets

CONSTANTS
    Creds,        \* passkeys, by credential id
    Tokens,       \* the session tokens there are to mint
    Requests,     \* requests the server may be answering at once
    IdleBound,    \* gonk.http.session_idle_minutes
    WriteLife,    \* SESSION_SECONDS, the lifetime under a grant that writes
    ReadLife,     \* gonk.http.session_max_hours, under a grant that only reads
    SeenWrite,    \* SEEN_WRITE_SECONDS
    ReadMax,      \* LOG_READ_MAX, in lines
    MaxSessions,  \* MAX_PENDING
    MaxTime,      \* bound: ticks of the clock
    MaxLines,     \* bound: lines appended to passkeys.log
    MaxTroubles   \* bound: edits of the authority files, starts and failed saves, in all

\* What is assumed of them: a bound is a number, and a seen is written at most once a tick.
SessionConstants ==
    /\ {IdleBound, WriteLife, ReadLife, ReadMax, MaxSessions} \subseteq Nat
    /\ SeenWrite \in Nat \ {0}
    /\ {MaxTime, MaxLines, MaxTroubles} \subseteq Nat

VARIABLES
    clock,
    enrolled,    \* clients.json: the passkeys enrolled
    grant,       \* grants.json: what each passkey's grant lets it do
    revoking,    \* revokes between their change of clients.json and their log line
    log,         \* passkeys.log: the passkey each line names
    up,          \* the server runs
    table,       \* State.sessions: a function of the live tokens
    logSeen,     \* State.log_seen
    dirty,       \* State.dirty
    file,        \* sessions.json: its sessions and its log_seen, or nothing
    req,         \* what each request is doing
    opened,      \* tokens minted so far: a token is random, never minted twice
    edits, starts, failures,   \* how much of each bound is used
    ended,       \* history: sessions that ended since the start
    written,     \* history: sessions whose ending a save that did not fail has covered
    named,       \* history: sessions that existed when a line named their passkey
    overtaken,   \* history: sessions whose sign-in an unenrolment overtook
    used         \* history: the last request that carried each session

authority == <<enrolled, grant, revoking, log>>
memory == <<table, logSeen, dirty>>
bounds == <<edits, starts, failures>>
history == <<ended, written, named, overtaken, used>>
vars == <<clock, authority, up, memory, file, req, opened, bounds, history>>

NoFile == [there |-> FALSE, seen |-> 0, sessions |-> <<>>]
Idle == [at |-> "idle"]

Least(m, n) == IF m <= n THEN m ELSE n
Without(T, S) == [t \in DOMAIN T \ S |-> T[t]]
Of(T, cs) == {t \in DOMAIN T : T[t].cred \in cs}

Init ==
    /\ clock = 0
    /\ enrolled = Creds /\ grant \in [Creds -> {"read", "write"}]
    /\ revoking = {} /\ log = <<>>
    /\ up = FALSE
    /\ table = <<>> /\ logSeen = 0 /\ dirty = FALSE
    /\ file = NoFile
    /\ req = [r \in Requests |-> Idle]
    /\ opened = {}
    /\ edits = 0 /\ starts = 0 /\ failures = 0
    /\ ended = {} /\ written = {} /\ named = {} /\ overtaken = {}
    /\ used = [t \in Tokens |-> 0]

-----------------------------------------------------------------------------
(* The helpers every operation is made of, each under the mutex.           *)

\* Session::over
Over(s, n) == s.expires <= n \/ s.last_seen + IdleBound <= n

\* read_log: up to which line this read gets, and the passkeys those lines name.
\* A log shorter than what was read is read from its start.
ReadFrom(seen) == IF Len(log) < seen THEN 0 ELSE seen
ReadTo(seen) == Least(Len(log), ReadFrom(seen) + ReadMax)
\* Mutant: the first line that is news is taken for the last one read.
NamedSkipsOne(seen) == {log[i] : i \in ReadFrom(seen) + 2 .. ReadTo(seen)}

Named(seen) == {log[i] : i \in ReadFrom(seen) + 1 .. ReadTo(seen)}
AfterLog(T, seen) == Without(T, Of(T, Named(seen)))

\* save: T and `seen` are what the operation made of memory, and `changed`
\* whether it changed them.  A file written holds every session and the offset.
Save(T, seen, changed) ==
    LET stored == [t \in DOMAIN T |-> [T[t] EXCEPT !.stored_seen = T[t].last_seen]]
        gone == opened \ DOMAIN T
    IN  /\ logSeen' = seen
        /\ ended' = ended \union gone
        /\ \/ /\ ~changed /\ ~dirty
              /\ table' = T /\ dirty' = FALSE
              /\ written' = written \union gone
              /\ UNCHANGED <<file, failures>>
           \/ /\ changed \/ dirty
              /\ table' = stored /\ dirty' = FALSE
              /\ file' = [there |-> TRUE, seen |-> seen, sessions |-> stored]
              /\ written' = written \union gone
              /\ UNCHANGED failures
           \/ /\ changed \/ dirty
              /\ edits + starts + failures < MaxTroubles
              /\ table' = T /\ dirty' = TRUE
              /\ failures' = failures + 1
              /\ UNCHANGED <<file, written>>

Done(r) == req' = [req EXCEPT ![r] = Idle]

\* MAX_PENDING refuses, it never evicts.
Full(T) == Cardinality(DOMAIN T) >= MaxSessions

\* What a sign-in opens.
NewSession(q) == [cred |-> q.cred, issued |-> q.now, expires |-> q.expires,
                  last_seen |-> q.now, stored_seen |-> q.now]

\* Whether the file's last_seen is old enough to write again.
SeenIsOld(s, at) == at >= s.stored_seen + SeenWrite

\* lifetime: what the grant's scopes allow.
Lifetime(kind) == IF kind = "read" THEN ReadLife ELSE Least(ReadLife, WriteLife)

-----------------------------------------------------------------------------
(* The command line and the operator, in processes of their own.           *)

Edited == edits + starts + failures < MaxTroubles /\ edits' = edits + 1

\* revoke takes the entry out of clients.json, and then appends its line.
Revoke(c) ==
    /\ Edited
    /\ c \in enrolled
    /\ enrolled' = enrolled \ {c}
    /\ revoking' = revoking \union {c}
    /\ req' = [r \in Requests |->
                  IF req[r].at \in {"decided", "opening"} /\ req[r].cred = c
                  THEN [req[r] EXCEPT !.overtaken = TRUE] ELSE req[r]]
    /\ UNCHANGED <<clock, grant, log, up, memory, file, opened, starts, failures, history>>

\* record: the line of a revoke, or of `passkey logout --all`.
Line(c) ==
    /\ Len(log) < MaxLines
    /\ c \in revoking \union enrolled
    /\ log' = Append(log, c)
    /\ revoking' = revoking \ {c}
    /\ named' = named \union Of(table, {c}) \union Of(file.sessions, {c})
    /\ UNCHANGED <<clock, enrolled, grant, up, memory, file, req, opened, bounds, ended,
                   written, overtaken, used>>

\* The revoke's process ends, or its line cannot be written.
LineLost(c) ==
    /\ c \in revoking
    /\ revoking' = revoking \ {c}
    /\ UNCHANGED <<clock, enrolled, grant, log, up, memory, file, req, opened, bounds, history>>

\* A registration, or clients.json restored from a backup.
Enrol(c) ==
    /\ Edited
    /\ c \notin enrolled
    /\ enrolled' = enrolled \union {c}
    /\ UNCHANGED <<clock, grant, revoking, log, up, memory, file, req, opened, starts,
                   failures, history>>

Regrant(c) ==
    /\ Edited
    /\ \E kind \in {"read", "write", "none"} : grant' = [grant EXCEPT ![c] = kind]
    /\ UNCHANGED <<clock, enrolled, revoking, log, up, memory, file, req, opened, starts,
                   failures, history>>

-----------------------------------------------------------------------------
(* Start and stop.                                                         *)

\* new_at: with a file, its sessions that have not expired, and its place in the
\* log; with none, the log's lines are history.  Then read_log, and save.
Start ==
    /\ ~up /\ edits + starts + failures < MaxTroubles
    /\ up' = TRUE /\ starts' = starts + 1
    /\ LET kept == {t \in DOMAIN file.sessions : file.sessions[t].expires > clock}
           seen == IF file.there THEN file.seen ELSE Len(log)
           T == [t \in kept |-> file.sessions[t]]
       IN  Save(AfterLog(T, seen), ReadTo(seen),
                kept # DOMAIN file.sessions \/ ReadTo(seen) # seen)
    /\ UNCHANGED <<clock, authority, req, opened, edits, named, overtaken, used>>

Stop ==
    /\ up
    /\ up' = FALSE
    /\ table' = <<>> /\ logSeen' = 0 /\ dirty' = FALSE
    /\ req' = [r \in Requests |-> Idle]
    /\ ended' = {}
    /\ UNCHANGED <<clock, authority, file, opened, bounds, written, named, overtaken, used>>

-----------------------------------------------------------------------------
(* sign_in, from its decision under the clients lock to the open session.  *)

Decide(r, c) ==
    /\ up /\ req[r] = Idle /\ c \in enrolled
    /\ req' = [req EXCEPT ![r] = [at |-> "decided", cred |-> c, now |-> clock,
                                  overtaken |-> FALSE]]
    /\ UNCHANGED <<clock, authority, up, memory, file, opened, bounds, history>>

\* scopes_of: a grant that does not resolve refuses the sign-in.
Grant(r) ==
    /\ req[r].at = "decided"
    /\ LET kind == grant[req[r].cred] IN
       IF kind = "none" THEN Done(r)
       ELSE req' = [req EXCEPT ![r] = [at |-> "opening", cred |-> @.cred, now |-> @.now,
                                       expires |-> @.now + Lifetime(kind),
                                       overtaken |-> @.overtaken]]
    /\ UNCHANGED <<clock, authority, up, memory, file, opened, bounds, history>>

\* The log first, then what is over, then the bound, then the new session.
Open(r, t) ==
    /\ req[r].at = "opening" /\ t \notin opened
    /\ LET q == req[r]
           read == AfterLog(table, logSeen)
           live == Without(read, {u \in DOMAIN read : Over(read[u], q.now)})
       IN  IF Full(live)
           THEN /\ Save(live, ReadTo(logSeen),
                        DOMAIN live # DOMAIN read \/ ReadTo(logSeen) # logSeen)
                /\ UNCHANGED <<opened, used, overtaken>>
           ELSE /\ Save([u \in DOMAIN live \union {t} |-> IF u = t THEN NewSession(q) ELSE live[u]],
                        ReadTo(logSeen), TRUE)
                /\ opened' = opened \union {t}
                /\ used' = [used EXCEPT ![t] = q.now]
                /\ overtaken' = IF q.overtaken THEN overtaken \union {t} ELSE overtaken
    /\ Done(r)
    /\ UNCHANGED <<clock, authority, up, edits, starts, named>>

-----------------------------------------------------------------------------
(* identity: who a token is now; logout-all asks it first.                 *)

Look(r, t, op) ==
    /\ up /\ req[r] = Idle /\ t \in opened
    /\ LET read == AfterLog(table, logSeen)
           seen == ReadTo(logSeen)
           moved == seen # logSeen
       IN  IF t \notin DOMAIN read
           THEN Save(read, seen, moved) /\ Done(r)
           ELSE IF Over(read[t], clock)
           THEN Save(Without(read, {t}), seen, TRUE) /\ Done(r)
           ELSE /\ Save(read, seen, moved)
                /\ req' = [req EXCEPT ![r] =
                     [at |-> "found", op |-> op, token |-> t, now |-> clock,
                      cred |-> read[t].cred, issued |-> read[t].issued,
                      expires |-> read[t].expires]]
    /\ UNCHANGED <<clock, authority, up, opened, edits, starts, named, overtaken, used>>

\* current_passkeys: enrolled, not enrolled, or a file that cannot be read.
ReadClients(r) ==
    /\ req[r].at = "found"
    /\ \/ req' = [req EXCEPT ![r] = IF @.cred \in enrolled THEN [@ EXCEPT !.at = "enrolled"]
                                    ELSE [at |-> "unenrolled", cred |-> @.cred]]
       \/ Done(r)
    /\ UNCHANGED <<clock, authority, up, memory, file, opened, bounds, history>>

\* Mutant: the sessions go from memory, and nothing says the file is behind.
EndUnenrolledUnsaved(r) ==
    /\ req[r].at = "unenrolled"
    /\ Save(Without(table, Of(table, {req[r].cred})), logSeen, FALSE)
    /\ Done(r)
    /\ UNCHANGED <<clock, authority, up, opened, edits, starts, named, overtaken, used>>

EndUnenrolled(r) ==
    /\ req[r].at = "unenrolled"
    /\ LET theirs == Of(table, {req[r].cred})
       IN  Save(Without(table, theirs), logSeen, theirs # {})
    /\ Done(r)
    /\ UNCHANGED <<clock, authority, up, opened, edits, starts, named, overtaken, used>>

\* scopes_of, and the bound the grant sets as it is NOW.
ReadGrants(r) ==
    /\ req[r].at = "enrolled"
    /\ LET kind == grant[req[r].cred] IN
       IF kind = "none" THEN Done(r)
       ELSE req' = [req EXCEPT ![r].at = "resolved",
                               ![r].expires = Least(@, req[r].issued + Lifetime(kind))]
    /\ UNCHANGED <<clock, authority, up, memory, file, opened, bounds, history>>

\* The mutex again: the session may have ended meanwhile.
Commit(r) ==
    /\ req[r].at = "resolved"
    /\ LET q == req[r] IN
       IF q.expires <= q.now
       THEN /\ Save(Without(table, {q.token}), logSeen, q.token \in DOMAIN table)
            /\ Done(r) /\ UNCHANGED used
       ELSE IF q.token \notin DOMAIN table
       THEN Done(r) /\ UNCHANGED <<memory, file, ended, written, failures, used>>
       ELSE LET s == table[q.token]
                at == IF s.last_seen >= q.now THEN s.last_seen ELSE q.now
                T == [table EXCEPT ![q.token].last_seen = at]
            IN  /\ IF SeenIsOld(s, at)
                   THEN Save(T, logSeen, TRUE)
                   ELSE table' = T /\ UNCHANGED <<logSeen, dirty, file, ended, written,
                                                        failures>>
                /\ used' = [used EXCEPT ![q.token] = IF @ >= q.now THEN @ ELSE q.now]
                /\ IF q.op = "logout-all"
                   THEN req' = [req EXCEPT ![r] = [at |-> "ending", cred |-> q.cred]]
                   ELSE Done(r)
    /\ UNCHANGED <<clock, authority, up, opened, edits, starts, named, overtaken>>

\* logout_all: every session of the caller's own passkey.
EndAll(r) ==
    /\ req[r].at = "ending"
    /\ LET theirs == Of(table, {req[r].cred})
       IN  Save(Without(table, theirs), logSeen, theirs # {})
    /\ Done(r)
    /\ UNCHANGED <<clock, authority, up, opened, edits, starts, named, overtaken, used>>

\* Mutant: a sign-out is not written.
LogoutUnsaved(t) ==
    /\ up /\ t \in opened
    /\ Save(Without(table, {t}), logSeen, FALSE)
    /\ UNCHANGED <<clock, authority, up, req, opened, edits, starts, named, overtaken, used>>

\* logout: one step, under the mutex.
Logout(t) ==
    /\ up /\ t \in opened
    /\ Save(Without(table, {t}), logSeen, t \in DOMAIN table)
    /\ UNCHANGED <<clock, authority, up, req, opened, edits, starts, named, overtaken, used>>

-----------------------------------------------------------------------------
Tick ==
    /\ clock < MaxTime
    /\ clock' = clock + 1
    /\ UNCHANGED <<authority, up, memory, file, req, opened, bounds, history>>

RequestStep(r) ==
    \/ \E c \in Creds : Decide(r, c)
    \/ \E t \in Tokens : Open(r, t) \/ \E op \in {"page", "logout-all"} : Look(r, t, op)
    \/ Grant(r) \/ ReadClients(r) \/ EndUnenrolled(r) \/ ReadGrants(r) \/ Commit(r) \/ EndAll(r)

Next ==
    \/ \E c \in Creds : Revoke(c) \/ Line(c) \/ LineLost(c) \/ Enrol(c) \/ Regrant(c)
    \/ \E r \in Requests : RequestStep(r)
    \/ \E t \in Tokens : Logout(t)
    \/ Start \/ Stop \/ Tick

Spec == Init /\ [][Next]_vars

-----------------------------------------------------------------------------
SessionType ==
    [cred : Creds, issued : Nat, expires : Nat, last_seen : Nat, stored_seen : Nat]

TypeOK ==
    /\ clock \in Nat /\ up \in BOOLEAN /\ dirty \in BOOLEAN
    /\ enrolled \subseteq Creds /\ revoking \subseteq Creds
    /\ grant \in [Creds -> {"read", "write", "none"}]
    /\ log \in Seq(Creds) /\ logSeen \in Nat
    /\ DOMAIN table \subseteq opened /\ opened \subseteq Tokens
    /\ \A t \in DOMAIN table : table[t] \in SessionType
    /\ DOMAIN file.sessions \subseteq opened
    /\ \A t \in DOMAIN file.sessions : file.sessions[t] \in SessionType
    /\ Cardinality(DOMAIN table) <= MaxSessions /\ Cardinality(DOMAIN file.sessions) <= MaxSessions

\* A session that ended is out of the table until the process stops, whatever of its save
\* failed; and once any save has been written since, it is in neither the table nor the file
\* for good, whatever failed, stopped or started.  An ending whose own save failed, and that no
\* later one covered, comes back at a restart ("so nothing ended comes back after a restart").
NothingEndedComesBack ==
    /\ ended \cap DOMAIN table = {}
    /\ written \cap (DOMAIN table \union DOMAIN file.sessions) = {}

\* passkeys.log is the channel: a session that existed when a line named its
\* passkey is gone once that line is read, in memory and in the file, whose
\* sessions and offset are written together.
NamedIsEndedOnceRead ==
    /\ \A t \in named \cap DOMAIN table : logSeen < Len(log)
    /\ \A t \in named \cap DOMAIN file.sessions : file.seen < Len(log)

\* identity.rs: a session that ended, by a sign-out, a bound, or a line of passkeys.log that
\* was read, does not come back: not while the process runs, and not by a restart once a save
\* after it was written.
EndedStaysEnded == NothingEndedComesBack /\ NamedIsEndedOnceRead

\* The file is behind memory only while dirty says so, but for last_seen: a save that is
\* skipped or fails never leaves an ended session in a clean file.  Of last_seen a restart
\* loses less than SEEN_WRITE_SECONDS: it can make the idle bound end a session sooner, never
\* later, unless a save has failed.
CleanFileIsTheTable ==
    /\ up /\ ~dirty /\ file.there => /\ DOMAIN file.sessions = DOMAIN table
                                    /\ file.seen = logSeen
    /\ \A t \in DOMAIN table :
          /\ table[t].last_seen <= used[t]
          /\ failures = 0 => used[t] < table[t].last_seen + SeenWrite

-----------------------------------------------------------------------------
(* What the code's own words say, and its steps contradict.                *)

\* The module's words: a revoked passkey's sessions are deleted, never just
\* refused, so enrolling the same credential again brings none back; a fresh
\* sign-in is the only way to a new session.
FreshSignInOnly ==
    \A t \in overtaken \cap DOMAIN table :
        table[t].cred \in enrolled => logSeen < Len(log) \/ table[t].cred \in revoking

=============================================================================
