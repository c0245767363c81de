----------------------------- MODULE MCPasskeys -----------------------------
(* The passkeys, in one run of three parts that share no state: the         *)
(* ceremonies (two requests at once over two challenges, two invites and    *)
(* one passkey), the sessions of a crowd (two of one passkey, two requests  *)
(* at once, a bound of one session and so on), and the sessions again with  *)
(* longer lives, one request, and a failed save, a restart and an edit      *)
(* between.                                                                 *)
EXTENDS Naturals, TLC

CONSTANTS
    Creds, Tokens, Requests, IdleBound, WriteLife, ReadLife, SeenWrite, ReadMax, MaxSessions,
    MaxTime, MaxLines, MaxTroubles,                   \* PasskeySessions
    Pair,           \* two requests at once
    Challenges, Invites, Grants, Lasting, MaxSignatures, MaxRevokes, MaxBoots   \* PasskeyCeremony

VARIABLES
    part,
    ticks, boot, minted, answered, clients, grants, invites, issued, lock, doing, device,
    answers, spent, enrolments, revocations,
    clock, enrolled, grant, revoking, log, up, table, logSeen, dirty, file, req, opened,
    edits, starts, failures, ended, written, named, overtaken, used

Ceremony == INSTANCE PasskeyCeremony WITH Requests <- Pair, clock <- ticks, req <- doing

\* The sessions of a server: who may ask at once, how long a session lives, and the bounds.
Site(v) == INSTANCE PasskeySessions
             WITH Requests <- v.requests, IdleBound <- v.idle, ReadLife <- v.life,
                  MaxSessions <- v.sessions, MaxTime <- v.time, MaxTroubles <- v.troubles

Crowd == [requests |-> Pair, idle |-> 1, life |-> 2, sessions |-> 1, time |-> 1, troubles |-> 2]
Restarts == [requests |-> Requests, idle |-> IdleBound, life |-> ReadLife,
             sessions |-> MaxSessions, time |-> MaxTime, troubles |-> MaxTroubles]

ASSUME CeremonyBounds == Ceremony!CeremonyConstants
ASSUME SiteBounds == Site(Crowd)!SessionConstants /\ Site(Restarts)!SessionConstants

Symmetry == Permutations(Tokens) \union Permutations(Pair)

ceremonyVars == <<ticks, boot, minted, answered, clients, grants, invites, issued, lock, doing,
                  device, answers, spent, enrolments, revocations>>
sessionVars == <<clock, enrolled, grant, revoking, log, up, table, logSeen, dirty, file, req,
                 opened, edits, starts, failures, ended, written, named, overtaken, used>>
partsVars == <<part, ceremonyVars, sessionVars>>

PartsInit ==
    /\ part \in {"ceremonies", "crowd", "restarts"}
    /\ Ceremony!Init /\ (part # "ceremonies" => \A c \in Creds : Ceremony!Enrolled(c))
    /\ IF part = "restarts" THEN Site(Restarts)!Init ELSE Site(Crowd)!Init
    /\ part = "ceremonies" => grant = [c \in Creds |-> "read"]

PartsNext ==
    /\ \/ part = "ceremonies" /\ Ceremony!Next /\ UNCHANGED sessionVars
       \/ part = "crowd" /\ Site(Crowd)!Next /\ UNCHANGED ceremonyVars
       \/ part = "restarts" /\ Site(Restarts)!Next /\ UNCHANGED ceremonyVars
    /\ UNCHANGED part

PartsSpec == PartsInit /\ [][PartsNext]_partsVars

-----------------------------------------------------------------------------
(* Each is stated, with the code's words, in PasskeySessions and in         *)
(* PasskeyCeremony.                                                         *)

\* The types of all three, the bound on the sessions among them.
PartsTypeOK ==
    /\ Ceremony!TypeOK
    /\ IF part = "restarts" THEN Site(Restarts)!TypeOK ELSE Site(Crowd)!TypeOK

\* identity.rs: no session that ended comes back while the process runs, nor by a restart once
\* a save since its ending was written; one that a line of passkeys.log names is gone once the
\* line is read, in the table and in the file.
EndedStaysEnded ==
    IF part = "restarts" THEN Site(Restarts)!EndedStaysEnded
                         ELSE Site(Crowd)!EndedStaysEnded

\* identity.rs: a sessions.json that is not behind has the sessions of the table, and what
\* it lacks of a last_seen is less than SEEN_WRITE_SECONDS.
CleanFileIsTheTable ==
    IF part = "restarts" THEN Site(Restarts)!CleanFileIsTheTable
                         ELSE Site(Crowd)!CleanFileIsTheTable

\* identity.rs: what a ceremony ends stays ended: a challenge is answered once while it lives,
\* an invite enrols one passkey, and the lock on clients.json is held by the registration under
\* way and nobody else; a passkey that was revoked stays revoked, whatever a sign-in that was
\* on its way writes back.
CeremoniesAreFinal == Ceremony!SpentOnce /\ Ceremony!RevokeStands
=============================================================================
