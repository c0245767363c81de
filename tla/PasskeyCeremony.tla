-------------------------- MODULE PasskeyCeremony --------------------------
(***************************************************************************)
(* Enrolling and signing in with a passkey, src/src/identity.rs: sealed    *)
(* single-use challenges, single-use invites, and the read-modify-writes   *)
(* of clients.json under its file lock, with a revoke or an invite of      *)
(* another process falling between any two steps of a request.  A request  *)
(* reads the clock once, when it arrives.                                  *)
(*                                                                         *)
(* The verification of an assertion (the ikigai-passkey crate) is external *)
(* and stands for its counter rule: a signature's counter is newer than    *)
(* the one in the entry it was verified against.                           *)
(***************************************************************************)
EXTENDS Naturals, FiniteSets

CONSTANTS
    Creds,          \* passkeys, by credential id
    Challenges,     \* challenges there are to mint
    Invites,        \* invite codes there are to issue
    Grants,         \* grant names
    Requests,       \* requests the server may be answering at once
    Lasting,        \* CHALLENGE_SECONDS and an invite's minutes, in ticks
    MaxTime,        \* bound: ticks of the clock
    MaxSignatures,  \* bound: assertions an authenticator signs
    MaxRevokes,     \* bound: revokes
    MaxBoots        \* bound: starts of the server

\* What is assumed of them: a bound is a number, and the lock's owner can be told from nobody.
CeremonyConstants ==
    /\ "free" \notin Requests
    /\ {Lasting, MaxTime, MaxSignatures, MaxRevokes, MaxBoots} \subseteq Nat

VARIABLES
    clock,
    boot,        \* which start of the server this is: its challenges' sealing key
    minted,      \* minted[h]: purpose, expiry and sealing key of a minted challenge
    answered,    \* State.answered: challenges answered and not yet pruned
    clients,     \* clients.json: the entry of each enrolled passkey
    grants,      \* grants.json: the grants that resolve
    invites,     \* invites.json: grant and expiry of each live invite
    issued,      \* invite codes issued so far: a code is random, never issued twice
    lock,        \* who holds the lock on clients.json across steps
    req,         \* what each request is doing
    device,      \* the authenticators' own counters
    answers,     \* history: ceremonies each challenge was accepted for
    spent,       \* history: enrolments each invite paid for
    enrolments, revocations   \* history, by passkey

files == <<clients, grants, invites, issued>>
history == <<answers, spent, enrolments, revocations>>
vars == <<clock, boot, minted, answered, files, lock, req, device, history>>

Idle == [at |-> "idle"]
Absent == [state |-> "absent"]
Entry(g, n) == [state |-> "enrolled", grant |-> g, count |-> n]

Enrolled(c) == clients[c] # Absent

Init ==
    /\ clock = 0 /\ boot = 1
    /\ minted = [h \in Challenges |-> Absent]
    /\ answered = {}
    /\ \E g \in Grants : clients \in [Creds -> {Absent, Entry(g, 0)}]
    /\ grants = Grants
    /\ invites = [i \in Invites |-> Absent] /\ issued = {}
    /\ lock = "free"
    /\ req = [r \in Requests |-> Idle]
    /\ device = [c \in Creds |-> 0]
    /\ answers = [h \in Challenges |-> 0]
    /\ spent = [i \in Invites |-> 0]
    /\ enrolments = [c \in Creds |-> IF clients[c] = Absent THEN 0 ELSE 1]
    /\ revocations = [c \in Creds |-> 0]

-----------------------------------------------------------------------------
(* Challenges: held by nobody until one is answered.                       *)

\* challenge: seals a purpose and an expiry under this start's key.
Mint(h, purpose) ==
    /\ minted[h] = Absent
    /\ minted' = [minted EXCEPT ![h] = [state |-> "minted", purpose |-> purpose,
                                        expires |-> clock + Lasting, key |-> boot]]
    /\ UNCHANGED <<clock, boot, answered, files, lock, req, device, history>>

\* check_challenge, at the time `n` the request arrived.
Valid(h, purpose, n) ==
    /\ minted[h] # Absent /\ minted[h].key = boot
    /\ h \notin answered
    /\ minted[h].purpose = purpose /\ minted[h].expires > n

\* answer_challenge first forgets what has expired by the request's clock.
Kept(n) == {h \in answered : minted[h].expires > n}

\* Mutant: whether the challenge was answered meanwhile is not looked at.
AnswerAnyway(r) == TRUE

MayAnswer(r) == req[r].challenge \notin Kept(req[r].now)

MarkAnswered(r) ==
    /\ answered' = Kept(req[r].now) \union {req[r].challenge}
    /\ answers' = IF MayAnswer(r) THEN [answers EXCEPT ![req[r].challenge] = @ + 1]
                                  ELSE answers

Done(r) == req' = [req EXCEPT ![r] = Idle]

-----------------------------------------------------------------------------
(* The command line, in processes of its own.                              *)

\* invite: put_grant, then under the invites lock drop what expired and add one.
Invite(i, g) ==
    /\ i \notin issued
    /\ grants' = grants \union {g}
    /\ invites' = [j \in Invites |->
                      IF j = i THEN [state |-> "live", grant |-> g, expires |-> clock + Lasting]
                      ELSE IF invites[j] # Absent /\ invites[j].expires <= clock THEN Absent
                      ELSE invites[j]]
    /\ issued' = issued \union {i}
    /\ UNCHANGED <<clock, boot, minted, answered, clients, lock, req, device, history>>

\* revoke's change of clients.json, under its lock (PasskeySessions has its log line).
Revoke(c) ==
    /\ lock = "free" /\ Enrolled(c) /\ revocations[c] < MaxRevokes
    /\ clients' = [clients EXCEPT ![c] = Absent]
    /\ revocations' = [revocations EXCEPT ![c] = @ + 1]
    /\ UNCHANGED <<clock, boot, minted, answered, grants, invites, issued, lock, req, device,
                   answers, spent, enrolments>>

\* Somebody takes a grant out of grants.json.
DropGrant(g) ==
    /\ grants' = grants \ {g}
    /\ g \in grants
    /\ UNCHANGED <<clock, boot, minted, answered, clients, invites, issued, lock, req, device,
                   history>>

-----------------------------------------------------------------------------
(* register.                                                               *)

RegisterCheck(r, h, c, i) ==
    /\ req[r] = Idle /\ Valid(h, "register", clock)
    /\ req' = [req EXCEPT ![r] = [at |-> "checked", op |-> "register", now |-> clock,
                                  challenge |-> h, cred |-> c, invite |-> i]]
    /\ UNCHANGED <<clock, boot, minted, answered, files, lock, device, history>>

\* With the clients lock taken: the credential is new, and redeem takes the
\* invite out of invites.json.  An expired one is taken out and refused.
Redeem(r) ==
    /\ req[r].at = "checked" /\ req[r].op = "register" /\ lock = "free"
    /\ IF Enrolled(req[r].cred) \/ invites[req[r].invite] = Absent
       THEN Done(r) /\ UNCHANGED <<invites, lock>>
       ELSE /\ invites' = [invites EXCEPT ![req[r].invite] = Absent]
            /\ IF invites[req[r].invite].expires <= req[r].now
               THEN Done(r) /\ UNCHANGED lock
               ELSE /\ lock' = r
                    /\ req' = [req EXCEPT ![r] =
                         [at |-> "redeemed", op |-> "register", now |-> @.now,
                          challenge |-> @.challenge, cred |-> @.cred, invite |-> @.invite,
                          grant |-> invites[@.invite].grant]]
    /\ UNCHANGED <<clock, boot, minted, answered, clients, grants, issued, device, history>>

\* Still under the lock: the grant resolves, the challenge is answered, and the
\* entry is written, or the write fails.  The invite is spent in every case.
Enrol(r) ==
    /\ req[r].at = "redeemed"
    /\ LET c == req[r].cred IN
       IF req[r].grant \notin grants
       THEN UNCHANGED <<answered, clients, history>>
       ELSE /\ MarkAnswered(r)
            /\ \/ /\ MayAnswer(r)
                  /\ clients' = [clients EXCEPT ![c] = Entry(req[r].grant, 0)]
                  /\ enrolments' = [enrolments EXCEPT ![c] = @ + 1]
                  /\ spent' = [spent EXCEPT ![req[r].invite] = @ + 1]
               \/ UNCHANGED <<clients, enrolments, spent>>
            /\ UNCHANGED revocations
    /\ lock' = "free"
    /\ Done(r)
    /\ UNCHANGED <<clock, boot, minted, grants, invites, issued, device>>

-----------------------------------------------------------------------------
(* sign_in.                                                                *)

\* The person's authenticator signs the challenge, and the request arrives.
SignInCheck(r, h, c) ==
    /\ req[r] = Idle /\ Valid(h, "login", clock) /\ device[c] < MaxSignatures
    /\ device' = [device EXCEPT ![c] = @ + 1]
    /\ req' = [req EXCEPT ![r] = [at |-> "checked", op |-> "login", now |-> clock,
                                  challenge |-> h, cred |-> c, count |-> device'[c]]]
    /\ UNCHANGED <<clock, boot, minted, answered, files, lock, history>>

\* The entry as it is read now is what the assertion is verified against.
Verify(r) ==
    /\ req[r].at = "checked" /\ req[r].op = "login"
    /\ LET entry == clients[req[r].cred] IN
       IF entry # Absent /\ req[r].count > entry.count
       THEN req' = [req EXCEPT ![r] =
                      [at |-> "verified", op |-> "login", now |-> @.now,
                       challenge |-> @.challenge, cred |-> @.cred, count |-> @.count,
                       entry |-> entry]]
       ELSE Done(r)
    /\ UNCHANGED <<clock, boot, minted, answered, files, lock, device, history>>

Answer(r) ==
    /\ req[r].at = "verified"
    /\ MarkAnswered(r)
    /\ IF MayAnswer(r) THEN req' = [req EXCEPT ![r].at = "answered"] ELSE Done(r)
    /\ UNCHANGED <<clock, boot, minted, files, lock, device, spent, enrolments, revocations>>

\* Mutant: the entry read before the verification is written back.
WriteCountBack(r) ==
    /\ req[r].at = "answered" /\ lock = "free"
    /\ LET c == req[r].cred IN
       /\ clients' = [clients EXCEPT ![c] = [req[r].entry EXCEPT !.count = req[r].count]]
    /\ Done(r)
    /\ UNCHANGED <<clock, boot, minted, answered, grants, invites, issued, lock, device,
                   answers, spent, enrolments, revocations>>

\* Mutant: the counter written is the next one expected, not the one seen.
WriteCountNext(r) ==
    /\ req[r].at = "answered" /\ lock = "free"
    /\ LET c == req[r].cred IN
       IF Enrolled(c) /\ clients[c].grant = req[r].entry.grant
       THEN /\ clients' = [clients EXCEPT ![c].count = req[r].count + 1]
       ELSE UNCHANGED clients
    /\ Done(r)
    /\ UNCHANGED <<clock, boot, minted, answered, grants, invites, issued, lock, device,
                   answers, spent, enrolments, revocations>>

\* Decided again under the lock, against the file as it is NOW; then the counter
\* is written, and the request goes on to open a session (PasskeySessions).
WriteCount(r) ==
    /\ req[r].at = "answered" /\ lock = "free"
    /\ LET c == req[r].cred IN
       IF Enrolled(c) /\ clients[c].grant = req[r].entry.grant
       THEN /\ clients' = [clients EXCEPT ![c].count = req[r].count]
       ELSE UNCHANGED clients
    /\ Done(r)
    /\ UNCHANGED <<clock, boot, minted, answered, grants, invites, issued, lock, device,
                   answers, spent, enrolments, revocations>>

-----------------------------------------------------------------------------
Tick ==
    /\ clock < MaxTime
    /\ clock' = clock + 1
    /\ UNCHANGED <<boot, minted, answered, files, lock, req, device, history>>

\* A restart draws a new sealing key; a lock goes with the process that held it.
Restart ==
    /\ boot < MaxBoots
    /\ boot' = boot + 1
    /\ answered' = {}
    /\ lock' = "free"
    /\ req' = [r \in Requests |-> Idle]
    /\ UNCHANGED <<clock, minted, files, device, history>>

CommandLine ==
    \/ \E i \in Invites, g \in Grants : Invite(i, g)
    \/ \E c \in Creds : Revoke(c)
    \/ \E g \in Grants : DropGrant(g)

RequestStep(r) ==
    \/ \E h \in Challenges, c \in Creds :
          SignInCheck(r, h, c) \/ \E i \in Invites : RegisterCheck(r, h, c, i)
    \/ Redeem(r) \/ Enrol(r) \/ Verify(r) \/ Answer(r) \/ WriteCount(r)

Next ==
    \/ Tick \/ Restart \/ CommandLine
    \/ \E h \in Challenges, p \in {"register", "login"} : Mint(h, p)
    \/ \E r \in Requests : RequestStep(r)

Spec == Init /\ [][Next]_vars

-----------------------------------------------------------------------------
TypeOK ==
    /\ clock \in Nat /\ boot \in Nat
    /\ answered \subseteq {h \in Challenges : minted[h] # Absent}
    /\ \A c \in Creds : Enrolled(c) => clients[c].grant \in Grants /\ clients[c].count \in 0 .. device[c]
    /\ grants \subseteq Grants /\ issued \subseteq Invites
    /\ \A i \in Invites : invites[i] # Absent => i \in issued /\ invites[i].grant \in Grants
    /\ lock \in Requests \union {"free"}
    /\ \A r \in Requests :
          req[r].at \in {"idle", "checked", "redeemed", "verified", "answered"}

\* What makes a challenge single-use: for as long as it has not expired, at most one ceremony
\* is accepted on it, however many requests carry it at once.  And an invite enrols one passkey
\* at most, whatever else is issued or redeemed meanwhile (#2777), a spent one is not in the
\* file again, and the clients lock is never left behind by the registration that redeemed it.
SpentOnce ==
    /\ \A h \in Challenges : answers[h] > 1 => clock >= minted[h].expires
    /\ \A i \in Invites : spent[i] <= 1 /\ (spent[i] = 1 => invites[i] = Absent)
    /\ \A r \in Requests : lock = r <=> req[r].at = "redeemed"

\* A revoke is never undone by a sign-in running at the same time (#2776): a
\* passkey is enrolled exactly when it was enrolled once more than revoked.
RevokeStands ==
    \A c \in Creds : enrolments[c] = revocations[c] + (IF Enrolled(c) THEN 1 ELSE 0)

=============================================================================
