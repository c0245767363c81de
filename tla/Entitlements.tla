---------------------------- MODULE Entitlements ----------------------------
(* Onboarding (onboard.rs): the controller checks a node's request against  *)
(* the invite it answers, says a signed entitlement on the grants layer,    *)
(* and applies that layer to gonk's own enrolment of certificates. Nothing  *)
(* is ever taken off the layer: which entitlement stands is decided by      *)
(* folding all of them, in the order they were said, each superseding the   *)
(* one before it.                                                           *)
(*                                                                          *)
(* Callers of the door and the timer's thread run beside each other, each   *)
(* between its reads and writes; the process may stop anywhere. Signatures, *)
(* proofs and certificates are checked or not there: what is said with the  *)
(* controller's key, or said again, is what the layer holds. An entitlement *)
(* with an expiry of its own is said by other controllers only, and is left *)
(* out, as are the scopes of a grant: one name, one grant.                  *)
EXTENDS Naturals, Sequences, FiniteSets

CONSTANTS
    Callers,     \* of the door
    Timer,       \* the thread that applies every APPLY_EVERY
    Prints,      \* fingerprints, numbered in the order the enrolment goes through them
    Invites, Names,
    NameOf,      \* the node an invite is for
    GivesOf,     \* what its kinds grant: "gonk", or "layer" alone
    Lobby,       \* the requests: a fingerprint and the invite it answers
    MaxSaid, MaxStarts   \* bounds

Actors == Callers \cup {Timer}
None == 0          \* no entitlement, no certificate
NoGrant == ""      \* a fingerprint that is not enrolled

ASSUME EntitlementConstants ==
    /\ Prints \subseteq Nat \ {0} /\ MaxSaid \in Nat
    /\ Lobby \subseteq Prints \X Invites
    /\ NameOf \in [Invites -> Names] /\ GivesOf \in [Invites -> {"gonk", "layer"}]
    /\ NoGrant \notin Names

VARIABLES
    layer,     \* the entitlements, as said
    invites,   \* the store: not minted, open, or the request that used it
    codes,     \* the keystore: the invites whose code is kept
    expired,   \* the invites that ran out
    clients,   \* clients.json: the grant of each fingerprint
    crt,       \* the certificate in each bundle of the clients directory
    actor,     \* per actor: what it is doing
    pending,   \* status.restart_pending
    trusted,   \* the certificates the server trusts since its start
    starts,
    shutOut,   \* history: the certificates that this start found in a bundle, and did not trust
    disturbed  \* history: the applies that were overtaken since they read the layer

store == <<invites, codes, expired>>
enrolment == <<clients, crt>>
vars == <<layer, store, enrolment, actor, pending, trusted, shutOut, starts, disturbed>>

NotMinted == <<>>
Open == <<"open">>

Idle == [at |-> "idle"]
Doing(k, step) == actor[k].at = step
Goes(k, to) == actor' = [actor EXCEPT ![k] = to]

Init ==
    /\ layer = <<>>
    /\ invites = [i \in Invites |-> NotMinted] /\ codes = {} /\ expired = {}
    /\ clients = [p \in Prints |-> NoGrant] /\ crt = [n \in Names |-> None]
    /\ actor = [k \in Actors |-> Idle]
    /\ pending = FALSE /\ trusted = {} /\ starts = 0 /\ shutOut = {} /\ disturbed = {}

-----------------------------------------------------------------------------
(* The fold.                                                               *)

\* e follows on the entitlement that is current for its fingerprint; one that grants
\* nothing has to supersede.
Accepts(current, e) ==
    /\ e.supersedes = current[e.print]
    /\ current[e.print] = None => e.gives # "none"

\* The current entitlement of each fingerprint after the first n of a log were read.
CurrentAfter(log) ==
    LET after[n \in 0 .. MaxSaid] ==
            IF n = 0 \/ n > Len(log) THEN [p \in Prints |-> None]
            ELSE IF Accepts(after[n - 1], log[n]) THEN [after[n - 1] EXCEPT ![log[n].print] = n]
            ELSE after[n - 1]
    IN  after

Current == CurrentAfter(layer)[Len(layer)]
Accepted(n) == Accepts(CurrentAfter(layer)[n - 1], layer[n])

\* The verdict on an entitlement: a later one that was accepted and names it supersedes it.
Superseded(n) ==
    \E m \in DOMAIN layer : m > n /\ Accepted(m) /\ layer[m].supersedes = n

InForce(n) == Accepted(n) /\ ~Superseded(n) /\ layer[n].gives # "none"

-----------------------------------------------------------------------------
(* The controller.                                                         *)

Applying(k) == actor[k].at \in {"next", "adding", "added", "enrolling", "removing", "unbundling"}
Overtakes(k) == disturbed' = disturbed \cup {m \in Actors \ {k} : Applying(m)}

Say(e) == Len(layer) < MaxSaid /\ layer' = Append(layer, e)

\* invite: the code is kept first, then the invite is stored.
Mint(k, i) ==
    /\ Doing(k, "idle") /\ invites[i] = NotMinted /\ i \notin codes
    /\ codes' = codes \cup {i}
    /\ Goes(k, [at |-> "minting", invite |-> i])
    /\ UNCHANGED <<layer, invites, expired, enrolment, pending, trusted, shutOut, starts,
                   disturbed>>

Minted(k) ==
    /\ Doing(k, "minting")
    /\ invites' = [invites EXCEPT ![actor[k].invite] = Open]
    /\ Goes(k, Idle)
    /\ UNCHANGED <<layer, codes, expired, enrolment, pending, trusted, shutOut, starts, disturbed>>

Expire(i) ==
    /\ invites[i] = Open /\ i \notin expired
    /\ expired' = expired \cup {i}
    /\ UNCHANGED <<layer, invites, codes, enrolment, actor, pending, trusted, shutOut, starts,
                   disturbed>>

\* The check, in its order: minted here, not used, not expired, the code still kept.
Passes(request) ==
    LET i == request[2]
    IN  invites[i] = Open /\ i \notin expired /\ i \in codes

Approve(k, request) ==
    /\ Doing(k, "idle") /\ Passes(request)
    /\ Goes(k, [at |-> "checked", request |-> request])
    /\ UNCHANGED <<layer, store, enrolment, pending, trusted, shutOut, starts, disturbed>>

\* What is to be said about a fingerprint now: it supersedes what is current.
ApproveFolds(k) ==
    /\ Doing(k, "checked")
    /\ LET request == actor[k].request
       IN  Goes(k, [at |-> "saying",
                    entry |-> [print |-> request[1], name |-> NameOf[request[2]],
                               gives |-> GivesOf[request[2]], request |-> request,
                               supersedes |-> Current[request[1]]]])
    /\ UNCHANGED <<layer, store, enrolment, pending, trusted, shutOut, starts, disturbed>>

Revoke(k, p) ==
    /\ Doing(k, "idle") /\ Current[p] # None /\ layer[Current[p]].gives # "none"
    /\ Goes(k, [at |-> "saying",
                entry |-> [layer[Current[p]] EXCEPT !.gives = "none", !.request = <<>>,
                                                    !.supersedes = Current[p]]])
    /\ UNCHANGED <<layer, store, enrolment, pending, trusted, shutOut, starts, disturbed>>

SaySigned(k) ==
    /\ Doing(k, "saying") /\ Say(actor[k].entry)
    /\ Goes(k, IF actor[k].entry.request = <<>> THEN [at |-> "reading"]
               ELSE [at |-> "said", request |-> actor[k].entry.request])
    /\ UNCHANGED <<store, enrolment, pending, trusted, shutOut, starts>>
    /\ Overtakes(k)

MarkUsed(k) ==
    /\ Doing(k, "said")
    /\ invites' = [invites EXCEPT ![actor[k].request[2]] = actor[k].request]
    /\ Goes(k, [actor[k] EXCEPT !.at = "marked"])
    /\ UNCHANGED <<layer, codes, expired, enrolment, pending, trusted, shutOut, starts, disturbed>>

ForgetCode(k) ==
    /\ Doing(k, "marked")
    /\ codes' = codes \ {actor[k].request[2]}
    /\ Goes(k, [at |-> "reading"])
    /\ UNCHANGED <<layer, invites, expired, enrolment, pending, trusted, shutOut, starts,
                   disturbed>>

\* Anyone who may write to the layer says an entitlement again, signature and all.
Replay(n) ==
    /\ Say(layer[n])
    /\ UNCHANGED <<store, enrolment, actor, pending, trusted, shutOut, starts>>
    /\ disturbed' = {m \in Actors : Applying(m)}

-----------------------------------------------------------------------------
(* Apply. What the layer said is read and folded first; the enrolment is    *)
(* then brought to it one fingerprint after the other.                     *)

Apply(k) ==
    /\ Doing(k, "idle")
    /\ Goes(k, [at |-> "reading"])
    /\ UNCHANGED <<layer, store, enrolment, pending, trusted, shutOut, starts, disturbed>>

\* `clients` is read once, for what is this controller's own to take away.
FoldToApply(k) ==
    /\ Doing(k, "reading")
    /\ Goes(k, [at |-> "next", current |-> Current, ours |-> clients,
                stands |-> [p \in Prints |-> Current[p] # None /\ InForce(Current[p])],
                left |-> {p \in Prints : Current[p] # None},
                rotate |-> FALSE, replaced |-> None, newly |-> FALSE])
    /\ UNCHANGED <<layer, store, enrolment, pending, trusted, shutOut, starts>>
    /\ disturbed' = disturbed \ {k}

\* The layer's host does not answer: the status keeps what it was.
FoldFails(k) ==
    /\ Doing(k, "reading")
    /\ Goes(k, Idle)
    /\ UNCHANGED <<layer, store, enrolment, pending, trusted, shutOut, starts, disturbed>>

At(k) == CHOOSE p \in actor[k].left : \A q \in actor[k].left : p <= q
Entry(k) == layer[actor[k].current[At(k)]]
Bundle(k) == Entry(k).name
Wanted(k) == actor[k].stands[At(k)] /\ Entry(k).gives = "gonk"
Done(k) == [actor[k] EXCEPT !.at = "next", !.left = @ \ {At(k)}]

Take(k, guard, step) ==
    /\ Doing(k, "next") /\ actor[k].left # {} /\ guard
    /\ Goes(k, step)
    /\ UNCHANGED <<layer, store, enrolment, pending, trusted, shutOut, starts, disturbed>>

Unchanged(k) ==
    Take(k, Wanted(k) /\ crt[Bundle(k)] = At(k) /\ clients[At(k)] = Bundle(k), Done(k))

\* Mutant: a certificate in its bundle is taken for an enrolled one.
TrustsBundle(k) ==
    Take(k, Wanted(k) /\ crt[Bundle(k)] = At(k) /\ clients[At(k)] # Bundle(k), Done(k))

\* The bundle holds this certificate already, and only the enrolment is missing.
Trusts(k) ==
    Take(k, Wanted(k) /\ crt[Bundle(k)] = At(k) /\ clients[At(k)] # Bundle(k),
         [actor[k] EXCEPT !.at = "enrolling"])

\* The certificate is read from the lobby, or is not there to be read.
ReadCertificate(k) ==
    Take(k, Wanted(k) /\ crt[Bundle(k)] # At(k),
         [actor[k] EXCEPT !.at = "adding", !.rotate = crt[Bundle(k)] # None])

NoCertificate(k) ==
    /\ Doing(k, "next") /\ actor[k].left # {} /\ Wanted(k) /\ crt[Bundle(k)] # At(k)
    /\ Goes(k, Done(k))
    /\ disturbed' = disturbed \cup {k}
    /\ UNCHANGED <<layer, store, enrolment, pending, trusted, shutOut, starts>>

NotOurs(k) == Take(k, ~Wanted(k) /\ actor[k].ours[At(k)] = NoGrant, Done(k))

Unwanted(k) ==
    Take(k, ~Wanted(k) /\ actor[k].ours[At(k)] # NoGrant, [actor[k] EXCEPT !.at = "removing"])

\* add_client, told to rotate by what the bundle held a moment ago, refuses if that changed.
Add(k) ==
    /\ Doing(k, "adding")
    /\ IF actor[k].rotate = (crt[Bundle(k)] # None)
       THEN /\ crt' = [crt EXCEPT ![Bundle(k)] = At(k)]
            /\ Goes(k, [actor[k] EXCEPT !.at = "added", !.newly = TRUE,
                                     !.replaced = crt[Bundle(k)]])
       ELSE crt' = crt /\ Goes(k, Done(k))
    /\ UNCHANGED <<layer, store, clients, pending, trusted, shutOut, starts>>
    /\ Overtakes(k)

\* The certificate that the bundle held stops being enrolled.
Replace(k) ==
    /\ Doing(k, "added")
    /\ clients' = [p \in Prints |-> IF p = actor[k].replaced /\ p # At(k) THEN NoGrant
                                    ELSE clients[p]]
    /\ Goes(k, [actor[k] EXCEPT !.at = "enrolling"])
    /\ UNCHANGED <<layer, store, crt, pending, trusted, shutOut, starts>>
    /\ Overtakes(k)

Enrol(k) ==
    /\ Doing(k, "enrolling")
    /\ clients' = [clients EXCEPT ![At(k)] = Bundle(k)]
    /\ Goes(k, Done(k))
    /\ UNCHANGED <<layer, store, crt, pending, trusted, shutOut, starts>>
    /\ Overtakes(k)

Unenrol(k) ==
    /\ Doing(k, "removing")
    /\ clients' = [clients EXCEPT ![At(k)] = NoGrant]
    /\ Goes(k, [actor[k] EXCEPT !.at = "unbundling"])
    /\ UNCHANGED <<layer, store, crt, pending, trusted, shutOut, starts>>
    /\ Overtakes(k)

\* The bundle goes with it when it holds this certificate.
Unbundle(k) ==
    /\ Doing(k, "unbundling")
    /\ crt' = IF crt[Bundle(k)] = At(k) THEN [crt EXCEPT ![Bundle(k)] = None] ELSE crt
    /\ Goes(k, Done(k))
    /\ UNCHANGED <<layer, store, clients, pending, trusted, shutOut, starts>>
    /\ Overtakes(k)

\* A restart that was pending stays so, whatever this apply found.
Report(k) ==
    /\ Doing(k, "next") /\ actor[k].left = {}
    /\ disturbed' = disturbed \ {k}
    /\ pending' = (pending \/ actor[k].newly)
    /\ Goes(k, Idle)
    /\ UNCHANGED <<layer, store, enrolment, trusted, shutOut, starts>>

Serve(k) ==
    \/ Minted(k) \/ ApproveFolds(k) \/ SaySigned(k) \/ MarkUsed(k) \/ ForgetCode(k)
    \/ FoldToApply(k) \/ Unchanged(k) \/ Trusts(k) \/ ReadCertificate(k) \/ NotOurs(k)
    \/ Unwanted(k) \/ Add(k) \/ Replace(k) \/ Enrol(k) \/ Unenrol(k) \/ Unbundle(k) \/ Report(k)

\* open_door: what it trusts, or no door at all when there is none or nobody to admit. With a
\* bind that the operator named, or without a bundle of anyone, the start is refused instead.
Admits == \E p \in Prints : clients[p] # NoGrant
Bundles == {crt[n] : n \in Names} \ {None}
Starts(bind) == bind = "off" \/ (IF Admits THEN Bundles # {} ELSE bind = "default")

\* The process stops, wherever everyone is, and starts again.
Restart(bind) ==
    /\ starts < MaxStarts /\ starts' = starts + 1
    /\ Starts(bind)
    /\ actor' = [k \in Actors |-> Idle]
    /\ pending' = FALSE /\ disturbed' = {}
    /\ trusted' = IF bind # "off" /\ Admits THEN Bundles ELSE {}
    /\ shutOut' = Bundles \ trusted'
    /\ UNCHANGED <<layer, store, enrolment>>

Next ==
    \/ \E k \in Callers : \/ \E i \in Invites : Mint(k, i)
                          \/ \E request \in Lobby : Approve(k, request)
                          \/ \E p \in Prints : Revoke(k, p)
    \/ Apply(Timer)
    \/ \E k \in Actors : Serve(k) \/ FoldFails(k) \/ NoCertificate(k)
    \/ \E i \in Invites : Expire(i)
    \/ \E n \in DOMAIN layer : Replay(n)
    \/ \E bind \in {"default", "named", "off"} : Restart(bind)

Spec == Init /\ [][Next]_vars

-----------------------------------------------------------------------------
\* p is entitled to gonk, under a name.
Enrols(p) == Current[p] # None /\ InForce(Current[p]) /\ layer[Current[p]].gives = "gonk"
Name(p) == layer[Current[p]].name

TypeOK ==
    /\ Len(layer) <= MaxSaid
    /\ invites \in [Invites -> {NotMinted, Open} \cup Lobby]
    /\ codes \subseteq Invites /\ expired \subseteq Invites
    /\ clients \in [Prints -> Names \cup {NoGrant}] /\ crt \in [Names -> Prints \cup {None}]
    /\ pending \in BOOLEAN /\ trusted \subseteq Prints /\ shutOut \subseteq Prints

\* Of the entitlements of one fingerprint at most one is in force, and it is the current
\* one: no order of approvals, revocations and replays leaves a second one standing.
OneStands ==
    \A n \in DOMAIN layer : InForce(n) => Current[layer[n].print] = n

\* What is said again changes nothing: a replay is refused, of a revocation as of a grant.
ReplayIsRefused ==
    \A m, n \in DOMAIN layer : m < n /\ layer[m] = layer[n] => ~(Accepted(m) /\ Accepted(n))

\* An invite is spent by an entitlement that was said, and its code is kept until then:
\* a stop in between never costs the node its only way in.
SpentIsSaid ==
    \A i \in Invites :
        /\ invites[i] \in Lobby => \E n \in DOMAIN layer : layer[n].request = invites[i]
        /\ invites[i] = Open => i \in codes

\* The status tells of the restart that a certificate needs: once no apply is under way, one
\* that is enrolled and that the server does not trust has `restart_pending` set. But `newly` is
\* said of a certificate whose bundle is written, and not of one that only is enrolled: one that
\* a stop left in its bundle, and a start with its door off found there, is enrolled untold.
RestartIsTold ==
    (\A k \in Actors : Doing(k, "idle")) =>
        \A n \in Names : crt[n] # None /\ clients[crt[n]] = n /\ crt[n] \notin trusted =>
            pending \/ crt[n] \in shutOut

\* The fingerprint was never entitled under another name than the one it has now.
KeptItsName(p) ==
    \A n \in DOMAIN layer : Accepted(n) /\ layer[n].print = p => layer[n].name = Name(p)

\* What does not stand is out, and of each name the last certificate that stands is in. A
\* fingerprint that was entitled under a second name is the exception: the bundle of the first
\* one still holds it, and it is taken for replaced when that name gets another certificate.
Brought(p) ==
    IF Enrols(p) THEN KeptItsName(p) /\ (\A q \in Prints : Enrols(q) /\ q > p => Name(q) # Name(p))
                          => clients[p] = Name(p) /\ crt[Name(p)] = p
    ELSE clients[p] = NoGrant

\* An apply that no one overtook and that found every certificate has brought the enrolment
\* to the layer, whatever an earlier one, overtaken or stopped half way, had left.
AppliedIsEnrolled ==
    \A k \in Actors \ disturbed : Doing(k, "next") /\ actor[k].left = {} =>
        \A p \in Prints : Current[p] # None => Brought(p)

=============================================================================
