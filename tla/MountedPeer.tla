---------------------------- MODULE MountedPeer ----------------------------
(***************************************************************************)
(* A mounted peer, src/src/mount.rs: one connection that every caller       *)
(* shares, dialled when it is first needed, forgotten when a call over it  *)
(* comes back Unavailable, and held off for a while after a dial that      *)
(* failed.  The lock on it is held across a dial and across nothing else.  *)
(*                                                                         *)
(* Time passes in ticks, at any of the points where a caller waits.        *)
(***************************************************************************)
EXTENDS Naturals

CONSTANTS
    Clients,      \* requests served at the same time
    FirstHold,    \* FIRST_HOLD, in ticks
    Retry,        \* RETRY, in ticks
    ConnectTime,  \* how long a dial may take
    CallTime,     \* the standing deadline of a call
    MaxLeft,      \* bound: the overall deadline a request may set (within)
    MaxFailures   \* bound: failed dials in a row that are told apart

\* What is assumed of them; that a power of two is a number is a fact of arithmetic.
MountConstants ==
    /\ {FirstHold, Retry, ConnectTime, CallTime, MaxLeft, MaxFailures} \subseteq Nat
    /\ \A n \in 0 .. MaxFailures : 2 ^ n \in Nat

VARIABLES
    peer,        \* up; ailing (it hangs, loses connections, answers Unavailable over good
                 \* ones); or down
    connected,   \* the connection held: none, live, or dead
    hold,        \* ticks until the next dial may be made
    failures,    \* dials that failed in a row
    at, asks,    \* per client: where it stands, and whether it issues or enumerates
    mine,        \* the connection it calls over
    left,        \* ticks left of its overall deadline
    limit,       \* the deadline that its call will run under
    timer,       \* ticks left to what it waits for: the dial, or the answer
    outcome,     \* how its last call ended
    quiet        \* history: ticks since the last failed dial

state == <<connected, hold, failures>>
client == <<at, asks, mine, left, limit, timer, outcome>>
rest == <<asks, left, outcome>>   \* what only the ends of a call change
vars == <<peer, state, client, quiet>>

Unbounded == MaxLeft + 1
Least(a, b) == IF a <= b THEN a ELSE b
Less(n) == IF n = 0 THEN 0 ELSE n - 1

\* Mutant: the doubling is never capped.
HoldAfterUncapped(n) == IF n = 0 THEN 0 ELSE FirstHold * 2 ^ (n - 1)

\* FIRST_HOLD doubled per failure after the first, at most RETRY.
HoldAfter(n) == IF n = 0 THEN 0 ELSE Least(Retry, FirstHold * 2 ^ (n - 1))

Init ==
    /\ peer \in {"up", "down"}
    /\ connected = "none" /\ hold = 0 /\ failures = 0
    /\ at = [c \in Clients |-> "idle"] /\ asks = [c \in Clients |-> "issue"]
    /\ mine = [c \in Clients |-> "none"] /\ left = [c \in Clients |-> Unbounded]
    /\ limit = [c \in Clients |-> 0] /\ timer = [c \in Clients |-> 0]
    /\ outcome = [c \in Clients |-> "none"]
    /\ quiet = 0

Locked == \E c \in Clients : at[c] = "dialling"

-----------------------------------------------------------------------------
(* The peer, and time.                                                     *)

\* It goes down, and every connection to it with it; it comes up again; it ails.
PeerTurns(how) ==
    /\ peer' = how /\ how # peer
    /\ IF how = "down"
       THEN /\ connected' = IF connected = "live" THEN "dead" ELSE connected
            /\ mine' = [c \in Clients |-> IF mine[c] = "live" THEN "dead" ELSE mine[c]]
       ELSE UNCHANGED <<connected, mine>>
    /\ UNCHANGED <<hold, failures, at, rest, limit, timer, quiet>>

\* A connection is lost while the peer ails.
Lost ==
    /\ peer = "ailing" /\ connected = "live"
    /\ connected' = "dead"
    /\ mine' = [c \in Clients |-> IF mine[c] = "live" THEN "dead" ELSE mine[c]]
    /\ UNCHANGED <<peer, hold, failures, at, rest, limit, timer, quiet>>

\* Nobody waits past the time that what it waits for may take.
Waiting(c) == at[c] \in {"dialling", "calling"}
Tick ==
    /\ \A c \in Clients : Waiting(c) => timer[c] > 0
    /\ hold' = Less(hold)
    /\ timer' = [c \in Clients |-> IF Waiting(c) THEN timer[c] - 1 ELSE timer[c]]
    /\ left' = [c \in Clients |-> IF left[c] = Unbounded THEN Unbounded ELSE Less(left[c])]
    /\ quiet' = Least(Retry, quiet + 1)
    /\ UNCHANGED <<peer, connected, failures, at, asks, mine, limit, outcome>>

-----------------------------------------------------------------------------
(* issue_as, and the enumerations (entries, is_cached), which drop nothing. *)

Ask(c, what, deadline) ==
    /\ at[c] = "idle"
    /\ at' = [at EXCEPT ![c] = "asked"]
    /\ asks' = [asks EXCEPT ![c] = what]
    /\ left' = [left EXCEPT ![c] = deadline]
    /\ outcome' = [outcome EXCEPT ![c] = "none"]
    /\ UNCHANGED <<peer, state, mine, limit, timer, quiet>>

Ends(c, how) ==
    /\ at' = [at EXCEPT ![c] = "idle"]
    /\ outcome' = [outcome EXCEPT ![c] = how]
    /\ mine' = [mine EXCEPT ![c] = "none"]
    /\ limit' = [limit EXCEPT ![c] = 0] /\ timer' = [timer EXCEPT ![c] = 0]
    /\ left' = [left EXCEPT ![c] = Unbounded] /\ asks' = [asks EXCEPT ![c] = "issue"]

\* What is left of the overall deadline is read before the connection is asked for: the
\* call will run under it however long that takes.
Remaining(c) ==
    /\ at[c] = "asked"
    /\ IF left[c] = 0
       THEN Ends(c, "timeout")
       ELSE /\ at' = [at EXCEPT ![c] = "resolving"]
            /\ limit' = [limit EXCEPT ![c] = IF left[c] = Unbounded THEN CallTime
                                                                   ELSE Least(CallTime, left[c])]
            /\ UNCHANGED <<mine, timer, rest>>
    /\ UNCHANGED <<peer, state, quiet>>

Call(c, connection) ==
    /\ at' = [at EXCEPT ![c] = "calling"]
    /\ mine' = [mine EXCEPT ![c] = connection]
    /\ timer' = [timer EXCEPT ![c] = limit[c]]

Connected(c) ==
    /\ at[c] = "resolving" /\ ~Locked /\ connected # "none"
    /\ Call(c, connected)
    /\ UNCHANGED <<peer, state, rest, limit, quiet>>

HeldOff(c) ==
    /\ at[c] = "resolving" /\ ~Locked /\ connected = "none" /\ hold > 0
    /\ Ends(c, "refused")
    /\ UNCHANGED <<peer, state, quiet>>

\* The dial has its own time, whatever deadline the call will have.
Dial(c) ==
    /\ at[c] = "resolving" /\ ~Locked /\ connected = "none" /\ hold = 0
    /\ at' = [at EXCEPT ![c] = "dialling"]
    /\ timer' = [timer EXCEPT ![c] = ConnectTime]
    /\ UNCHANGED <<peer, state, mine, rest, limit, quiet>>

DialConnects(c) ==
    /\ at[c] = "dialling" /\ peer # "down"
    /\ connected' = "live" /\ hold' = 0 /\ failures' = 0
    /\ Call(c, "live")
    /\ UNCHANGED <<peer, rest, limit, quiet>>

DialFails(c) ==
    /\ at[c] = "dialling" /\ peer # "up"
    /\ failures' = Least(MaxFailures, failures + 1)
    /\ hold' = HoldAfter(failures')
    /\ quiet' = 0
    /\ Ends(c, "refused")
    /\ UNCHANGED <<peer, connected>>

\* A peer that is up answers in time, or ends a connection that it does not know; one
\* that is not may stay silent past the deadline, which drops nothing.
Answered(c) ==
    /\ at[c] = "calling" /\ mine[c] = "live" /\ peer # "down"
    /\ Ends(c, "ok")
    /\ UNCHANGED <<peer, state, quiet>>

TimesOut(c) ==
    /\ at[c] = "calling" /\ timer[c] = 0 /\ peer # "up"
    /\ Ends(c, "timeout")
    /\ UNCHANGED <<peer, state, quiet>>

\* The peer's own answer, or the connection's end.
Unavailable(c) ==
    /\ at[c] = "calling" /\ asks[c] = "issue" /\ (mine[c] = "dead" \/ peer = "ailing")
    /\ at' = [at EXCEPT ![c] = "dropping"]
    /\ UNCHANGED <<peer, state, mine, rest, limit, timer, quiet>>

\* An enumeration ends there: it has no answer, and drops nothing.
NoAnswer(c) ==
    /\ at[c] = "calling" /\ asks[c] = "entries" /\ (mine[c] = "dead" \/ peer = "ailing")
    /\ Ends(c, "none")
    /\ UNCHANGED <<peer, state, quiet>>

\* Mutant: the drop forgets the hold as well.
DropAndForget(c) ==
    /\ at[c] = "dropping" /\ ~Locked
    /\ connected' = "none" /\ hold' = 0
    /\ Ends(c, "refused")
    /\ UNCHANGED <<peer, failures, quiet>>

\* drop_connection: whichever connection is held by then.
DropConnection(c) ==
    /\ at[c] = "dropping" /\ ~Locked
    /\ connected' = "none"
    /\ Ends(c, "refused")
    /\ UNCHANGED <<peer, hold, failures, quiet>>

-----------------------------------------------------------------------------
Resolve(c) == Connected(c) \/ HeldOff(c) \/ Dial(c)
Step(c) ==
    \/ Remaining(c) \/ Resolve(c) \/ DialConnects(c) \/ DialFails(c)
    \/ Answered(c) \/ TimesOut(c) \/ Unavailable(c) \/ NoAnswer(c) \/ DropConnection(c)

Next ==
    \/ \E how \in {"up", "ailing", "down"} : PeerTurns(how)
    \/ Lost \/ Tick
    \/ \E c \in Clients :
          \/ \E deadline \in 1..Unbounded : Ask(c, "issue", deadline)
          \/ Ask(c, "entries", Unbounded)
          \/ Step(c)

Spec == Init /\ [][Next]_vars

-----------------------------------------------------------------------------
(* Properties.                                                             *)

TypeOK ==
    /\ peer \in {"up", "ailing", "down"} /\ connected \in {"none", "live", "dead"}
    /\ hold \in 0..Retry /\ failures \in 0..MaxFailures /\ quiet \in 0..Retry
    /\ at \in [Clients -> {"idle", "asked", "resolving", "dialling", "calling", "dropping"}]
    /\ asks \in [Clients -> {"issue", "entries"}]
    /\ mine \in [Clients -> {"none", "live", "dead"}]
    /\ \A c \in Clients : (mine[c] # "none") <=> (at[c] \in {"calling", "dropping"})
    /\ left \in [Clients -> 0..Unbounded] /\ limit \in [Clients -> 0..CallTime]
    /\ timer \in [Clients -> Nat]
    /\ outcome \in [Clients -> {"none", "ok", "refused", "timeout"}]

\* resolver(): "a burst of first calls should cost one handshake, not one each".
OneHandshake ==
    Locked => connected = "none" /\ \E c \in Clients : {d \in Clients : at[d] = "dialling"} = {c}

\* drop_connection: "only a dial that FAILS starts the backoff", so a call that was lost,
\* whenever its caller comes to drop the connection, holds nobody off.
OnlyFailedDialsHold ==
    hold > 0 => failures > 0 /\ connected = "none" /\ hold + quiet <= HoldAfter(failures)

\* drop_connection: "a peer that is really down still costs one dial per hold window,
\* never one per request".
OneDialPerHold ==
    [][\A c \in Clients : at[c] # "dialling" /\ at'[c] = "dialling" =>
          failures = 0 \/ quiet >= HoldAfter(failures)]_vars


=============================================================================
