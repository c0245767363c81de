------------------------------ MODULE TaskTake ------------------------------
(***************************************************************************)
(* The TAKE role of a layer binding, src/src/taker.rs: the command that    *)
(* takes an offer and files it into the bound ledger, run by several       *)
(* agents at once, and the server's pass, which drops the reports that     *)
(* every filed item is owed.                                               *)
(*                                                                         *)
(* The layer grants a tuple to a server, not to a caller: two callers here *)
(* are one taker.  Any call may fail before or after it had its effect,    *)
(* and people edit the filed items all the while.                          *)
(***************************************************************************)
EXTENDS Naturals, FiniteSets

CONSTANTS
    Offers,           \* the tuples of the layer, all of the class that is taken
    Callers,          \* agents that run the take command
    Reasons, Urls,    \* reasons to close an item other than done; evidence for one
    MaxDays,          \* bound: days
    MaxEdits,         \* bound: what people do to one item
    MaxTroubles       \* bound: calls that fail, commands that stop

ASSUME TakeConstants ==
    /\ Reasons \cap {"none", "open", "done"} = {}
    /\ MaxDays \in Nat \ {0} /\ {MaxEdits, MaxTroubles} \subseteq Nat

VARIABLES
    tuple,              \* the layer: absent, pending, or taken by us or by another principal
    reports,            \* the reports dropped into it, by name: never two under one
    status, evidence,   \* the filed items: none, open or the reason of the close; accepted URLs
    edits,              \* the revision of an item, which every write to it moves
    call,               \* the command of each caller: where it stands, with which tuple
    step, seen, day, troubles,
    filed, byHand,      \* history: offers that were filed, and those somebody filed by hand
    told, fresh,        \* history: offers a command answered for; how often as taken now
    closes              \* history: how often an item was closed for a reason but done

layer == <<tuple, reports>>
items == <<status, evidence, edits>>
pass == <<step, seen>>
said == <<told, fresh>>
history == <<filed, byHand, told, fresh, closes>>
vars == <<layer, items, call, pass, day, troubles, history>>

Name(o, kind, of) == [offer |-> o, kind |-> kind, of |-> of]
NotRunning == <<"idle">>
NothingSeen == [ours |-> {}, keys |-> {}, items |-> [o \in {} |-> {}], me |-> FALSE, day |-> 0]

Init ==
    /\ tuple = [t \in Offers |-> "absent"] /\ reports = {}
    /\ status = [o \in Offers |-> "none"] /\ evidence = [o \in Offers |-> {}]
    /\ edits = [o \in Offers |-> 0]
    /\ call = [c \in Callers |-> NotRunning]
    /\ step = "idle" /\ seen = NothingSeen /\ day = 1 /\ troubles = 0
    /\ filed = {} /\ byHand = {} /\ told = {}
    /\ fresh = [o \in Offers |-> 0] /\ closes = [o \in Offers |-> 0]

Trouble == troubles < MaxTroubles /\ troubles' = troubles + 1
NoTrouble == UNCHANGED troubles

-----------------------------------------------------------------------------
(* The offerer, other takers, the people who work the filed items, time.   *)

Dropped(t) ==
    /\ tuple[t] = "absent"
    /\ tuple' = [tuple EXCEPT ![t] = "pending"]
    /\ UNCHANGED <<reports, items, call, pass, day, troubles, history>>

\* Another server takes it, or the offerer takes it back.
TakenByAnother(t) ==
    /\ tuple[t] = "pending"
    /\ tuple' = [tuple EXCEPT ![t] = "them"]
    /\ UNCHANGED <<reports, items, call, pass, day, troubles, history>>

Edit(o) == status[o] # "none" /\ edits[o] < MaxEdits /\ edits' = [edits EXCEPT ![o] = @ + 1]

\* A comment, with or without a URL that is evidence for the offered repository.
Remark(o, urls) ==
    /\ Edit(o)
    /\ evidence' = [evidence EXCEPT ![o] = @ \union urls]
    /\ UNCHANGED <<layer, status, call, pass, day, troubles, history>>

CloseItem(o, reason) ==
    /\ Edit(o) /\ status[o] = "open"
    /\ status' = [status EXCEPT ![o] = reason]
    /\ closes' = [closes EXCEPT ![o] = IF reason = "done" THEN @ ELSE @ + 1]
    /\ UNCHANGED <<layer, evidence, call, pass, day, troubles, filed, byHand, said>>

ReopenItem(o) ==
    /\ Edit(o) /\ status[o] # "open"
    /\ status' = [status EXCEPT ![o] = "open"]
    /\ UNCHANGED <<layer, evidence, call, pass, day, troubles, history>>

DeleteItem(o) ==
    /\ Edit(o)
    /\ status' = [status EXCEPT ![o] = "none"]
    /\ evidence' = [evidence EXCEPT ![o] = {}]
    /\ UNCHANGED <<layer, call, pass, day, troubles, history>>

\* An item under the offer's key that no take here filed: restored, or made by hand.
FileByHand(o) ==
    /\ status[o] = "none" /\ edits[o] < MaxEdits /\ edits' = [edits EXCEPT ![o] = @ + 1]
    /\ status' = [status EXCEPT ![o] = "open"]
    /\ filed' = filed \union {o} /\ byHand' = byHand \union {o}
    /\ UNCHANGED <<layer, evidence, call, pass, day, troubles, said, closes>>

Midnight ==
    /\ day < MaxDays /\ day' = day + 1
    /\ UNCHANGED <<layer, items, call, pass, troubles, history>>

-----------------------------------------------------------------------------
(* take: one command.                                                      *)

Ask(c, t) ==
    /\ call[c] = NotRunning
    /\ call' = [call EXCEPT ![c] = <<"keyed", t>>]
    /\ UNCHANGED <<layer, items, pass, day, troubles, history>>

Calling(c, where, t) == call[c] = <<where, t>>
GoOn(c, where, t) == call' = [call EXCEPT ![c] = <<where, t>>] /\ UNCHANGED said
Ends(c) == call' = [call EXCEPT ![c] = NotRunning]
Fail(c) == Ends(c) /\ UNCHANGED said
Already(c, o) == Ends(c) /\ told' = told \union {o} /\ UNCHANGED fresh
Fresh(c, o) == Ends(c) /\ told' = told \union {o} /\ fresh' = [fresh EXCEPT ![o] = @ + 1]

\* A read that fails, or the command is stopped.
GiveUp(c) ==
    /\ call[c] # NotRunning /\ Trouble /\ Fail(c)
    /\ UNCHANGED <<layer, items, pass, day, filed, byHand, closes>>

Filed(o) == status[o] # "none"

\* keyed_item: only absence means that it was not filed.
LookUp(c, t) ==
    /\ Calling(c, "keyed", t)
    /\ IF Filed(t) THEN Already(c, t) ELSE GoOn(c, "read", t)
    /\ UNCHANGED <<layer, items, pass, day, troubles, filed, byHand, closes>>

\* Read before taking: what is pending is known to be an offer; what is not is no reason to stop.
ReadFirst(c, o) ==
    /\ Calling(c, "read", o)
    /\ GoOn(c, "take", o)
    /\ UNCHANGED <<layer, items, pass, day, troubles, filed, byHand, closes>>

\* The take: granted, in conflict with a take before it, or of no tuple at all.  When its
\* reply is lost the command fails, whatever the take did.
TakeTuple(c, t) ==
    /\ Calling(c, "take", t)
    /\ \/ /\ tuple[t] = "pending"
          /\ tuple' = [tuple EXCEPT ![t] = "us"]
          /\ \/ NoTrouble /\ GoOn(c, "file", t)
             \/ Trouble /\ Fail(c)
       \/ /\ tuple[t] \in {"us", "them"}
          /\ GoOn(c, "receipt", t) /\ NoTrouble /\ UNCHANGED tuple
       \/ /\ tuple[t] = "absent"
          /\ Fail(c) /\ NoTrouble /\ UNCHANGED tuple
    /\ UNCHANGED <<reports, items, pass, day, filed, byHand, closes>>

\* Mutant: a take that was in conflict is an error, ours or not.
ReceiptRefused(c, t) ==
    /\ Calling(c, "receipt", t) /\ Fail(c)
    /\ UNCHANGED <<layer, items, pass, day, troubles, filed, byHand, closes>>

\* The receipt, and who the door says that we are: ours, with the reply lost or by another
\* caller here, is filed.
ReadReceipt(c, t) ==
    /\ Calling(c, "receipt", t)
    /\ IF tuple[t] = "us" THEN GoOn(c, "refile", t) ELSE Fail(c)
    /\ UNCHANGED <<layer, items, pass, day, troubles, filed, byHand, closes>>

\* The append is keyed: it files once, and answers the item that is there.
Append(o) ==
    /\ status' = [status EXCEPT ![o] = IF @ = "none" THEN "open" ELSE @]
    /\ filed' = filed \union {o}

\* Mutant: a take in conflict is told as a fresh one.
FileAsFresh(c, t) ==
    /\ Calling(c, "file", t) \/ Calling(c, "refile", t)
    /\ Append(t) /\ NoTrouble /\ Fresh(c, t)
    /\ UNCHANGED <<layer, evidence, edits, pass, day, byHand, closes>>

File(c, t) ==
    /\ Calling(c, "file", t) \/ Calling(c, "refile", t)
    /\ Append(t)
    /\ \/ /\ NoTrouble
          /\ IF Calling(c, "file", t) THEN Fresh(c, t) ELSE Already(c, t)
       \/ Trouble /\ Fail(c)
    /\ UNCHANGED <<layer, evidence, edits, pass, day, byHand, closes>>

-----------------------------------------------------------------------------
(* pass: the reports that are owed.                                        *)

\* The pending tuples and the receipts.  Only this pass drops reports, so those it read
\* are those that are there.
ReadLayer ==
    /\ step = "idle" /\ step' = "keys"
    /\ seen' = [NothingSeen EXCEPT !.ours = {o \in Offers : tuple[o] = "us"}]
    /\ UNCHANGED <<layer, items, call, day, troubles, history>>

ReadKeys ==
    /\ step = "keys" /\ step' = "items"
    /\ seen' = [seen EXCEPT !.keys = {o \in Offers : Filed(o)}]
    /\ UNCHANGED <<layer, items, call, day, troubles, history>>

\* Each item is read by itself; one deleted meanwhile is passed over.
ReadItem(o) ==
    /\ step = "items" /\ o \in seen.keys
    /\ LET read == [status |-> status[o], evidence |-> evidence[o], edits |-> edits[o]]
       IN  seen' = [seen EXCEPT !.keys = @ \ {o},
                                !.items = [p \in DOMAIN @ \union (IF Filed(o) THEN {o} ELSE {}) |->
                                              IF p = o THEN read ELSE @[p]]]
    /\ UNCHANGED <<layer, items, call, step, day, troubles, history>>

\* Who we are is what the door says; unknown, nothing is reported by this pass.
AskMe ==
    /\ step = "items" /\ seen.keys = {}
    /\ step' = "report"
    /\ \/ NoTrouble /\ seen' = [seen EXCEPT !.me = TRUE, !.day = day]
       \/ Trouble /\ seen' = [seen EXCEPT !.day = day]
    /\ UNCHANGED <<layer, items, call, day, history>>

\* Mutant: a hand-back is named by its offer alone.
ReportByOffer(o) ==
    LET item == seen.items[o]
    IN  CASE item.status = "open" -> {Name(o, "progress", seen.day)}
          [] item.status = "done" -> {Name(o, "handback", {})}
          [] OTHER -> {Name(o, "release", item.status)}

\* A report is named by what it reports: the day, the evidence, the reason of the close.
Report(o) ==
    LET item == seen.items[o]
    IN  CASE item.status = "open" -> {Name(o, "progress", seen.day)}
          [] item.status = "done" ->
                IF item.evidence = {} THEN {} ELSE {Name(o, "handback", item.evidence)}
          [] OTHER -> {Name(o, "release", item.status)}

\* Mutant: whoever took it is reported on.
OwedByAnyone(o) == IF seen.me THEN Report(o) \ reports ELSE {}

Owed(o) == IF seen.me /\ o \in seen.ours THEN Report(o) \ reports ELSE {}

\* One item after the other; a drop that fails may still have been made.
Send(o) ==
    /\ step = "report" /\ o \in DOMAIN seen.items
    /\ seen' = [seen EXCEPT !.items = [p \in DOMAIN @ \ {o} |-> @[p]]]
    /\ \/ reports' = reports \union Owed(o) /\ NoTrouble
       \/ Trouble /\ Owed(o) # {} /\ reports' \in {reports, reports \union Owed(o)}
    /\ UNCHANGED <<tuple, items, call, step, day, history>>

EndPass == step' = "idle" /\ seen' = NothingSeen

PassEnds ==
    /\ step = "report" /\ DOMAIN seen.items = {}
    /\ EndPass
    /\ UNCHANGED <<layer, items, call, day, troubles, history>>

\* A read that fails ends the pass; so does a stop.
PassFails ==
    /\ step # "idle" /\ Trouble
    /\ EndPass
    /\ UNCHANGED <<layer, items, call, day, history>>

-----------------------------------------------------------------------------
TakeStep(c) ==
    \E t \in Offers :
        \/ LookUp(c, t) \/ ReadFirst(c, t) \/ TakeTuple(c, t)
        \/ ReadReceipt(c, t) \/ File(c, t)
PassStep ==
    \/ ReadLayer \/ ReadKeys \/ AskMe \/ PassEnds
    \/ \E o \in Offers : ReadItem(o) \/ Send(o)

Next ==
    \/ \E t \in Offers : Dropped(t) \/ TakenByAnother(t)
    \/ \E o \in Offers :
          \/ Remark(o, {}) \/ (\E u \in Urls : Remark(o, {u}))
          \/ (\E reason \in Reasons \union {"done"} : CloseItem(o, reason))
          \/ ReopenItem(o) \/ DeleteItem(o) \/ FileByHand(o)
    \/ Midnight
    \/ \E c \in Callers : (\E t \in Offers : Ask(c, t)) \/ TakeStep(c) \/ GiveUp(c)
    \/ PassStep \/ PassFails

Spec == Init /\ [][Next]_vars

\* The server's pass runs on every event and every SWEEP; a command once run goes on.
\* Nobody has to run one, nor to do anything to an item.
LiveSpec == Spec /\ WF_vars(PassStep) /\ \A c \in Callers : WF_vars(TakeStep(c))

-----------------------------------------------------------------------------
(* Properties.                                                             *)

TypeOK ==
    /\ tuple \in [Offers -> {"absent", "pending", "us", "them"}]
    /\ status \in [Offers -> {"none", "open", "done"} \union Reasons]
    /\ evidence \in [Offers -> SUBSET Urls] /\ edits \in [Offers -> 0..MaxEdits]
    /\ call \in [Callers -> {NotRunning} \union ({"keyed", "read", "take", "receipt"} \X Offers)
                                 \union ({"file", "refile"} \X Offers)]
    /\ step \in {"idle", "keys", "items", "report"}
    /\ DOMAIN seen.items \subseteq Offers
    /\ \A r \in reports : r.kind = "handback" => r.of \in (SUBSET Urls) \ {{}}
    /\ day \in 1..MaxDays /\ troubles \in 0..MaxTroubles /\ {filed, byHand, told} \subseteq SUBSET Offers
    /\ fresh \in [Offers -> Nat] /\ closes \in [Offers -> 0..MaxEdits]

\* take(): "was taken by ...": what another principal won is never filed here, one caller
\* at most is told that the take was its own, and an answer that names an item is never given
\* for an offer that no item was filed for, whatever callers, lost replies and withdrawals do
\* between the read and the take.
FiledOnce ==
    /\ \A o \in filed \ byHand : tuple[o] = "us"
    /\ \A o \in Offers : fresh[o] <= 1
    /\ told \subseteq filed

\* pass(): "not our take (or not yet known to be)": every report is on a take of ours, also when
\* the ledger holds an item for somebody else's (#1336); and as "any later write to the closed
\* item moves modified, and each move was another Release", an offer is released no more often
\* than its item was closed.
ReportsAreOwed ==
    /\ \A r \in reports : tuple[r.offer] = "us" /\ r.offer \in filed
    /\ \A o \in Offers :
          Cardinality({r \in reports : r.offer = o /\ r.kind = "release"}) <= closes[o]

\* Took::Already, "filed then, or now after a lost reply": an offer this server holds is
\* filed, once somebody who asks for it keeps asking.  And pass(): the reports each filed item
\* is owed.  Closed as done, for good, with evidence in reach: all of it is handed back;
\* closed otherwise: released with that reason.
EveryTakeIsServed ==
    \A o \in Offers :
        /\ (<>[](tuple[o] = "us") /\ []<>(\E c \in Callers : Calling(c, "keyed", o)))
              => <>(o \in filed)
        /\ \A urls \in (SUBSET Urls) \ {{}} :
              <>[](tuple[o] = "us" /\ status[o] = "done" /\ evidence[o] = urls)
                  => <>(Name(o, "handback", urls) \in reports)
        /\ \A reason \in Reasons :
              <>[](tuple[o] = "us" /\ status[o] = reason)
                  => <>(Name(o, "release", reason) \in reports)

=============================================================================
