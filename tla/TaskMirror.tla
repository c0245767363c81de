----------------------------- MODULE TaskMirror -----------------------------
(***************************************************************************)
(* The OFFER role of a layer binding, src/src/mirror.rs: a pass reads the  *)
(* layer's pending tuples, its receipts, the offers recorded in the ledger *)
(* and the ledger's items, one after the other, and then acts on what it   *)
(* read: it takes and applies the taker's reports, offers the items that   *)
(* wait for somebody, withdraws the offers of those that do not.           *)
(*                                                                         *)
(* Dispatcher and taker move between any two of its steps, every call may  *)
(* fail before or after it had its effect, and the process may stop at any *)
(* point; a pass keeps nothing but what the layer and the ledger hold.     *)
(***************************************************************************)
EXTENDS Naturals, Sequences, FiniteSets

CONSTANTS
    Items,        \* the items of the mirrored ledger
    MaxOffers,    \* bound: names minted for offers, in the order of minting
    MaxSame,      \* bound: reports of one kind a taker makes on one offer
    MaxReports,   \* bound: reports in all
    MaxReleases,  \* MAX_RELEASES: releases of one item before it waits
    MaxHandbacks, \* MAX_HANDBACKS: hand-backs of one offer that are applied
    MaxActs,      \* bound: what dispatchers and other claimants do
    MaxTroubles   \* bound: calls that fail, stops, torn listings

ASSUME MirrorConstants ==
    /\ {MaxOffers, MaxSame, MaxReports, MaxReleases, MaxHandbacks, MaxActs, MaxTroubles} \subseteq Nat
    /\ MaxReleases # 0

VARIABLES
    offer,      \* the layer: absent, pending, withdrawn (taken back by us) or taken
    feed, heard,  \* the reports dropped into the layer, and those we took, in order
    item, holder, lapsing, awaiting,   \* the ledger, per item
    about,      \* the offers recorded on an item
    keys,       \* the keyed comments that decide anything: hand-backs and spent budgets
    at, seen, pass,   \* the pass: where it stands, what it read, what it did
    minted, acts, troubles,
    answers     \* history: how often a dispatcher ended an item's wait

layer == <<offer, feed, heard>>
ledger == <<item, holder, lapsing, awaiting, about, keys>>
mirror == <<at, seen, pass>>
vars == <<layer, ledger, mirror, minted, acts, troubles, answers>>

Offers == 1..MaxOffers
Kinds == {"progress", "release", "handback"}
Reports == [offer : Offers, kind : Kinds, n : 1..MaxSame]

Elements(s) == {s[k] : k \in DOMAIN s}
Newest(offers) == CHOOSE o \in offers \union {0} : \A p \in offers : p <= o   \* 0: none
InLayer(state) == {o \in Offers : offer[o] = state}
Live == {i \in Items : item[i] # "gone"}

\* Mutant: the reports nobody took yet are listed with the receipts.
ReceiptsOfPending == [withdrawn |-> InLayer("withdrawn"), taken |-> InLayer("taken"), heard |-> Len(feed)]

\* The receipts hold every take: ours are withdrawals, the others are takes that stand.
Receipts == [withdrawn |-> InLayer("withdrawn"), taken |-> InLayer("taken"), heard |-> Len(heard)]

NothingSeen == [pending |-> {}, reports |-> {}, withdrawn |-> {}, taken |-> {}, heard |-> 0,
                ours |-> {}, items |-> [i \in {} |-> {}], complete |-> FALSE]
NothingDone == [fresh |-> {}, applied |-> 0, released |-> {}, touched |-> FALSE,
                todo |-> {}, name |-> 0]

Init ==
    /\ offer = [o \in Offers |-> "absent"] /\ feed = <<>> /\ heard = <<>>
    /\ item = [i \in Items |-> "open"]
    /\ holder = [i \in Items |-> "nobody"] /\ lapsing = [i \in Items |-> FALSE]
    /\ awaiting = [i \in Items |-> FALSE]
    /\ about = [i \in Items |-> {}] /\ keys = {}
    /\ at = "idle" /\ seen = NothingSeen /\ pass = NothingDone
    /\ minted = 0 /\ acts = 0 /\ troubles = 0
    /\ answers = [i \in Items |-> 0]

Trouble == troubles < MaxTroubles /\ troubles' = troubles + 1
NoTrouble == UNCHANGED troubles

-----------------------------------------------------------------------------
(* The other parties.                                                      *)

\* A taker, another server: it takes an offer, and reports on what it took.
TakerTakes(o) ==
    /\ offer[o] = "pending"
    /\ offer' = [offer EXCEPT ![o] = "taken"]
    /\ UNCHANGED <<feed, heard, ledger, mirror, minted, acts, troubles, answers>>

TakerReports(r) ==
    /\ offer[r.offer] = "taken" /\ r \notin Elements(feed) /\ Len(feed) < MaxReports
    /\ r.n > 1 => [r EXCEPT !.n = @ - 1] \in Elements(feed)
    /\ feed' = Append(feed, r)
    /\ UNCHANGED <<offer, heard, ledger, mirror, minted, acts, troubles, answers>>

\* A lease runs out unless it is renewed.
LeaseAges(i) ==
    /\ holder[i] = "taker" /\ ~lapsing[i]
    /\ lapsing' = [lapsing EXCEPT ![i] = TRUE]
    /\ UNCHANGED <<layer, item, holder, awaiting, about, keys, mirror, minted, acts, troubles, answers>>

LeaseLapses(i) ==
    /\ lapsing[i]
    /\ lapsing' = [lapsing EXCEPT ![i] = FALSE]
    /\ holder' = [holder EXCEPT ![i] = "nobody"]
    /\ UNCHANGED <<layer, item, awaiting, about, keys, mirror, minted, acts, troubles, answers>>

Act == acts < MaxActs /\ acts' = acts + 1

\* Closed work awaits nobody; that ends a wait as an answer does.
Close(i, status) ==
    /\ Act /\ item[i] = "open" /\ status \in {"closed", "gone"}
    /\ item' = [item EXCEPT ![i] = status]
    /\ awaiting' = [awaiting EXCEPT ![i] = FALSE]
    /\ answers' = [answers EXCEPT ![i] = IF awaiting[i] THEN @ + 1 ELSE @]
    /\ UNCHANGED <<layer, holder, lapsing, about, keys, mirror, minted, troubles>>

Reopen(i) ==
    /\ Act /\ item[i] = "closed"
    /\ item' = [item EXCEPT ![i] = "open"]
    /\ UNCHANGED <<layer, holder, lapsing, awaiting, about, keys, mirror, minted, troubles, answers>>

\* Any comment of the dispatcher's ends the item's wait for them.
Answer(i) ==
    /\ Act /\ awaiting[i]
    /\ awaiting' = [awaiting EXCEPT ![i] = FALSE]
    /\ answers' = [answers EXCEPT ![i] = @ + 1]
    /\ UNCHANGED <<layer, item, holder, lapsing, about, keys, mirror, minted, troubles>>

\* Somebody here claims the item, or a claim is released by hand.
ClaimHere(i) ==
    /\ Act /\ item[i] = "open" /\ holder[i] = "nobody"
    /\ holder' = [holder EXCEPT ![i] = "other"]
    /\ UNCHANGED <<layer, item, lapsing, awaiting, about, keys, mirror, minted, troubles, answers>>

ReleaseHere(i) ==
    /\ Act /\ holder[i] # "nobody"
    /\ holder' = [holder EXCEPT ![i] = "nobody"]
    /\ lapsing' = [lapsing EXCEPT ![i] = FALSE]
    /\ UNCHANGED <<layer, item, awaiting, about, keys, mirror, minted, troubles, answers>>

-----------------------------------------------------------------------------
(* The pass reads.                                                         *)

ReadPending ==
    /\ at = "idle"
    /\ at' = "receipts"
    /\ seen' = [seen EXCEPT !.pending = InLayer("pending"),
                            !.reports = {k \in DOMAIN feed : feed[k] \notin Elements(heard)}]
    /\ UNCHANGED <<layer, ledger, pass, minted, acts, troubles, answers>>

ReadReceipts ==
    /\ at = "receipts"
    /\ at' = "recorded"
    /\ seen' = [seen EXCEPT !.withdrawn = Receipts.withdrawn, !.taken = Receipts.taken,
                            !.heard = Receipts.heard]
    /\ UNCHANGED <<layer, ledger, pass, minted, acts, troubles, answers>>

\* A deleted item takes its about edges with it.
ReadRecorded ==
    /\ at = "recorded"
    /\ at' = "items"
    /\ seen' = [seen EXCEPT !.ours = UNION {about[i] : i \in Live}]
    /\ UNCHANGED <<layer, ledger, pass, minted, acts, troubles, answers>>

\* collect_items: the whole set, or a torn listing, which says that it is partial.
Listing(listed) ==
    [i \in listed |-> [open |-> item[i] = "open", holder |-> holder[i], awaiting |-> awaiting[i]]]

ReadItems ==
    /\ at = "items"
    /\ at' = "take"
    /\ \/ /\ seen' = [seen EXCEPT !.items = Listing(Live), !.complete = TRUE]
          /\ NoTrouble
       \/ /\ Trouble
          /\ \E listed \in (SUBSET Live) \ {Live} :
                seen' = [seen EXCEPT !.items = Listing(listed), !.complete = FALSE]
    /\ UNCHANGED <<layer, ledger, pass, minted, acts, answers>>

\* A read that fails ends the pass; a stop ends it wherever it stands (so does the
\* layer's failure to say who we are, which only costs the withdrawals of orphans).
EndPass == at' = "idle" /\ seen' = NothingSeen /\ pass' = NothingDone

GiveUp ==
    /\ at # "idle" /\ Trouble
    /\ EndPass
    /\ UNCHANGED <<layer, ledger, minted, acts, answers>>

-----------------------------------------------------------------------------
(* 1. The reports are taken, in feed order, and 2. every one held applied. *)

NextReport == CHOOSE k \in seen.reports : \A j \in seen.reports : k <= j   \* by position

\* A take whose reply is lost has its effect, and is not known to have.
TakeReport ==
    /\ at = "take" /\ seen.reports # {}
    /\ seen' = [seen EXCEPT !.reports = @ \ {NextReport}]
    /\ LET r == feed[NextReport]
       IN  \/ /\ r.offer \in seen.ours
              /\ heard' = Append(heard, r)
              /\ \/ NoTrouble /\ pass' = [pass EXCEPT !.fresh = @ \union {r}]
                 \/ Trouble /\ UNCHANGED pass
           \/ /\ r.offer \in seen.ours
              /\ Trouble /\ UNCHANGED <<heard, pass>>
           \/ /\ r.offer \notin seen.ours
              /\ NoTrouble /\ UNCHANGED <<heard, pass>>
    /\ UNCHANGED <<offer, feed, ledger, at, minted, acts, answers>>

\* The receipts are read again when anything was taken.
ReadAgain ==
    /\ at = "take" /\ seen.reports = {}
    /\ at' = "apply"
    /\ seen' = IF pass.fresh = {} THEN seen
               ELSE [seen EXCEPT !.withdrawn = Receipts.withdrawn, !.taken = Receipts.taken,
                                 !.heard = Receipts.heard]
    /\ UNCHANGED <<layer, ledger, pass, minted, acts, troubles, answers>>

\* The report being applied, on the listed item its offer is recorded on.
Current(r, i) ==
    /\ at = "apply" /\ pass.applied < seen.heard
    /\ r = heard[pass.applied + 1]
    /\ r.offer \in seen.ours \intersect seen.taken
    /\ i \in DOMAIN seen.items /\ r.offer \in about[i]

Recorded(i) == about[i] \intersect seen.ours
IsNewest(i, o) == o = Newest(Recorded(i))
Applied == [pass EXCEPT !.applied = @ + 1]

SkipReport ==
    /\ at = "apply" /\ pass.applied < seen.heard
    /\ ~ \E r \in Reports, i \in Items : Current(r, i)
    /\ pass' = Applied
    /\ UNCHANGED <<layer, ledger, at, seen, minted, acts, troubles, answers>>

\* A comment under a key that is there writes nothing; one the ledger takes with
\* handback=true makes the open item wait, and closed work awaits nobody.
Comment(i, key, handback) ==
    /\ keys' = IF item[i] = "gone" THEN keys ELSE keys \union {key}
    /\ awaiting' = [awaiting EXCEPT ![i] =
                      @ \/ (handback /\ item[i] = "open" /\ key \notin keys)]

HandbacksOn(o, n) ==
    Cardinality({k \in 1..n : heard[k].kind = "handback" /\ heard[k].offer = o})

\* Mutant: a hand-back on an offer that was superseded interrupts all the same.
ApplyAnyHandback(r, i) ==
    /\ Current(r, i) /\ r.kind = "handback"
    /\ \/ /\ HandbacksOn(r.offer, pass.applied + 1) <= MaxHandbacks
          /\ Comment(i, <<"handback", r>>, seen.items[i].open)
          /\ NoTrouble /\ pass' = [Applied EXCEPT !.touched = TRUE]
       \/ /\ HandbacksOn(r.offer, pass.applied + 1) > MaxHandbacks
          /\ UNCHANGED <<keys, awaiting>>
          /\ NoTrouble /\ pass' = [Applied EXCEPT !.touched = TRUE]
       \/ UNCHANGED <<keys, awaiting>> /\ Trouble /\ pass' = Applied
    /\ UNCHANGED <<layer, item, holder, lapsing, about, at, seen, minted, acts, answers>>

\* The first MaxHandbacks of an offer are commented, and interrupt while the offer
\* is its item's newest and the item is open.  Past them nothing is copied.
ApplyHandback(r, i) ==
    /\ Current(r, i) /\ r.kind = "handback"
    /\ \/ /\ HandbacksOn(r.offer, pass.applied + 1) <= MaxHandbacks
          /\ Comment(i, <<"handback", r>>, IsNewest(i, r.offer) /\ seen.items[i].open)
          /\ NoTrouble /\ pass' = [Applied EXCEPT !.touched = TRUE]
       \/ /\ HandbacksOn(r.offer, pass.applied + 1) > MaxHandbacks
          /\ UNCHANGED <<keys, awaiting>>
          /\ NoTrouble /\ pass' = [Applied EXCEPT !.touched = TRUE]
       \/ UNCHANGED <<keys, awaiting>> /\ Trouble /\ pass' = Applied
    /\ UNCHANGED <<layer, item, holder, lapsing, about, at, seen, minted, acts, answers>>

\* One release of an offer is applied: it is commented, and the taker's claim ended
\* while the offer is its item's newest.  Either write may fail.
ApplyRelease(r, i) ==
    /\ Current(r, i) /\ r.kind = "release"
    /\ LET again == r.offer \in pass.released
           ends  == /\ ~again /\ IsNewest(i, r.offer)
                    /\ seen.items[i].holder = "taker" /\ holder[i] = "taker"
       IN  /\ \/ /\ NoTrouble
                 /\ holder' = IF ends THEN [holder EXCEPT ![i] = "nobody"] ELSE holder
                 /\ lapsing' = IF ends THEN [lapsing EXCEPT ![i] = FALSE] ELSE lapsing
                 /\ pass' = [Applied EXCEPT !.released = @ \union {r.offer},
                                            !.touched = @ \/ ends]
              \/ /\ Trouble /\ ~again
                 /\ pass' = [Applied EXCEPT !.released = @ \union {r.offer}]
                 /\ UNCHANGED <<holder, lapsing>>
    /\ UNCHANGED <<layer, item, awaiting, about, keys, at, seen, minted, acts, answers>>

\* Progress renews the lease when this pass took the report.
ApplyProgress(r, i) ==
    /\ Current(r, i) /\ r.kind = "progress"
    /\ LET renews == /\ r \in pass.fresh /\ seen.items[i].open
                     /\ seen.items[i].holder = "taker" /\ holder[i] = "taker"
       IN  \/ /\ NoTrouble
              /\ lapsing' = IF renews THEN [lapsing EXCEPT ![i] = FALSE] ELSE lapsing
              /\ pass' = [Applied EXCEPT !.touched = @ \/ renews]
           \/ Trouble /\ renews /\ pass' = Applied /\ UNCHANGED lapsing
    /\ UNCHANGED <<layer, item, holder, awaiting, about, keys, at, seen, minted, acts, answers>>

\* Anything written is read again.  This listing may be torn as well, and only the
\* first one's completeness is kept.
Relist ==
    /\ at = "apply" /\ pass.applied = seen.heard
    /\ at' = "act"
    /\ \/ pass.touched /\ seen' = [seen EXCEPT !.items = Listing(Live)] /\ NoTrouble
       \/ /\ pass.touched /\ Trouble
          /\ \E listed \in (SUBSET Live) \ {Live} : seen' = [seen EXCEPT !.items = Listing(listed)]
       \/ ~pass.touched /\ UNCHANGED <<seen, troubles>>
    /\ pass' = [pass EXCEPT !.todo = DOMAIN seen'.items]
    /\ UNCHANGED <<layer, ledger, minted, acts, answers>>

-----------------------------------------------------------------------------
(* 3. Each item against its newest offer.                                  *)

Wants(i) ==
    seen.items[i].open /\ seen.items[i].holder = "nobody" /\ ~seen.items[i].awaiting

Done(i) == pass' = [pass EXCEPT !.todo = @ \ {i}]

\* An offer that is pending although its item wants none, or has a newer one.
ToWithdraw(i) ==
    {o \in Recorded(i) \intersect seen.pending : ~IsNewest(i, o) \/ ~Wants(i)}

\* Mutant: a withdrawal reverses a take.
WithdrawTaken(i, o) ==
    /\ at = "act" /\ i \in pass.todo /\ o \in ToWithdraw(i)
    /\ seen' = [seen EXCEPT !.pending = @ \ {o}]
    /\ offer' = [offer EXCEPT ![o] = "withdrawn"]
    /\ IF IsNewest(i, o) THEN Done(i) ELSE UNCHANGED pass
    /\ UNCHANGED <<feed, heard, ledger, at, minted, acts, troubles, answers>>

\* A withdrawal is a take like any other: one that loses leaves the taker's, and
\* one whose reply or request is lost is tried again by a later pass.
Withdraw(i, o) ==
    /\ at = "act" /\ i \in pass.todo /\ o \in ToWithdraw(i)
    /\ seen' = [seen EXCEPT !.pending = @ \ {o}]
    /\ \/ /\ offer' = [offer EXCEPT ![o] = IF @ = "pending" THEN "withdrawn" ELSE @]
          /\ NoTrouble \/ Trouble
       \/ Trouble /\ UNCHANGED offer
    /\ IF IsNewest(i, o) THEN Done(i) ELSE UNCHANGED pass
    /\ UNCHANGED <<feed, heard, ledger, at, minted, acts, answers>>

\* The newest offer is pending and wanted, or taken by somebody who holds the item,
\* or the item wants nothing that this pass could do.
Settled(i) ==
    LET ours == Recorded(i)
        o == Newest(ours)
    IN  IF ours = {} THEN ~Wants(i)
        ELSE \/ o \in seen.pending /\ Wants(i)
             \/ o \notin seen.pending \union seen.taken /\ ~Wants(i)
             \/ o \in pass.released /\ ~Wants(i)
             \/ o \in seen.taken \ (seen.pending \union pass.released) /\ ~Wants(i)

LeaveItem(i) ==
    /\ at = "act" /\ i \in pass.todo /\ ToWithdraw(i) = {} /\ Settled(i)
    /\ Done(i)
    /\ UNCHANGED <<layer, ledger, at, seen, minted, acts, troubles, answers>>

\* A taken offer's open item nobody holds is claimed for its taker.
ClaimFor(i) ==
    LET o == Newest(Recorded(i))
    IN  /\ at = "act" /\ i \in pass.todo /\ ToWithdraw(i) = {} /\ Recorded(i) # {}
        /\ o \in seen.taken \ (seen.pending \union pass.released) /\ Wants(i)
        /\ Done(i)
        /\ \/ /\ NoTrouble
              /\ IF item[i] = "open" /\ holder[i] = "nobody"
                 THEN /\ holder' = [holder EXCEPT ![i] = "taker"]
                      /\ lapsing' = [lapsing EXCEPT ![i] = FALSE]
                 ELSE UNCHANGED <<holder, lapsing>>
           \/ Trouble /\ UNCHANGED <<holder, lapsing>>
        /\ UNCHANGED <<layer, item, awaiting, about, keys, at, seen, minted, acts, answers>>

\* A new offer is due: none was ever recorded, the newest was withdrawn by us, or it
\* was released and the item's release budget is not spent or has been answered.
Spent(i) == Cardinality(pass.released \intersect Recorded(i)) >= MaxReleases
BudgetKey(i) == <<"budget", Newest(Recorded(i))>>

\* Mutant: no release budget.
NewOfferUnbounded(i) ==
    LET o == Newest(Recorded(i))
    IN  \/ Recorded(i) = {}
        \/ o \in (seen.withdrawn \union pass.released) \ seen.pending

NewOfferDue(i) ==
    LET o == Newest(Recorded(i))
    IN  \/ Recorded(i) = {}
        \/ o \in seen.withdrawn \ seen.pending
        \/ /\ o \in pass.released \ seen.pending
           /\ Spent(i) => BudgetKey(i) \in keys

\* budget_answered, the first time: the item waits for its dispatcher.
SpendBudget(i) ==
    LET o == Newest(Recorded(i))
    IN  /\ at = "act" /\ i \in pass.todo /\ ToWithdraw(i) = {} /\ Wants(i) /\ Recorded(i) # {}
        /\ o \in pass.released \ seen.pending /\ Spent(i) /\ BudgetKey(i) \notin keys
        /\ Done(i)
        /\ \/ /\ NoTrouble
              /\ IF item[i] = "open" THEN Comment(i, BudgetKey(i), TRUE)
                                     ELSE UNCHANGED <<keys, awaiting>>
           \/ Trouble /\ UNCHANGED <<keys, awaiting>>
        /\ UNCHANGED <<layer, item, holder, lapsing, about, at, seen, minted, acts, answers>>

\* offer: recorded on the item before it is dropped.  It may also be withheld by the
\* content gate, or refused by the ledger, and then nothing is recorded (with the last
\* of the MaxOffers names minted, a new offer is refused like that).
Record(i) ==
    /\ at = "act" /\ i \in pass.todo /\ ToWithdraw(i) = {} /\ Wants(i) /\ NewOfferDue(i)
    /\ IF item[i] = "gone" \/ minted = MaxOffers THEN Done(i) /\ UNCHANGED <<about, at, minted, troubles>>
       ELSE \/ /\ NoTrouble
               /\ minted' = minted + 1
               /\ about' = [about EXCEPT ![i] = @ \union {minted + 1}]
               /\ pass' = [pass EXCEPT !.todo = @ \ {i}, !.name = minted + 1]
               /\ at' = "drop"
            \/ Trouble /\ Done(i) /\ UNCHANGED <<about, at, minted>>
    /\ UNCHANGED <<layer, item, holder, lapsing, awaiting, keys, seen, acts, answers>>

\* Mutant: a recorded offer is taken for one that was dropped.
ResumeNever(i) ==
    LET o == Newest(Recorded(i))
    IN  /\ at = "act" /\ i \in pass.todo /\ ToWithdraw(i) = {} /\ Wants(i) /\ Recorded(i) # {}
        /\ o \notin seen.pending \union seen.withdrawn \union seen.taken
        /\ Done(i)
        /\ UNCHANGED <<layer, ledger, at, seen, minted, acts, troubles, answers>>

\* Recorded and never dropped (a stop between the two): dropped under that name.
Resume(i) ==
    LET o == Newest(Recorded(i))
    IN  /\ at = "act" /\ i \in pass.todo /\ ToWithdraw(i) = {} /\ Wants(i) /\ Recorded(i) # {}
        /\ o \notin seen.pending \union seen.withdrawn \union seen.taken
        /\ pass' = [pass EXCEPT !.todo = @ \ {i}, !.name = o]
        /\ at' = "drop"
        /\ UNCHANGED <<layer, ledger, seen, minted, acts, troubles, answers>>

\* The layer keeps one tuple per subject, so a second drop changes nothing.
Drop ==
    /\ at = "drop"
    /\ at' = "act" /\ pass' = [pass EXCEPT !.name = 0]
    /\ \/ /\ offer' = [offer EXCEPT ![pass.name] = IF @ = "absent" THEN "pending" ELSE @]
          /\ NoTrouble \/ Trouble
       \/ Trouble /\ UNCHANGED offer
    /\ UNCHANGED <<feed, heard, ledger, seen, minted, acts, answers>>

-----------------------------------------------------------------------------
(* 4. Offers in our namespace whose item is no longer live.                *)

Orphans ==
    {o \in seen.pending :
        o \notin seen.ours \/ ~ \E i \in DOMAIN seen.items : o \in about[i]}

WithdrawOrphan(o) ==
    /\ at = "act" /\ pass.todo = {} /\ seen.complete /\ o \in Orphans
    /\ seen' = [seen EXCEPT !.pending = @ \ {o}]
    /\ \/ /\ offer' = [offer EXCEPT ![o] = IF @ = "pending" THEN "withdrawn" ELSE @]
          /\ NoTrouble \/ Trouble
       \/ Trouble /\ UNCHANGED offer
    /\ UNCHANGED <<feed, heard, ledger, at, pass, minted, acts, answers>>

Finish ==
    /\ at = "act" /\ pass.todo = {} /\ (seen.complete => Orphans = {})
    /\ EndPass
    /\ UNCHANGED <<layer, ledger, minted, acts, troubles, answers>>

-----------------------------------------------------------------------------
Apply == SkipReport \/ \E r \in Reports, i \in Items :
            ApplyHandback(r, i) \/ ApplyRelease(r, i) \/ ApplyProgress(r, i)
ActOn(i) ==
    \/ LeaveItem(i) \/ ClaimFor(i) \/ SpendBudget(i) \/ Record(i) \/ Resume(i)
    \/ \E o \in Offers : Withdraw(i, o)

PassStep ==
    \/ ReadPending \/ ReadReceipts \/ ReadRecorded \/ ReadItems
    \/ TakeReport \/ ReadAgain \/ Apply \/ Relist
    \/ (\E i \in Items : ActOn(i)) \/ Drop
    \/ (\E o \in Offers : WithdrawOrphan(o)) \/ Finish

Next ==
    \/ PassStep \/ GiveUp
    \/ \E o \in Offers : TakerTakes(o)
    \/ \E r \in Reports : TakerReports(r)
    \/ \E i \in Items :
          \/ LeaseAges(i) \/ LeaseLapses(i)
          \/ Close(i, "closed") \/ Close(i, "gone") \/ Reopen(i) \/ Answer(i)
          \/ ClaimHere(i) \/ ReleaseHere(i)

Spec == Init /\ [][Next]_vars

\* The pass thread runs again after every kick and every SWEEP; nothing is assumed of
\* the dispatcher, the taker, or the calls that fail.
LiveSpec == Spec /\ WF_vars(PassStep)

-----------------------------------------------------------------------------
(* Properties.                                                             *)

TypeOK ==
    /\ offer \in [Offers -> {"absent", "pending", "withdrawn", "taken"}]
    /\ Elements(feed) \subseteq Reports /\ Elements(heard) \subseteq Elements(feed)
    /\ item \in [Items -> {"open", "closed", "gone"}]
    /\ holder \in [Items -> {"nobody", "taker", "other"}]
    /\ lapsing \in [Items -> BOOLEAN] /\ awaiting \in [Items -> BOOLEAN]
    /\ about \in [Items -> SUBSET Offers]
    /\ keys \subseteq ({"handback"} \X Reports) \union ({"budget"} \X Offers)
    /\ at \in {"idle", "receipts", "recorded", "items", "take", "apply", "act", "drop"}
    /\ seen.heard \in 0..Len(heard) /\ pass.applied \in 0..seen.heard
    /\ minted \in 0..MaxOffers /\ acts \in Nat /\ troubles \in Nat
    /\ answers \in [Items -> Nat]

Released == {heard[k].offer : k \in {n \in DOMAIN heard : heard[n].kind = "release"}}
LiveOffers(i) == {o \in about[i] : offer[o] = "pending" \/ (offer[o] = "taken" /\ o \notin Released)}

\* Module docs: "the difference from what SHOULD be".  Whatever fails or races, an
\* item is on offer, or out with a taker who has not released it, under one name only.
OnePlaceOfWork == \A i \in Items : Cardinality(LiveOffers(i)) <= 1

\* MAX_RELEASES and MAX_HANDBACKS: an item its takers keep releasing is offered again only
\* as often as the budget and its dispatcher's answers allow, and one offer interrupts its
\* dispatcher so often and no more, however many passes apply the same reports again.
ReturnsAreBounded ==
    /\ \A i \in Items : Cardinality(about[i] \intersect Released) <= MaxReleases + answers[i]
    /\ \A o \in Offers :
          Cardinality({key \in keys : key[1] = "handback" /\ key[2].offer = o}) <= MaxHandbacks

\* An item begins to wait only for something never said before about its newest
\* offer: a replay cannot undo the dispatcher's answer, a former taker cannot interrupt.
OnlyNewsInterrupts ==
    [][\A i \in Items : ~awaiting[i] /\ awaiting'[i] =>
          \E key \in keys' \ keys :
             Newest(about[i]) = IF key[1] = "budget" THEN key[2] ELSE key[2].offer]_vars

\* Work in the layer refines WorkPlace: an item on offer under one name is withdrawn or
\* taken, one taken comes back by a release only, and a name never serves twice.
Place(i) ==
    LET live == LiveOffers(i)
    IN  IF live = {} THEN <<"here">>
        ELSE <<IF offer[Newest(live)] = "pending" THEN "offer" ELSE "out", Newest(live)>>
Work == INSTANCE WorkPlace WITH
            place <- [i \in Items |-> Place(i)], used <- Offers \ InLayer("absent"),
            given <- Released
ImplementsWorkPlace == []OnePlaceOfWork /\ Work!Spec

\* Closed, or deleted, for good: no offer of the item stays open.  Open, free and waiting
\* for nobody, for good: the item is offered (unless the bound on names is used up).
OfferFollowsItem ==
    \A i \in Items :
        /\ <>[](item[i] # "open") => <>[](about[i] \intersect InLayer("pending") = {})
        /\ <>[](item[i] = "open" /\ holder[i] = "nobody" /\ ~awaiting[i]) =>
              <>[](LiveOffers(i) # {} \/ minted = MaxOffers)

-----------------------------------------------------------------------------
(* What the code's own words say, and its steps contradict.                *)

\* collect_items: a partial listing withdraws nothing as gone.
OnlyGoneIsOrphaned ==
    [][\A i \in Live : \A o \in about[i] :
          at = "act" /\ pass.todo = {} /\ offer[o] = "pending" => offer'[o] # "withdrawn"]_vars

=============================================================================
