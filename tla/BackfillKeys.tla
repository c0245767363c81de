---------------------------- MODULE BackfillKeys ----------------------------
(***************************************************************************)
(* `ledger backfill-keys`: the items filed before bridges had keys are     *)
(* given the key they would carry now, beside bridges that file and people *)
(* who delete: src/src/keys.rs, and the filing loops of src/src/roborev.rs *)
(* and src/src/findings.rs.                                                *)
(*                                                                         *)
(* A backfill reads the items, then the keys, plans, writes one            *)
(* conditional update for each key, and reads the keys again. It may be    *)
(* cut between any two requests. Subjects are numbered as the ledger       *)
(* numbers items; a bridge IRI is its own key.                             *)
(***************************************************************************)
EXTENDS Integers, FiniteSets

CONSTANTS Iris,          \* bridge IRIs: what a bridge files under, and the key it files with
          Backfills,     \* runs of the command
          Bridges,       \* runs of a bridge, each with every IRI to file
          Legacy,        \* what the items filed before are about: a sequence of sets of IRIs
          NoKey,
          MaxItems       \* bound: items in the ledger

KeysConstants ==
    /\ MaxItems \in Nat /\ IsFiniteSet(Iris) /\ NoKey \notin Iris
    /\ \E n \in 0..MaxItems : Legacy \in [1..n -> SUBSET Iris]

VARIABLES
    subject,    \* per number: [is: none | item | tombstone, about, key]
    backfill,   \* per run of the command
    bridge      \* per run of a bridge: the IRIs it has still to file

vars == <<subject, backfill, bridge>>

Numbers == 1..MaxItems
Free == [is |-> "none", about |-> {}, key |-> NoKey]
Idle == [at |-> "asked", rows |-> {}, keyings |-> {}, plan |-> {}, lost |-> {}]

Items == {n \in Numbers : subject[n].is = "item"}
Holder(iri) == {n \in Numbers : subject[n].key = iri}
Held == {iri \in Iris : Holder(iri) # {}}

Init ==
    /\ subject = [n \in Numbers |->
          IF n \in DOMAIN Legacy THEN [is |-> "item", about |-> Legacy[n], key |-> NoKey] ELSE Free]
    /\ backfill = [b \in Backfills |-> Idle]
    /\ bridge = [r \in Bridges |-> Iris]

-----------------------------------------------------------------------------
(* The command.                                                            *)

\* Every item about a bridge IRI, with its key.
ReadItems(b) ==
    /\ backfill[b].at = "asked"
    /\ backfill' = [backfill EXCEPT ![b].at = "read", ![b].rows =
          {[number |-> n, about |-> subject[n].about, key |-> subject[n].key] : n \in Items}]
    /\ UNCHANGED <<subject, bridge>>

\* The first filing stands for the IRI.
FirstOf(rows) == {r \in rows : \A s \in rows : r.number <= s.number}

\* An item about two bridge IRIs is skipped, as one with another key is; of the others about
\* an IRI nobody holds, the first filing gets the key.
Planned(rows, held) ==
    UNION {{[item |-> r.number, key |-> iri] :
              r \in FirstOf({s \in rows : s.about = {iri} /\ s.key = NoKey})} : iri \in Iris \ held}

ReadKeys(b) ==
    LET planned == Planned(backfill[b].rows, Held)
    IN  /\ backfill[b].at = "read"
        /\ backfill' = [backfill EXCEPT ![b] =
              [@ EXCEPT !.at = IF planned = {} THEN "done" ELSE "keying",
                        !.keyings = planned, !.plan = planned]]
        /\ UNCHANGED <<subject, bridge>>

\* Mutant: the update asks only that the key be free.
LandsOnAny(k) == subject[k.item].key = NoKey /\ Holder(k.key) = {}

\* Mutant: the update asks only that the item have no key.
LandsOnUnkeyed(k) == subject[k.item].is = "item" /\ subject[k.item].key = NoKey

\* insert_key's WHERE: an item still, without a key, and the key on no other subject.
Lands(k) ==
    /\ subject[k.item].is = "item" /\ subject[k.item].key = NoKey
    /\ Holder(k.key) = {}

\* The keys are written in the order of the numbers.
InsertKey(b) ==
    LET k == CHOOSE c \in backfill[b].keyings : \A d \in backfill[b].keyings : c.item <= d.item
    IN  /\ backfill[b].at = "keying" /\ backfill[b].keyings # {}
        /\ subject' = IF Lands(k) THEN [subject EXCEPT ![k.item].key = k.key] ELSE subject
        /\ backfill' = [backfill EXCEPT ![b].keyings = @ \ {k}]
        /\ UNCHANGED bridge

\* What did not land where it was planned, or was deleted since, is told.
ReadBack(b) ==
    /\ backfill[b].at = "keying" /\ backfill[b].keyings = {}
    /\ backfill' = [backfill EXCEPT ![b].at = "done",
          ![b].lost = {k \in backfill[b].plan : Holder(k.key) \cap Items # {k.item}}]
    /\ UNCHANGED <<subject, bridge>>

\* Cut between two requests, or at an error; it may be run again.
Again(b) ==
    /\ backfill[b].at # "asked" /\ backfill' = [backfill EXCEPT ![b] = Idle]
    /\ UNCHANGED <<subject, bridge>>

-----------------------------------------------------------------------------
(* Around it.                                                              *)

Taken == {n \in Numbers : subject[n].is # "none"}
NextNumber == Cardinality(Taken) + 1

\* A bridge's run files in turn, each under its key: `existing` when the key is taken.
File(r, iri) ==
    /\ iri \in bridge[r] /\ bridge' = [bridge EXCEPT ![r] = @ \ {iri}]
    /\ IF iri \in Held
       THEN UNCHANGED subject
       ELSE /\ NextNumber \in Numbers
            /\ subject' = [subject EXCEPT ![NextNumber] =
                             [is |-> "item", about |-> {iri}, key |-> iri]]
    /\ UNCHANGED backfill

\* A tombstone keeps the key, and is about nothing.
Delete(n) ==
    /\ n \in Items
    /\ subject' = [subject EXCEPT ![n].is = "tombstone", ![n].about = {}]
    /\ UNCHANGED <<backfill, bridge>>

Next ==
    \/ \E b \in Backfills :
         ReadItems(b) \/ ReadKeys(b) \/ InsertKey(b) \/ ReadBack(b) \/ Again(b)
    \/ \E r \in Bridges, iri \in Iris : File(r, iri)
    \/ \E n \in Numbers : Delete(n)

Spec == Init /\ [][Next]_vars

-----------------------------------------------------------------------------
TypeOK ==
    /\ \A n \in Numbers : /\ subject[n].is \in {"none", "item", "tombstone"}
                          /\ subject[n].key \in Iris \cup {NoKey} /\ subject[n].about \subseteq Iris
                          /\ n \in Taken <=> n < NextNumber
    /\ \A b \in Backfills : /\ backfill[b].at \in {"asked", "read", "keying", "done"}
                            /\ backfill[b].keyings \subseteq backfill[b].plan
    /\ \A r \in Bridges : bridge[r] \subseteq Iris

\* "It can never put a second key on an item or a key on a second subject, even against a
\* bridge filing at the same moment": a key names one subject, for good.
KeyNamesOne ==
    /\ [](\A iri \in Iris : Cardinality(Holder(iri)) <= 1)
    /\ [][\A n \in Numbers : subject[n].key # NoKey => subject'[n].key = subject[n].key]_vars

\* "It does not key a DELETED item's tombstone."
TombstonesStay ==
    [][\A n \in Numbers : subject[n].is = "tombstone" => subject'[n] = subject[n]]_vars

\* "The first keyed run after an upgrade would file all of it again. This command closes that
\* gap": when a run ends and tells of no key that was lost, then of what is about a bridge IRI
\* alone and was there when it read, whatever is there still has a keyed item or a tombstone
\* to answer for it, so no bridge files it.
GapIsClosed ==
    \A b \in Backfills : backfill[b].at = "done" /\ backfill[b].lost = {} =>
        \A r \in backfill[b].rows :
            Cardinality(r.about) = 1 /\ r.key = NoKey => r.about \subseteq Held

\* Whoever stands for an IRI was filed no later than any unkeyed item about it alone that was
\* left a duplicate by the command.
FirstStands ==
    \A n \in Items : subject[n].key # NoKey /\ n \in DOMAIN Legacy =>
        \A m \in Items : m < n => ~(subject[m].about = {subject[n].key} /\ subject[m].key = NoKey)

=============================================================================
