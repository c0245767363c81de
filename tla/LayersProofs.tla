---------------------------- MODULE LayersProofs ----------------------------
(***************************************************************************)
(* What holds of the offers of a mirrored ledger for any items, bounds and *)
(* takers, of which Layers.cfg checks a small instance: an item's work is  *)
(* in one place, as WorkPlace says, and comes back only so often. And what *)
(* holds of the page on which a person follows layers, for any of them:    *)
(* nothing is missed, and a tuple leaves the list only when it was taken.  *)
(***************************************************************************)
EXTENDS MCLayers, FiniteSetTheorems, FunctionTheorems, WellFoundedInduction, TLAPS

-----------------------------------------------------------------------------
(* The newest of a set of offers.                                          *)

LEMMA LeastOf ==
    ASSUME NEW T \in SUBSET Nat, T # {}
    PROVE  \E n \in T : \A m \in T : n <= m
<1> DEFINE R == OpToRel(<, Nat)
<1>1. PICK n \in T : \A m \in T : <<m, n>> \notin R
  <2>1. IsWellFoundedOn(R, Nat)
    BY NatLessThanWellFounded
  <2>2. QED
    BY <2>1, WFMin, Zenon
<1>2. \A m \in T : ~(m < n)
  BY <1>1 DEF OpToRel
<1>3. QED
  BY <1>2

LEMMA Bounds ==
    /\ MaxOffers \in Nat /\ MaxSame \in Nat /\ MaxReports \in Nat
    /\ MaxReleases \in Nat \ {0} /\ MaxHandbacks \in Nat
BY MirrorConstants

\* The newest is one of them, unless there is none, and none is newer.
LEMMA NewestIs ==
    ASSUME NEW S \in SUBSET Offers
    PROVE  /\ \A p \in S : p <= Newest(S)
           /\ S # {} => Newest(S) \in S
           /\ S = {} => Newest(S) = 0
           /\ Newest(S) \in 0 .. MaxOffers
<1> DEFINE T == {n \in Nat : \A p \in S : p <= n}
<1>1. MaxOffers \in T
  BY Bounds DEF Offers
<1>2. PICK n \in T : \A m \in T : n <= m
  BY <1>1, LeastOf
<1>3. n \in S \union {0}
  <2> SUFFICES ASSUME n \notin S, n # 0 PROVE FALSE
    OBVIOUS
  <2>1. n - 1 \in Nat /\ \A p \in S : p <= n - 1
    BY <1>2, Bounds DEF Offers
  <2>2. QED
    BY <1>2, <2>1
<1>4. \A p \in S : p <= n
  OBVIOUS
<1>5. Newest(S) \in S \union {0} /\ \A p \in S : p <= Newest(S)
  BY <1>3, <1>4 DEF Newest
<1>6. \A p \in S : p \in 1 .. MaxOffers
  BY DEF Offers
<1>7. S # {} => Newest(S) \in S
  BY <1>5, <1>6, Bounds
<1>8. S = {} => Newest(S) = 0
  BY <1>5
<1>9. Newest(S) \in 0 .. MaxOffers
  BY <1>6, <1>7, <1>8, Bounds
<1>10. QED
  BY <1>5, <1>7, <1>8, <1>9

LEMMA NewestIsOnly ==
    ASSUME NEW S \in SUBSET Offers, NEW o \in S, \A p \in S : p <= o
    PROVE  Newest(S) = o
BY NewestIs, Bounds DEF Offers

-----------------------------------------------------------------------------
(* The invariant.                                                          *)

Parties == {"nobody", "taker", "other"}
Rows == [open : BOOLEAN, holder : Parties, awaiting : BOOLEAN]
Listings == UNION {[listed -> Rows] : listed \in SUBSET Items}
Readings == [pending : SUBSET Offers, reports : SUBSET Nat, withdrawn : SUBSET Offers,
             taken : SUBSET Offers, heard : Nat, ours : SUBSET Offers, items : Listings,
             complete : BOOLEAN]
Passes == [fresh : SUBSET Reports, applied : Nat, released : SUBSET Offers, touched : BOOLEAN,
           todo : SUBSET Items, name : 0 .. MaxOffers]
Keyed == ({"handback"} \X Reports) \union ({"budget"} \X Offers)

\* The layer and the ledger are of their types, and so is what a pass read and did.
WorldTyped ==
    /\ offer \in [Offers -> {"absent", "pending", "withdrawn", "taken"}]
    /\ feed \in Seq(Reports) /\ heard \in Seq(Reports) /\ Elements(heard) \subseteq Elements(feed)
    /\ item \in [Items -> {"open", "closed", "gone"}]
    /\ holder \in [Items -> Parties]
    /\ lapsing \in [Items -> BOOLEAN] /\ awaiting \in [Items -> BOOLEAN]
    /\ about \in [Items -> SUBSET Offers]
    /\ keys \subseteq Keyed
    /\ minted \in 0 .. MaxOffers /\ acts \in Nat /\ troubles \in Nat
    /\ answers \in [Items -> Nat]

PassTyped ==
    /\ at \in {"idle", "receipts", "recorded", "items", "take", "apply", "act", "drop"}
    /\ seen \in Readings /\ pass \in Passes
    /\ seen.heard \in 0 .. Len(heard) /\ pass.applied \in 0 .. seen.heard
    /\ seen.reports \subseteq DOMAIN feed

\* A name is minted for one item, and what was reported on was taken.
Named ==
    /\ \A i \in Items : about[i] \subseteq 1 .. minted
    /\ \A i, j \in Items : i # j => about[i] \intersect about[j] = {}
    /\ \A o \in Offers : o > minted => offer[o] = "absent"
    /\ \A r \in Elements(feed) : offer[r.offer] = "taken"

\* Every offer of an item but the newest is withdrawn, or was taken and released.
Over(o) == offer[o] = "withdrawn" \/ (offer[o] = "taken" /\ o \in Released)
OldAreOver == \A i \in Items : \A o \in about[i] : o # Newest(about[i]) => Over(o)

\* What the pass read of the layer still holds, and it read what is recorded on every item
\* that it acts on.
Listed == IF at \in {"act", "drop"} THEN pass.todo ELSE DOMAIN seen.items
ReadTrue ==
    /\ seen.withdrawn \subseteq InLayer("withdrawn") /\ seen.taken \subseteq InLayer("taken")
    /\ pass.released \subseteq seen.taken \intersect Released
    /\ seen.ours \subseteq UNION {about[i] : i \in Items}
    /\ Listed \subseteq DOMAIN seen.items
    /\ \A i \in Listed : about[i] \subseteq seen.ours
    /\ at \in {"items", "take", "apply"} => \A i \in Live : about[i] \subseteq seen.ours
    /\ at \in {"recorded", "items", "take", "apply", "act", "drop"} =>
          \A i \in Items : \A o \in about[i] :
             o # Newest(about[i]) => o \in seen.withdrawn \union seen.taken
    /\ at \in {"idle", "receipts", "recorded", "items"} => DOMAIN seen.items = {}
    /\ at \notin {"apply", "act", "drop"} => pass.applied = 0 /\ pass.released = {}
    /\ at = "idle" => seen = NothingSeen /\ pass = NothingDone
    /\ at = "drop" => \E i \in Items : pass.name \in about[i] /\ pass.name = Newest(about[i])

\* The offers of an item that were released; the releases of an item come in the order of its
\* offers.
Back(i) == about[i] \intersect Released
Release(k, o) == k \in DOMAIN heard /\ heard[k].kind = "release" /\ heard[k].offer = o
InOrder ==
    \A i \in Items : \A o \in about[i] : \A p \in Back(i) :
        p < o => \A k \in DOMAIN heard : Release(k, o) => \E j \in 1 .. k : Release(j, p)

\* A pass that applied the release of an item's newest offer applied those of the older ones.
Applying ==
    /\ at = "apply" => \A i \in DOMAIN seen.items : \A k \in 1 .. pass.applied : \A o \in about[i] :
          Release(k, o) /\ o \in seen.taken => o \in pass.released
    /\ at = "apply" =>
         \A o \in pass.released : \E i \in DOMAIN seen.items, k \in 1 .. pass.applied :
          o \in about[i] /\ Release(k, o)
    /\ at \in {"act", "drop"} => \A i \in Items :
          Newest(about[i]) \in pass.released => Back(i) \subseteq pass.released

\* An item whose newest offer is not back has a return left; its dispatcher was asked for one
\* more only about an offer that is back, and then is still asked, or has answered.
Left(i) == Cardinality(Back(i)) < MaxReleases + answers[i]
BudgetOf(i) == <<"budget", Newest(about[i])>>
Budgeted ==
    /\ \A i \in Items : Cardinality(Back(i)) <= MaxReleases + answers[i]
    /\ \A i \in Items : Newest(about[i]) \notin Released => Left(i)
    /\ \A o \in Offers : <<"budget", o>> \in keys => o \in Released
    /\ \A i \in Items : BudgetOf(i) \in keys => awaiting[i] \/ Left(i)

\* So had every dispatcher who, as the pass read it, was not asked.
BudgetRead == \A i \in Listed : BudgetOf(i) \in keys /\ ~seen.items[i].awaiting => Left(i)

\* Only the first MaxHandbacks of an offer are ever commented.
HandedBack ==
    \A r \in Reports : <<"handback", r>> \in keys =>
        \E k \in DOMAIN heard :
            heard[k] = r /\ r.kind = "handback" /\ HandbacksOn(r.offer, k) <= MaxHandbacks

WorldInv == WorldTyped /\ Named /\ OldAreOver /\ InOrder /\ Budgeted /\ HandedBack
PassInv == PassTyped /\ ReadTrue /\ Applying /\ BudgetRead
MirrorInv == WorldInv /\ PassInv

LEMMA ElementsOf ==
    ASSUME NEW S, NEW s \in Seq(S)
    PROVE  Elements(s) \subseteq S /\ \A k \in DOMAIN s : s[k] \in Elements(s) /\ s[k] \in S
<1>1. \A k \in DOMAIN s : s[k] \in S
  OBVIOUS
<1>2. QED
  BY <1>1 DEF Elements

LEMMA Appended ==
    ASSUME NEW S, NEW s \in Seq(S), NEW e \in S
    PROVE  /\ Append(s, e) \in Seq(S) /\ Elements(Append(s, e)) = Elements(s) \union {e}
           /\ Len(Append(s, e)) = Len(s) + 1 /\ Append(s, e)[Len(s) + 1] = e
           /\ \A k \in DOMAIN s : k \in DOMAIN Append(s, e) /\ Append(s, e)[k] = s[k]
           /\ DOMAIN Append(s, e) = DOMAIN s \union {Len(s) + 1}
<1> DEFINE t == Append(s, e)
<1>1. /\ t \in Seq(S) /\ Len(t) = Len(s) + 1 /\ t[Len(s) + 1] = e
      /\ \A k \in DOMAIN s : t[k] = s[k]
      /\ DOMAIN t = DOMAIN s \union {Len(s) + 1} /\ Len(s) + 1 \notin DOMAIN s
  OBVIOUS
<1> HIDE DEF t
<1>2. Elements(t) = Elements(s) \union {e}
  BY <1>1 DEF Elements
<1>3. QED
  BY <1>1, <1>2 DEF t

LEMMA Reported ==
    ASSUME MirrorInv
    PROVE  /\ Elements(feed) \subseteq Reports /\ \A r \in Elements(feed) : r.offer \in Offers
           /\ \A k \in DOMAIN heard : heard[k] \in Elements(feed)
           /\ Released \subseteq Offers
<1>1. Elements(feed) \subseteq Reports /\ \A k \in DOMAIN heard : heard[k] \in Elements(feed)
  BY ElementsOf DEF MirrorInv, WorldInv, WorldTyped
<1>2. \A r \in Reports : r.offer \in Offers
  BY DEF Reports
<1>3. QED
  BY <1>1, <1>2 DEF Released

LEMMA Implied == MirrorInv => TypeOK
BY Reported DEF MirrorInv, WorldInv, PassInv, WorldTyped, PassTyped, TypeOK, Keyed, Parties

LEMMA BackFinite ==
    ASSUME MirrorInv, NEW i \in Items
    PROVE  IsFiniteSet(Back(i)) /\ Cardinality(Back(i)) \in Nat
<1>1. Back(i) \in SUBSET (1 .. MaxOffers)
  BY DEF MirrorInv, WorldInv, WorldTyped, Back, Offers
<1>2. IsFiniteSet(1 .. MaxOffers)
  BY FS_Interval, Bounds
<1>3. IsFiniteSet(Back(i))
  BY <1>1, <1>2, FS_Subset
<1>4. QED
  BY <1>3, FS_CardinalityType

LEMMA NothingTyped ==
    NothingSeen \in Readings /\ NothingDone \in Passes /\ DOMAIN NothingSeen.items = {}
<1>1. NothingSeen.items \in [{} -> Rows]
  BY DEF NothingSeen
<1>2. NothingSeen.items \in Listings /\ DOMAIN NothingSeen.items = {}
  BY <1>1 DEF Listings
<1>3. QED
  BY <1>2, Bounds DEF NothingSeen, NothingDone, Readings, Passes

LEMMA InvInit == ASSUME Init PROVE MirrorInv
<1>1. Elements(<<>>) = {}
  BY DEF Elements
<1>2. Released = {} /\ \A k : ~(k \in DOMAIN heard)
  BY DEF Init, Released
<1>3. NothingSeen \in Readings /\ NothingDone \in Passes /\ DOMAIN NothingSeen.items = {}
  BY NothingTyped
<1>4. WorldTyped /\ PassTyped
  BY <1>1, <1>3, Bounds DEF Init, WorldTyped, PassTyped, Parties, NothingSeen, NothingDone
<1>5. Named /\ OldAreOver /\ InOrder
  BY <1>1 DEF Init, Named, OldAreOver, InOrder
<1>6. \A i \in Items : Cardinality(Back(i)) = 0 /\ Left(i)
  BY FS_EmptySet, Bounds DEF Init, Back, Left
<1>7. Budgeted /\ HandedBack
  BY <1>6, Bounds DEF Init, Budgeted, HandedBack, BudgetOf
<1>8. ReadTrue /\ Applying /\ BudgetRead
  BY <1>3 DEF Init, ReadTrue, Applying, BudgetRead, Listed, NothingSeen, NothingDone
<1>9. QED
  BY <1>4, <1>5, <1>7, <1>8 DEF MirrorInv, WorldInv, PassInv

-----------------------------------------------------------------------------
(* What stands when little moves.                                          *)

\* In the layer and the ledger, when none of what decides anything moves.
LEMMA WorldAlike ==
    ASSUME MirrorInv, UNCHANGED <<layer, about, minted>>
    PROVE  Named' /\ OldAreOver' /\ InOrder'
<1>1. Named' /\ OldAreOver'
  BY DEF MirrorInv, WorldInv, layer, Named, OldAreOver, Over, Released
<1>2. InOrder'
  BY DEF MirrorInv, WorldInv, layer, InOrder, Back, Release, Released
<1>3. QED
  BY <1>1, <1>2

LEMMA HandedStands ==
    ASSUME MirrorInv, UNCHANGED <<heard, keys>>
    PROVE  HandedBack'
BY DEF MirrorInv, WorldInv, HandedBack, HandbacksOn

LEMMA BudgetStands ==
    ASSUME MirrorInv, Released' = Released, UNCHANGED <<about, keys, awaiting, answers>>
    PROVE  Budgeted'
BY DEF MirrorInv, WorldInv, Budgeted, Back, Left, BudgetOf

LEMMA WorldStands ==
    ASSUME MirrorInv, UNCHANGED <<layer, about, keys, minted, awaiting, answers>>
    PROVE  Named' /\ OldAreOver' /\ InOrder' /\ Budgeted' /\ HandedBack'
<1>1. Released' = Released
  BY DEF layer, Released
<1>2. Budgeted'
  BY <1>1, BudgetStands
<1>3. HandedBack'
  BY HandedStands DEF layer
<1>4. QED
  BY <1>2, <1>3, WorldAlike

\* An offer that was dropped under a name that is recorded, or is no longer open.
Forward ==
    /\ offer' \in [Offers -> {"absent", "pending", "withdrawn", "taken"}]
    /\ \A o \in Offers : offer'[o] = offer[o] \/ (offer[o] \in {"absent", "pending"} /\ o <= minted)

LEMMA WorldForward ==
    ASSUME MirrorInv, Forward, UNCHANGED <<feed, heard, ledger, minted, acts, answers>>
    PROVE  /\ Named' /\ OldAreOver' /\ InOrder' /\ Budgeted' /\ HandedBack'
           /\ troubles' \in Nat => WorldTyped'
<1> USE DEF ledger
<1>1. Released' = Released
  BY DEF Released
<1>2. Named'
  <2>1. \A r \in Elements(feed) : r.offer \in Offers
    BY Reported
  <2>2. \A o \in Offers : o > minted => offer'[o] = "absent"
    BY Bounds DEF MirrorInv, WorldInv, WorldTyped, Named, Forward, Offers
  <2>3. \A r \in Elements(feed) : offer'[r.offer] = "taken"
    BY <2>1 DEF MirrorInv, WorldInv, Named, Forward
  <2>4. QED
    BY <2>2, <2>3 DEF MirrorInv, WorldInv, Named
<1>3. OldAreOver'
  BY <1>1 DEF MirrorInv, WorldInv, WorldTyped, OldAreOver, Over, Forward
<1>4. InOrder' /\ Budgeted'
  BY <1>1 DEF MirrorInv, WorldInv, InOrder, Budgeted, Back, Release, Left, BudgetOf
<1>5. HandedBack'
  BY DEF MirrorInv, WorldInv, HandedBack, HandbacksOn
<1>6. troubles' \in Nat => WorldTyped'
  BY DEF MirrorInv, WorldInv, WorldTyped, Forward
<1>7. QED
  BY <1>2, <1>3, <1>4, <1>5, <1>6

\* In the pass, when it does not move.
LEMMA PassStands ==
    ASSUME MirrorInv, UNCHANGED <<mirror, heard, about, keys>>,
           Forward \/ UNCHANGED offer, DOMAIN feed \subseteq DOMAIN feed', Live' \subseteq Live,
           answers' \in [Items -> Nat], \A i \in Items : answers[i] <= answers'[i]
    PROVE  PassInv'
<1> USE DEF mirror
<1>1. InLayer("withdrawn") \subseteq InLayer("withdrawn")'
        /\ InLayer("taken") \subseteq InLayer("taken")'
  BY DEF InLayer, Forward
<1>2. Released' = Released /\ Listed' = Listed
  BY DEF Released, Listed
<1>3. PassTyped'
  BY DEF MirrorInv, PassInv, PassTyped
<1>4. ReadTrue'
  BY <1>1, <1>2 DEF MirrorInv, PassInv, ReadTrue
<1>5. Applying'
  BY <1>2 DEF MirrorInv, PassInv, Applying, Back, Release
<1>6. \A i \in Items : Left(i) => Left(i)'
  <2> SUFFICES ASSUME NEW i \in Items, Left(i) PROVE Left(i)'
    OBVIOUS
  <2>1. Back(i)' = Back(i)
    BY <1>2 DEF Back
  <2>2. Cardinality(Back(i)) \in Nat
    BY BackFinite
  <2>3. QED
    BY <2>1, <2>2, Bounds DEF Left, MirrorInv, WorldInv, WorldTyped
<1>7. BudgetRead'
  BY <1>2, <1>6 DEF MirrorInv, PassInv, PassTyped, ReadTrue, BudgetRead, BudgetOf, Readings,
                    Listings, Listed, Passes
<1>8. QED
  BY <1>3, <1>4, <1>5, <1>7 DEF PassInv

-----------------------------------------------------------------------------
(* The other parties.                                                      *)

LEMMA InvTakerTakes ==
    ASSUME MirrorInv, NEW o \in Offers, TakerTakes(o) PROVE MirrorInv'
<1>1. Named /\ offer[o] = "pending"
  BY DEF MirrorInv, WorldInv, TakerTakes
<1>2. Forward
  BY <1>1, Bounds DEF MirrorInv, WorldInv, WorldTyped, Named, TakerTakes, Forward, Offers
<1>3. WorldInv'
  BY <1>2, WorldForward DEF TakerTakes, WorldInv, MirrorInv, WorldTyped
<1>4. PassInv'
  <2>1. answers' = answers /\ Live' = Live /\ feed' = feed
    BY DEF TakerTakes, Live, ledger
  <2>2. \A i \in Items : answers[i] <= answers'[i]
    BY <2>1 DEF MirrorInv, WorldInv, WorldTyped
  <2>3. QED
    BY <1>2, <2>1, <2>2, PassStands DEF TakerTakes, ledger, MirrorInv, WorldInv, WorldTyped
<1>5. QED
  BY <1>3, <1>4 DEF MirrorInv

LEMMA InvTakerReports ==
    ASSUME MirrorInv, NEW r \in Reports, TakerReports(r) PROVE MirrorInv'
<1>1. /\ offer[r.offer] = "taken" /\ feed' = Append(feed, r)
      /\ UNCHANGED <<offer, heard, ledger, mirror, minted, acts, troubles, answers>>
  BY DEF TakerReports
<1>2. /\ Elements(feed)' = Elements(feed) \union {r} /\ feed' \in Seq(Reports)
      /\ DOMAIN feed \subseteq DOMAIN feed'
  BY <1>1, Appended DEF MirrorInv, WorldInv, WorldTyped
<1>3. WorldTyped'
  BY <1>1, <1>2 DEF MirrorInv, WorldInv, WorldTyped, ledger
<1>4. Named'
  BY <1>1, <1>2 DEF MirrorInv, WorldInv, Named, ledger
<1>5. OldAreOver' /\ InOrder' /\ Budgeted' /\ HandedBack'
  <2>1. Released' = Released
    BY <1>1 DEF Released
  <2>2. OldAreOver' /\ InOrder'
    BY <1>1, <2>1 DEF MirrorInv, WorldInv, ledger, OldAreOver, Over, InOrder, Back, Release
  <2>3. Budgeted'
    BY <1>1, <2>1, BudgetStands DEF ledger
  <2>4. HandedBack'
    BY <1>1, HandedStands DEF ledger
  <2>5. QED
    BY <2>2, <2>3, <2>4
<1>6. PassInv'
  <2>1. Live' = Live
    BY <1>1 DEF Live, ledger
  <2>2. \A i \in Items : answers[i] <= answers'[i]
    BY <1>1 DEF MirrorInv, WorldInv, WorldTyped
  <2>3. QED
    BY <1>1, <1>2, <2>1, <2>2, PassStands DEF ledger, MirrorInv, WorldInv, WorldTyped
<1>7. QED
  BY <1>3, <1>4, <1>5, <1>6 DEF MirrorInv, WorldInv

\* The ledger's claims and waits, which nothing here rests on but what answers say.
LEMMA InvLedger ==
    ASSUME MirrorInv, NEW i \in Items,
           \/ LeaseAges(i) \/ LeaseLapses(i)
           \/ Close(i, "closed") \/ Close(i, "gone") \/ Reopen(i) \/ Answer(i)
           \/ ClaimHere(i) \/ ReleaseHere(i)
    PROVE  MirrorInv'
<1>1. /\ UNCHANGED <<layer, about, keys, mirror, minted>>
      /\ \/ awaiting' = awaiting /\ answers' = answers
         \/ awaiting[i] /\ awaiting' = [awaiting EXCEPT ![i] = FALSE]
                        /\ answers' = [answers EXCEPT ![i] = @ + 1]
  <2>1. ASSUME NEW s \in {"closed", "gone"}, Close(i, s)
        PROVE  \/ awaiting' = awaiting /\ answers' = answers
               \/ awaiting[i] /\ awaiting' = [awaiting EXCEPT ![i] = FALSE]
                              /\ answers' = [answers EXCEPT ![i] = @ + 1]
    <3>1. CASE awaiting[i]
      BY <2>1, <3>1 DEF Close
    <3>2. CASE ~awaiting[i]
      <4>1. awaiting' = awaiting
        BY <2>1, <3>2, Zenon DEF Close, MirrorInv, WorldInv, WorldTyped
      <4>2. answers' = answers
        BY <2>1, <3>2 DEF Close, MirrorInv, WorldInv, WorldTyped
      <4>3. QED
        BY <4>1, <4>2
    <3>3. QED
      BY <3>1, <3>2
  <2>2. QED
    BY <2>1 DEF LeaseAges, LeaseLapses, Close, Reopen, Answer, ClaimHere, ReleaseHere
<1>2. WorldTyped'
  <2> USE DEF MirrorInv, WorldInv, WorldTyped, Parties
  <2>1. item' \in [Items -> {"open", "closed", "gone"}] /\ holder' \in [Items -> Parties]
    BY DEF LeaseAges, LeaseLapses, Close, Reopen, Answer, ClaimHere, ReleaseHere
  <2>2. lapsing' \in [Items -> BOOLEAN]
    BY DEF LeaseAges, LeaseLapses, Close, Reopen, Answer, ClaimHere, ReleaseHere
  <2>3. awaiting' \in [Items -> BOOLEAN] /\ answers' \in [Items -> Nat]
    <3>1. awaiting \in [Items -> BOOLEAN] /\ answers \in [Items -> Nat]
      OBVIOUS
    <3>2. CASE awaiting' = awaiting /\ answers' = answers
      BY <3>1, <3>2
    <3>3. CASE /\ awaiting' = [awaiting EXCEPT ![i] = FALSE]
               /\ answers' = [answers EXCEPT ![i] = @ + 1]
      <4>1. answers' \in [Items -> Nat]
        BY <3>1, <3>3
      <4>2. awaiting' \in [Items -> BOOLEAN]
        BY <3>1, <3>3
      <4>3. QED
        BY <4>1, <4>2
    <3>4. QED
      BY <1>1, <3>2, <3>3
  <2>4. acts' \in Nat /\ troubles' \in Nat
    BY DEF LeaseAges, LeaseLapses, Close, Reopen, Answer, ClaimHere, ReleaseHere, Act
  <2>5. QED
    BY <1>1, <2>1, <2>2, <2>3, <2>4 DEF layer
<1>3. Live' \subseteq Live
  BY DEF LeaseAges, LeaseLapses, Close, Reopen, Answer, ClaimHere, ReleaseHere, Live,
         MirrorInv, WorldInv, WorldTyped
<1>4. \A j \in Items : answers[j] <= answers'[j]
  <2>1. \A j \in Items : answers[j] \in Nat /\ answers'[j] \in {answers[j], answers[j] + 1}
    BY <1>1 DEF MirrorInv, WorldInv, WorldTyped
  <2>2. QED
    BY <2>1
<1>5. PassInv'
  BY <1>1, <1>2, <1>3, <1>4, PassStands DEF layer, WorldTyped
<1>6. Named' /\ OldAreOver' /\ InOrder' /\ HandedBack'
  BY <1>1, WorldAlike, HandedStands DEF layer
<1>7. Budgeted'
  <2>1. \A j \in Items : Back(j)' = Back(j) /\ BudgetOf(j)' = BudgetOf(j)
    BY <1>1 DEF layer, Back, Released, BudgetOf
  <2>2. \A j \in Items : Cardinality(Back(j)) \in Nat
    BY BackFinite
  <2>3. \A j \in Items : Left(j) => Left(j)'
    BY <1>2, <1>4, <2>1, <2>2, Bounds DEF Left, MirrorInv, WorldInv, WorldTyped
  <2>4. \A j \in Items : Cardinality(Back(j)') <= MaxReleases + answers'[j]
    BY <1>2, <1>4, <2>1, <2>2, Bounds DEF Budgeted, MirrorInv, WorldInv, WorldTyped
  <2>5. ASSUME NEW j \in Items, BudgetOf(j) \in keys PROVE awaiting'[j] \/ Left(j)'
    <3>1. CASE awaiting'[j] = awaiting[j]
      BY <2>3, <2>5, <3>1 DEF MirrorInv, WorldInv, Budgeted
    <3>2. CASE awaiting'[j] # awaiting[j]
      <4>1. answers'[j] = answers[j] + 1
        BY <1>1, <3>2 DEF MirrorInv, WorldInv, WorldTyped
      <4>2. QED
        BY <2>1, <2>2, <4>1, Bounds DEF Budgeted, Left, MirrorInv, WorldInv, WorldTyped
    <3>3. QED
      BY <3>1, <3>2
  <2>6. Released' = Released
    BY <1>1 DEF layer, Released
  <2>7. QED
    BY <1>1, <2>1, <2>3, <2>4, <2>5, <2>6 DEF Budgeted, MirrorInv, WorldInv
<1>8. QED
  BY <1>2, <1>5, <1>6, <1>7 DEF MirrorInv, WorldInv

-----------------------------------------------------------------------------
(* The pass reads.                                                         *)

\* Only claims and leases move in the ledger, and nothing in the layer.
LEMMA WorldQuiet ==
    ASSUME MirrorInv, UNCHANGED <<layer, item, awaiting, about, keys, minted, acts, answers>>,
           troubles' \in Nat, holder' \in [Items -> Parties], lapsing' \in [Items -> BOOLEAN]
    PROVE  WorldInv'
<1>1. WorldTyped'
  BY DEF MirrorInv, WorldInv, WorldTyped, layer
<1>2. QED
  BY <1>1, WorldStands DEF WorldInv

LEMMA WorldSame ==
    ASSUME MirrorInv, UNCHANGED <<layer, ledger, minted, acts, answers>>, troubles' \in Nat
    PROVE  WorldInv'
<1>1. holder \in [Items -> Parties] /\ lapsing \in [Items -> BOOLEAN]
  BY DEF MirrorInv, WorldInv, WorldTyped
<1>2. QED
  BY <1>1, WorldQuiet DEF ledger

LEMMA Troubles == ASSUME MirrorInv, NoTrouble \/ Trouble PROVE troubles' \in Nat
BY DEF MirrorInv, WorldInv, WorldTyped, NoTrouble, Trouble

\* What was listed is as it is in the ledger.
LEMMA ListingIs ==
    ASSUME MirrorInv, NEW L \in SUBSET Items
    PROVE  /\ Listing(L) \in Listings /\ DOMAIN Listing(L) = L
           /\ \A i \in L : Listing(L)[i].awaiting = awaiting[i]
<1>1. Listing(L) \in [L -> Rows]
  BY DEF Listing, Rows, MirrorInv, WorldInv, WorldTyped, Parties
<1>2. QED
  BY <1>1 DEF Listing, Listings

LEMMA Ending ==
    ASSUME EndPass, heard' \in Seq(Reports) PROVE PassInv'
<1>1. at' = "idle" /\ seen' = NothingSeen /\ pass' = NothingDone
  BY DEF EndPass
<1>2. /\ NothingSeen.withdrawn = {} /\ NothingSeen.taken = {} /\ NothingSeen.ours = {}
      /\ NothingSeen.heard = 0 /\ NothingSeen.reports = {}
      /\ NothingDone.released = {} /\ NothingDone.applied = 0
  BY DEF NothingSeen, NothingDone
<1> HIDE DEF NothingSeen, NothingDone
<1>3. Listed' = {}
  BY <1>1, NothingTyped DEF Listed
<1>4. PassTyped'
  <2>1. Len(heard)' \in Nat
    OBVIOUS
  <2>2. QED
    BY <1>1, <1>2, <2>1, NothingTyped DEF PassTyped
<1>5. ReadTrue' /\ Applying' /\ BudgetRead'
  BY <1>1, <1>2, <1>3, NothingTyped DEF ReadTrue, Applying, BudgetRead
<1>6. QED
  BY <1>4, <1>5 DEF PassInv

LEMMA InvEnd ==
    ASSUME MirrorInv, GiveUp \/ Finish PROVE MirrorInv'
<1>1. EndPass /\ UNCHANGED <<layer, ledger, minted, acts, answers>>
  BY DEF GiveUp, Finish
<1>2. troubles' \in Nat
  BY Troubles DEF GiveUp, Finish, NoTrouble
<1>3. WorldInv'
  BY <1>1, <1>2, WorldSame
<1>4. PassInv'
  BY <1>1, <1>3, Ending DEF WorldInv, WorldTyped
<1>5. QED
  BY <1>3, <1>4 DEF MirrorInv

LEMMA InvReadPending == ASSUME MirrorInv, ReadPending PROVE MirrorInv'
<1>1. WorldInv'
  BY WorldSame DEF ReadPending, MirrorInv, WorldInv, WorldTyped
<1>2. /\ at = "idle" /\ at' = "receipts" /\ pass' = pass
           /\ UNCHANGED <<layer, ledger, minted, answers>>
      /\ seen' = [seen EXCEPT !.pending = InLayer("pending"),
                              !.reports = {k \in DOMAIN feed : feed[k] \notin Elements(heard)}]
  BY DEF ReadPending
<1>3. PassTyped /\ ReadTrue /\ heard \in Seq(Reports) /\ feed \in Seq(Reports)
  BY DEF MirrorInv, PassInv, WorldInv, WorldTyped
<1>4. InLayer("pending") \subseteq Offers /\ seen.reports' \subseteq DOMAIN feed
        /\ seen.reports' \subseteq Nat
  BY <1>2, <1>3 DEF InLayer, PassTyped, Readings
<1>5. /\ seen.withdrawn' = seen.withdrawn /\ seen.taken' = seen.taken /\ seen.heard' = seen.heard
      /\ seen.ours' = seen.ours /\ seen.items' = seen.items
  BY <1>2, <1>3 DEF PassTyped, Readings
<1>6. PassTyped'
  <2>1. seen' \in Readings
    BY <1>2, <1>3, <1>4 DEF PassTyped, Readings
  <2>2. QED
    BY <1>2, <1>3, <1>4, <1>5, <2>1 DEF PassTyped, layer
<1>7. Listed' = {}
  BY <1>2, <1>3, <1>5 DEF Listed, ReadTrue
<1>8. ReadTrue'
  BY <1>2, <1>3, <1>5, <1>7 DEF ReadTrue, InLayer, Released, layer, ledger
<1>9. Applying' /\ BudgetRead'
  BY <1>2, <1>7 DEF Applying, BudgetRead
<1>10. QED
  BY <1>1, <1>6, <1>8, <1>9 DEF MirrorInv, PassInv

\* What the receipts say of an offer that is not its item's newest: it was withdrawn, or taken.
LEMMA OldIsRead ==
    ASSUME MirrorInv, NEW i \in Items, NEW o \in about[i], o # Newest(about[i])
    PROVE  o \in Receipts.withdrawn \union Receipts.taken
<1>1. o \in Offers
  BY DEF MirrorInv, WorldInv, WorldTyped
<1>2. offer[o] \in {"withdrawn", "taken"}
  BY DEF MirrorInv, WorldInv, OldAreOver, Over
<1>3. QED
  BY <1>1, <1>2 DEF Receipts, InLayer

LEMMA InvReadReceipts == ASSUME MirrorInv, ReadReceipts PROVE MirrorInv'
<1>1. WorldInv'
  BY WorldSame DEF ReadReceipts, MirrorInv, WorldInv, WorldTyped
<1>2. /\ at = "receipts" /\ at' = "recorded" /\ pass' = pass
      /\ UNCHANGED <<layer, ledger, minted, answers>>
      /\ seen' = [seen EXCEPT !.withdrawn = Receipts.withdrawn, !.taken = Receipts.taken,
                              !.heard = Receipts.heard]
  BY DEF ReadReceipts
<1>3. PassTyped /\ ReadTrue /\ heard \in Seq(Reports) /\ feed \in Seq(Reports)
  BY DEF MirrorInv, PassInv, WorldInv, WorldTyped
<1>4. /\ Receipts.withdrawn = InLayer("withdrawn") /\ Receipts.taken = InLayer("taken")
      /\ Receipts.heard = Len(heard) /\ Len(heard) \in Nat
      /\ InLayer("withdrawn") \subseteq Offers /\ InLayer("taken") \subseteq Offers
  BY <1>3 DEF Receipts, InLayer
<1>5. /\ seen.withdrawn' = InLayer("withdrawn") /\ seen.taken' = InLayer("taken")
      /\ seen.heard' = Len(heard) /\ seen.reports' = seen.reports
      /\ seen.ours' = seen.ours /\ seen.items' = seen.items
  BY <1>2, <1>3, <1>4 DEF PassTyped, Readings
<1>6. PassTyped'
  <2>1. seen' \in Readings
    BY <1>2, <1>3, <1>4 DEF PassTyped, Readings
  <2>2. pass.applied = 0
    BY <1>2, <1>3 DEF ReadTrue
  <2>3. QED
    BY <1>2, <1>3, <1>4, <1>5, <2>1, <2>2 DEF PassTyped, layer
<1>7. Listed' = {}
  BY <1>2, <1>3, <1>5 DEF Listed, ReadTrue
<1>8. \A i \in Items : \A o \in about[i] :
         o # Newest(about[i]) => o \in seen.withdrawn' \union seen.taken'
  BY <1>4, <1>5, OldIsRead
<1>9. ReadTrue'
  BY <1>2, <1>3, <1>5, <1>7, <1>8 DEF ReadTrue, InLayer, Released, layer, ledger
<1>10. Applying' /\ BudgetRead'
  BY <1>2, <1>7 DEF Applying, BudgetRead
<1>11. QED
  BY <1>1, <1>6, <1>9, <1>10 DEF MirrorInv, PassInv

LEMMA InvReadRecorded == ASSUME MirrorInv, ReadRecorded PROVE MirrorInv'
<1>1. WorldInv'
  BY WorldSame DEF ReadRecorded, MirrorInv, WorldInv, WorldTyped
<1>2. /\ at = "recorded" /\ at' = "items" /\ pass' = pass
      /\ UNCHANGED <<layer, ledger, minted, answers>>
      /\ seen' = [seen EXCEPT !.ours = UNION {about[i] : i \in Live}]
  BY DEF ReadRecorded
<1>3. PassTyped /\ ReadTrue /\ about \in [Items -> SUBSET Offers]
  BY DEF MirrorInv, PassInv, WorldInv, WorldTyped
<1>4. /\ UNION {about[i] : i \in Live} \subseteq UNION {about[i] : i \in Items}
      /\ UNION {about[i] : i \in Live} \subseteq Offers
      /\ \A i \in Live : about[i] \subseteq UNION {about[j] : j \in Live}
  BY <1>3 DEF Live
<1>5. /\ seen.ours' = UNION {about[i] : i \in Live}
      /\ seen.withdrawn' = seen.withdrawn /\ seen.taken' = seen.taken
      /\ seen.heard' = seen.heard /\ seen.reports' = seen.reports /\ seen.items' = seen.items
  BY <1>2, <1>3 DEF PassTyped, Readings
<1>6. PassTyped'
  <2>1. seen' \in Readings
    BY <1>2, <1>3, <1>4 DEF PassTyped, Readings
  <2>2. QED
    BY <1>2, <1>3, <1>5, <2>1 DEF PassTyped, layer
<1>7. Listed' = {}
  BY <1>2, <1>3, <1>5 DEF Listed, ReadTrue
<1>8. \A i \in Live' : about[i] \subseteq seen.ours'
  BY <1>2, <1>4, <1>5 DEF Live, ledger
<1>9. ReadTrue'
  BY <1>2, <1>3, <1>4, <1>5, <1>7, <1>8 DEF ReadTrue, InLayer, Released, layer, ledger
<1>10. Applying' /\ BudgetRead'
  BY <1>2, <1>7 DEF Applying, BudgetRead
<1>11. QED
  BY <1>1, <1>6, <1>9, <1>10 DEF MirrorInv, PassInv

\* A listing of live items, whole or torn, read while what is recorded on them is known.
LEMMA InvReadItems == ASSUME MirrorInv, ReadItems PROVE MirrorInv'
<1>1. WorldInv'
  <2>1. troubles' \in Nat
    BY Troubles DEF ReadItems
  <2>2. QED
    BY <2>1, WorldSame DEF ReadItems
<1>2. PICK L \in SUBSET Live, whole \in BOOLEAN :
         seen' = [seen EXCEPT !.items = Listing(L), !.complete = whole]
  BY DEF ReadItems
<1>3. /\ at = "items" /\ at' = "take" /\ pass' = pass
      /\ UNCHANGED <<layer, ledger, minted, answers>>
  BY DEF ReadItems
<1>4. PassTyped /\ ReadTrue /\ L \in SUBSET Items
  BY DEF MirrorInv, PassInv, Live
<1>5. /\ Listing(L) \in Listings /\ DOMAIN Listing(L) = L
      /\ \A i \in L : Listing(L)[i].awaiting = awaiting[i]
  BY <1>4, ListingIs
<1>6. /\ seen.items' = Listing(L) /\ seen.withdrawn' = seen.withdrawn /\ seen.taken' = seen.taken
      /\ seen.heard' = seen.heard /\ seen.reports' = seen.reports /\ seen.ours' = seen.ours
  BY <1>2, <1>4 DEF PassTyped, Readings
<1>7. PassTyped'
  <2>1. seen' \in Readings
    BY <1>2, <1>4, <1>5 DEF PassTyped, Readings
  <2>2. QED
    BY <1>3, <1>4, <1>6, <2>1 DEF PassTyped, layer
<1>8. Listed' = L
  BY <1>3, <1>5, <1>6 DEF Listed
<1>9. ReadTrue'
  <2>1. Live' = Live /\ DOMAIN seen.items' = L
    BY <1>3, <1>5, <1>6 DEF Live, ledger
  <2>2. QED
    BY <1>2, <1>3, <1>4, <1>6, <1>8, <2>1 DEF ReadTrue, InLayer, Released, layer, ledger
<1>10. Applying'
  BY <1>3 DEF Applying
<1>11. BudgetRead'
  <2> SUFFICES ASSUME NEW i \in L, BudgetOf(i)' \in keys', ~seen'.items[i].awaiting PROVE Left(i)'
    BY <1>8 DEF BudgetRead
  <2>1. BudgetOf(i) \in keys /\ ~awaiting[i]
    BY <1>3, <1>5, <1>6 DEF BudgetOf, ledger
  <2>2. Left(i)
    BY <1>4, <2>1 DEF MirrorInv, WorldInv, Budgeted
  <2>3. QED
    BY <1>3, <2>2 DEF Left, Back, Released, layer, ledger
<1>12. QED
  BY <1>1, <1>7, <1>9, <1>10, <1>11 DEF MirrorInv, PassInv

-----------------------------------------------------------------------------
(* The reports are taken.                                                  *)

\* A first release is of the item's newest offer, of which no key speaks yet.
LEMMA FirstRelease ==
    ASSUME MirrorInv, NEW i \in Items, NEW o \in about[i], offer[o] = "taken", o \notin Released
    PROVE  o = Newest(about[i]) /\ Left(i) /\ BudgetOf(i) \notin keys
<1>1. o = Newest(about[i])
  BY DEF MirrorInv, WorldInv, OldAreOver, Over
<1>2. o \in Offers
  BY DEF MirrorInv, WorldInv, WorldTyped
<1>3. Left(i)
  BY <1>1 DEF MirrorInv, WorldInv, Budgeted
<1>4. <<"budget", o>> \notin keys
  BY <1>2 DEF MirrorInv, WorldInv, Budgeted
<1>5. QED
  BY <1>1, <1>3, <1>4 DEF BudgetOf

Hears(r) ==
    /\ heard' = Append(heard, r)
    /\ UNCHANGED <<offer, feed, ledger, minted, acts, answers>>
    /\ troubles' \in Nat

\* What that changes of what is counted.
LEMMA HearingCounts ==
    ASSUME MirrorInv, NEW r \in Elements(feed), NEW i \in Items, r.offer \in about[i], Hears(r)
    PROVE  /\ Released' = Released \union (IF r.kind = "release" THEN {r.offer} ELSE {})
           /\ \A j \in Items : BudgetOf(j)' = BudgetOf(j)
           /\ \A j \in Items : \/ Back(j)' = Back(j)
                               \/ /\ j = i /\ r.offer \notin Released
                                  /\ Back(i)' = Back(i) \union {r.offer}
                                  /\ r.offer \in Released'
<1>1. heard \in Seq(Reports) /\ r \in Reports
  BY Reported DEF MirrorInv, WorldInv, WorldTyped
<1>2. /\ DOMAIN heard' = DOMAIN heard \union {Len(heard) + 1} /\ heard'[Len(heard) + 1] = r
      /\ \A k \in DOMAIN heard : heard'[k] = heard[k]
  BY <1>1, Appended DEF Hears
<1>3. Released' = Released \union (IF r.kind = "release" THEN {r.offer} ELSE {})
  <2>1. ASSUME NEW o PROVE o \in Released' <=> o \in Released \/ (r.kind = "release" /\ o = r.offer)
    BY <1>2 DEF Released
  <2>2. QED
    BY <2>1
<1>4. \A j \in Items : j # i => r.offer \notin about[j]
  BY DEF MirrorInv, WorldInv, Named
<1>5. about' = about
  BY DEF Hears, ledger
<1>6. \A j \in Items : BudgetOf(j)' = BudgetOf(j)
  BY <1>5 DEF BudgetOf
<1>7. QED
  BY <1>3, <1>4, <1>5, <1>6 DEF Back

LEMMA InvHears ==
    ASSUME MirrorInv, NEW r \in Elements(feed), NEW i \in Items, r.offer \in about[i], Hears(r)
    PROVE  /\ WorldInv' /\ Released \subseteq Released'
           /\ \A j \in Items : Left(j) /\ BudgetOf(j) \in keys => Left(j)'
<1>1. heard \in Seq(Reports) /\ r \in Reports
  BY Reported DEF MirrorInv, WorldInv, WorldTyped
<1>2. /\ heard' \in Seq(Reports) /\ Elements(heard)' = Elements(heard) \union {r}
      /\ DOMAIN heard' = DOMAIN heard \union {Len(heard) + 1} /\ heard'[Len(heard) + 1] = r
      /\ \A k \in DOMAIN heard : heard'[k] = heard[k]
      /\ DOMAIN heard = 1 .. Len(heard) /\ Len(heard) \in Nat
  BY <1>1, Appended DEF Hears
<1>3. offer[r.offer] = "taken" /\ UNCHANGED <<offer, feed, about, keys, minted, awaiting, answers>>
  BY DEF MirrorInv, WorldInv, Named, Hears, ledger
<1>4. /\ Released' = Released \union (IF r.kind = "release" THEN {r.offer} ELSE {})
      /\ \A j \in Items : BudgetOf(j)' = BudgetOf(j)
      /\ \A j \in Items : \/ Back(j)' = Back(j)
                          \/ /\ j = i /\ r.offer \notin Released
                             /\ Back(i)' = Back(i) \union {r.offer} /\ r.offer \in Released'
  BY HearingCounts
<1>5. r.offer \notin Released => r.offer = Newest(about[i]) /\ Left(i) /\ BudgetOf(i) \notin keys
  BY <1>3, FirstRelease
<1>6. WorldTyped'
  BY <1>2 DEF Hears, ledger, MirrorInv, WorldInv, WorldTyped
<1>7. Named' /\ OldAreOver'
  BY <1>3, <1>4 DEF MirrorInv, WorldInv, Named, OldAreOver, Over
<1>8. InOrder'
  <2> SUFFICES ASSUME NEW j \in Items, NEW o \in about[j], NEW p \in Back(j)', p < o,
                      NEW k \in DOMAIN heard', Release(k, o)'
               PROVE  \E n \in 1 .. k : Release(n, p)'
    BY <1>3 DEF InOrder
  <2>1. p \in Back(j)
    <3> SUFFICES ASSUME p \notin Back(j) PROVE FALSE
      OBVIOUS
    <3>1. j = i /\ p = r.offer /\ p \notin Released
      BY <1>4
    <3>2. p = Newest(about[i]) /\ about[i] \in SUBSET Offers
      BY <1>5, <3>1 DEF MirrorInv, WorldInv, WorldTyped
    <3>3. o <= p /\ p \in Offers /\ o \in Offers
      BY <3>1, <3>2, NewestIs
    <3>4. QED
      BY <3>3, Bounds DEF Offers
  <2>2. CASE k \in DOMAIN heard
    <3>1. Release(k, o)
      BY <1>2, <2>2 DEF Release
    <3>2. PICK n \in 1 .. k : Release(n, p)
      BY <2>1, <2>2, <3>1 DEF MirrorInv, WorldInv, InOrder
    <3>3. Release(n, p)'
      BY <1>2, <3>2 DEF Release
    <3>4. QED
      BY <3>3
  <2>3. CASE k = Len(heard) + 1
    <3>1. PICK n \in DOMAIN heard : Release(n, p)
      BY <2>1 DEF Back, Released, Release
    <3>2. Release(n, p)' /\ n \in 1 .. k
      BY <1>2, <2>3, <3>1 DEF Release
    <3>3. QED
      BY <3>2
  <2>4. QED
    BY <1>2, <2>2, <2>3
<1>9. \A j \in Items : Cardinality(Back(j)) \in Nat /\ IsFiniteSet(Back(j)) /\ answers[j] \in Nat
  BY BackFinite DEF MirrorInv, WorldInv, WorldTyped
<1>10. ASSUME NEW j \in Items, r.offer \notin Released, Back(j)' = Back(j) \union {r.offer}
       PROVE  Cardinality(Back(j)') = Cardinality(Back(j)) + 1
  <2>1. r.offer \notin Back(j)
    BY <1>10 DEF Back
  <2>2. QED
    BY <1>9, <1>10, <2>1, FS_AddElement
<1>11. Budgeted'
  <2>1. ASSUME NEW j \in Items PROVE Cardinality(Back(j)') <= MaxReleases + answers[j]
    <3>1. CASE Back(j)' = Back(j)
      BY <3>1 DEF MirrorInv, WorldInv, Budgeted
    <3>2. CASE j = i /\ r.offer \notin Released /\ Back(i)' = Back(i) \union {r.offer}
      <4>1. Cardinality(Back(j)') = Cardinality(Back(j)) + 1
        BY <1>10, <3>2
      <4>2. Cardinality(Back(j)) < MaxReleases + answers[j]
        BY <1>5, <3>2 DEF Left
      <4>3. QED
        BY <1>9, <4>1, <4>2, Bounds
    <3>3. QED
      BY <1>4, <3>1, <3>2
  <2>2. ASSUME NEW j \in Items, Newest(about[j]) \notin Released' PROVE Left(j)'
    <3>1. Left(j) /\ Newest(about[j]) \notin Released
      BY <1>4, <2>2 DEF MirrorInv, WorldInv, Budgeted
    <3>2. Back(j)' = Back(j)
      BY <1>4, <1>5, <2>2
    <3>3. QED
      BY <1>3, <3>1, <3>2 DEF Left
  <2>3. ASSUME NEW j \in Items, BudgetOf(j) \in keys PROVE awaiting[j] \/ Left(j)'
    <3>1. awaiting[j] \/ Left(j)
      BY <2>3 DEF MirrorInv, WorldInv, Budgeted
    <3>2. Back(j)' = Back(j)
      BY <1>4, <1>5, <2>3
    <3>3. QED
      BY <1>3, <3>1, <3>2 DEF Left
  <2>4. \A o \in Offers : <<"budget", o>> \in keys => o \in Released'
    BY <1>4 DEF MirrorInv, WorldInv, Budgeted
  <2>5. QED
    BY <1>3, <1>4, <2>1, <2>2, <2>3, <2>4 DEF Budgeted
<1>12. HandedBack'
  <2>1. \A k \in DOMAIN heard : \A o : HandbacksOn(o, k)' = HandbacksOn(o, k)
    <3> SUFFICES ASSUME NEW k \in DOMAIN heard, NEW o PROVE HandbacksOn(o, k)' = HandbacksOn(o, k)
      OBVIOUS
    <3>1. \A n \in 1 .. k : heard'[n] = heard[n]
      BY <1>2
    <3>2. QED
      BY <3>1 DEF HandbacksOn
  <2>2. QED
    BY <1>2, <1>3, <2>1 DEF MirrorInv, WorldInv, HandedBack
<1>13. \A j \in Items : Left(j) /\ BudgetOf(j) \in keys => Left(j)'
  <2> SUFFICES ASSUME NEW j \in Items, Left(j), BudgetOf(j) \in keys PROVE Left(j)'
    OBVIOUS
  <2>1. Back(j)' = Back(j)
    BY <1>4, <1>5
  <2>2. QED
    BY <1>3, <2>1 DEF Left
<1>14. QED
  BY <1>4, <1>6, <1>7, <1>8, <1>11, <1>12, <1>13 DEF WorldInv

LEMMA NextReportIs ==
    ASSUME MirrorInv, seen.reports # {}
    PROVE  NextReport \in seen.reports /\ feed[NextReport] \in Elements(feed)
<1>1. seen.reports \in SUBSET Nat /\ seen.reports \subseteq DOMAIN feed
  BY DEF MirrorInv, PassInv, PassTyped, Readings
<1>2. NextReport \in seen.reports
  BY <1>1, LeastOf DEF NextReport
<1>3. QED
  BY <1>1, <1>2, ElementsOf DEF MirrorInv, WorldInv, WorldTyped

LEMMA InvTakeReport == ASSUME MirrorInv, TakeReport PROVE MirrorInv'
<1> DEFINE r == feed[NextReport]
<1>1. /\ at = "take" /\ at' = "take" /\ UNCHANGED <<offer, feed, ledger, minted, acts, answers>>
      /\ seen.reports # {} /\ seen' = [seen EXCEPT !.reports = @ \ {NextReport}]
      /\ pass' = pass \/ pass' = [pass EXCEPT !.fresh = @ \union {r}]
      /\ \/ r.offer \in seen.ours /\ heard' = Append(heard, r)
         \/ heard' = heard
  BY DEF TakeReport
<1>2. troubles' \in Nat
  BY Troubles DEF TakeReport
<1>3. r \in Elements(feed) /\ r \in Reports
  BY <1>1, NextReportIs, Reported
<1> HIDE DEF r
<1>4. PassTyped /\ ReadTrue /\ heard \in Seq(Reports)
  BY DEF MirrorInv, PassInv, WorldInv, WorldTyped
<1>5. /\ WorldInv' /\ Released \subseteq Released' /\ Len(heard) <= Len(heard)'
      /\ \A j \in Items : Left(j) /\ BudgetOf(j) \in keys => Left(j)'
  <2>1. CASE heard' = heard
    <3>1. Released' = Released
      BY <2>1 DEF Released
    <3>2. WorldInv'
      BY <1>1, <1>2, <2>1, WorldSame DEF layer
    <3>3. \A j \in Items : Left(j) => Left(j)'
      BY <1>1, <3>1 DEF Left, Back, ledger
    <3>4. QED
      BY <1>4, <2>1, <3>1, <3>2, <3>3
  <2>2. CASE r.offer \in seen.ours /\ heard' = Append(heard, r)
    <3>1. PICK i \in Items : r.offer \in about[i]
      BY <1>4, <2>2 DEF ReadTrue
    <3>2. Hears(r)
      BY <1>1, <1>2, <2>2 DEF Hears
    <3>3. Len(heard)' = Len(heard) + 1 /\ Len(heard) \in Nat
      BY <1>3, <1>4, <2>2, Appended
    <3>4. QED
      BY <1>3, <3>1, <3>2, <3>3, InvHears
  <2>3. QED
    BY <1>1, <2>1, <2>2
<1>6. /\ seen.items' = seen.items /\ seen.withdrawn' = seen.withdrawn /\ seen.taken' = seen.taken
      /\ seen.heard' = seen.heard /\ seen.ours' = seen.ours
      /\ seen.reports' \subseteq seen.reports /\ seen' \in Readings
  BY <1>1, <1>4 DEF PassTyped, Readings
<1>7. pass' \in Passes /\ pass.applied' = pass.applied /\ pass.released' = pass.released
  BY <1>1, <1>3, <1>4 DEF PassTyped, Passes
<1>8. PassTyped'
  <2>1. Len(heard) \in Nat /\ Len(heard)' \in Nat
    BY <1>4, <1>5 DEF WorldInv, WorldTyped
  <2>2. QED
    BY <1>1, <1>4, <1>5, <1>6, <1>7, <2>1 DEF PassTyped
<1>9. Listed' = Listed
  BY <1>1, <1>6 DEF Listed
<1>10. ReadTrue'
  <2>1. Live' = Live /\ pass.released = {} /\ pass.applied = 0
    BY <1>1, <1>4 DEF Live, ledger, ReadTrue
  <2>2. QED
    BY <1>1, <1>4, <1>6, <1>7, <1>9, <2>1 DEF ReadTrue, InLayer, ledger
<1>11. Applying'
  BY <1>1 DEF Applying
<1>12. BudgetRead'
  <2>1. Listed \subseteq Items
    BY <1>1, <1>4 DEF Listed, PassTyped, Readings, Listings
  <2>2. \A i \in Items : BudgetOf(i)' = BudgetOf(i)
    BY <1>1 DEF BudgetOf, ledger
  <2>3. keys' = keys
    BY <1>1 DEF ledger
  <2>4. QED
    BY <1>5, <1>6, <1>9, <2>1, <2>2, <2>3 DEF BudgetRead, MirrorInv, PassInv
<1>13. QED
  BY <1>5, <1>8, <1>10, <1>11, <1>12 DEF MirrorInv, PassInv

LEMMA InvReadAgain == ASSUME MirrorInv, ReadAgain PROVE MirrorInv'
<1>1. WorldInv'
  BY WorldSame DEF ReadAgain, MirrorInv, WorldInv, WorldTyped
<1>2. /\ at = "take" /\ at' = "apply" /\ pass' = pass
      /\ UNCHANGED <<layer, ledger, minted, answers>>
      /\ \/ seen' = seen
         \/ seen' = [seen EXCEPT !.withdrawn = Receipts.withdrawn, !.taken = Receipts.taken,
                                 !.heard = Receipts.heard]
  BY DEF ReadAgain
<1>3. PassTyped /\ ReadTrue /\ heard \in Seq(Reports) /\ feed \in Seq(Reports)
  BY DEF MirrorInv, PassInv, WorldInv, WorldTyped
<1>4. /\ Receipts.withdrawn = InLayer("withdrawn") /\ Receipts.taken = InLayer("taken")
      /\ Receipts.heard = Len(heard) /\ Len(heard) \in Nat
      /\ InLayer("withdrawn") \subseteq Offers /\ InLayer("taken") \subseteq Offers
  BY <1>3 DEF Receipts, InLayer
<1>5. /\ seen'.reports = seen.reports /\ seen'.ours = seen.ours /\ seen'.items = seen.items
      /\ seen'.heard \in 0 .. Len(heard) /\ seen' \in Readings
      /\ seen'.withdrawn \subseteq InLayer("withdrawn") /\ seen'.taken \subseteq InLayer("taken")
  <2>1. /\ seen \in Readings /\ seen.heard \in 0 .. Len(heard)
        /\ seen.withdrawn \subseteq InLayer("withdrawn") /\ seen.taken \subseteq InLayer("taken")
    BY <1>3 DEF PassTyped, ReadTrue
  <2>2. CASE seen' = seen
    BY <2>1, <2>2
  <2>3. CASE seen' = [seen EXCEPT !.withdrawn = Receipts.withdrawn, !.taken = Receipts.taken,
                                  !.heard = Receipts.heard]
    <3>1. /\ Receipts.withdrawn \in SUBSET Offers /\ Receipts.taken \in SUBSET Offers
          /\ Receipts.heard \in Nat
      BY <1>4
    <3>2. /\ seen' \in Readings /\ seen'.reports = seen.reports /\ seen'.ours = seen.ours
          /\ seen'.items = seen.items /\ seen'.withdrawn = Receipts.withdrawn
          /\ seen'.taken = Receipts.taken /\ seen'.heard = Receipts.heard
      BY <2>1, <2>3, <3>1 DEF Readings
    <3>3. QED
      BY <1>4, <3>2
  <2>4. QED
    BY <1>2, <2>2, <2>3
<1>6. \A i \in Items : \A o \in about[i] :
         o # Newest(about[i]) => o \in seen'.withdrawn \union seen'.taken
  <2>1. CASE seen' = seen
    BY <1>2, <1>3, <2>1 DEF ReadTrue
  <2>2. CASE seen' = [seen EXCEPT !.withdrawn = Receipts.withdrawn, !.taken = Receipts.taken,
                                  !.heard = Receipts.heard]
    <3>1. seen'.withdrawn = Receipts.withdrawn /\ seen'.taken = Receipts.taken
      BY <1>3, <2>2 DEF PassTyped, Readings
    <3>2. QED
      BY <3>1, OldIsRead
  <2>3. QED
    BY <1>2, <2>1, <2>2
<1>7. pass.applied = 0 /\ pass.released = {}
  BY <1>2, <1>3 DEF ReadTrue
<1>8. PassTyped'
  BY <1>2, <1>3, <1>4, <1>5, <1>7 DEF PassTyped, layer
<1>9. Listed' = Listed /\ Listed = DOMAIN seen.items
  BY <1>2, <1>5 DEF Listed
<1>10. ReadTrue'
  BY <1>2, <1>3, <1>5, <1>6, <1>7, <1>9 DEF ReadTrue, InLayer, Released, Live, layer, ledger
<1>11. Applying'
  BY <1>2, <1>7 DEF Applying
<1>12. BudgetRead'
  <2>1. Released' = Released
    BY <1>2 DEF Released, layer
  <2>2. QED
    BY <1>2, <1>5, <1>9, <2>1 DEF MirrorInv, PassInv, BudgetRead, BudgetOf, Left, Back, ledger
<1>13. QED
  BY <1>1, <1>8, <1>10, <1>11, <1>12 DEF MirrorInv, PassInv

-----------------------------------------------------------------------------
(* The reports are applied.                                                *)

\* What applying one report does to the pass.
Applies(released) ==
    /\ at = "apply" /\ at' = "apply" /\ seen' = seen
    /\ pass.applied < seen.heard
    /\ pass' \in Passes /\ pass'.applied = pass.applied + 1 /\ pass'.released = released

\* The pass, whatever kind of report it was.
LEMMA PassApplies ==
    ASSUME MirrorInv, NEW released \in SUBSET Offers, Applies(released),
           UNCHANGED <<layer, item, about, answers>>,
           \A o : <<"budget", o>> \in keys' => <<"budget", o>> \in keys,
           pass.released \subseteq released,
           released \subseteq pass.released \union {heard[pass.applied + 1].offer},
           \A o \in released \ pass.released : \E i \in Items :
               Current(heard[pass.applied + 1], i) /\ Release(pass.applied + 1, o),
           \A i \in Items : Current(heard[pass.applied + 1], i)
                               /\ heard[pass.applied + 1].kind = "release"
                               => heard[pass.applied + 1].offer \in released
    PROVE  PassInv'
<1> DEFINE n == pass.applied + 1
<1>1. /\ PassTyped /\ ReadTrue /\ Applying /\ BudgetRead /\ heard \in Seq(Reports)
      /\ about \in [Items -> SUBSET Offers]
  BY DEF MirrorInv, PassInv, WorldInv, WorldTyped
<1>2. n \in 1 .. seen.heard /\ n \in DOMAIN heard /\ heard[n] \in Reports
      /\ pass.applied \in Nat /\ seen.heard \in Nat
  BY <1>1 DEF Applies, PassTyped
<1>3. Released' = Released /\ Live' = Live /\ Listed' = Listed /\ Listed = DOMAIN seen.items
      /\ Listed \subseteq Items
  BY <1>1 DEF Applies, Released, Live, Listed, layer, PassTyped, Readings, Listings
<1>4. PassTyped'
  BY <1>1, <1>2 DEF Applies, PassTyped, layer
<1>5. \A o \in released \ pass.released : o \in seen.taken /\ o \in Released
  <2> SUFFICES ASSUME NEW o \in released \ pass.released PROVE o \in seen.taken /\ o \in Released
    OBVIOUS
  <2>1. PICK i \in Items : Current(heard[n], i) /\ Release(n, o)
    OBVIOUS
  <2>2. QED
    BY <1>2, <2>1 DEF Current, Release, Released
<1>6. ReadTrue'
  BY <1>1, <1>3, <1>5 DEF Applies, ReadTrue, InLayer, layer
<1>7. Applying'
  <2>1. ASSUME NEW i \in DOMAIN seen.items, NEW k \in 1 .. n, NEW o \in about[i],
               Release(k, o), o \in seen.taken
        PROVE  o \in released
    <3>1. CASE k \in 1 .. pass.applied
      BY <1>1, <2>1, <3>1 DEF Applying, Applies
    <3>2. CASE k = n
      <4>1. i \in Items /\ about[i] \subseteq seen.ours
        BY <1>1, <1>3 DEF ReadTrue
      <4>2. Current(heard[n], i) /\ heard[n].kind = "release" /\ heard[n].offer = o
        BY <2>1, <3>2, <4>1 DEF Current, Release, Applies
      <4>3. QED
        BY <4>1, <4>2
    <3>3. QED
      BY <1>2, <3>1, <3>2
  <2>2. ASSUME NEW o \in released
        PROVE  \E i \in DOMAIN seen.items, k \in 1 .. n : o \in about[i] /\ Release(k, o)
    <3>1. CASE o \in pass.released
      BY <1>1, <1>2, <3>1 DEF Applying, Applies
    <3>2. CASE o \notin pass.released
      <4>1. PICK i \in Items : Current(heard[n], i) /\ Release(n, o)
        BY <3>2
      <4>2. i \in DOMAIN seen.items /\ o \in about[i]
        BY <4>1 DEF Current, Release
      <4>3. QED
        BY <1>2, <4>1, <4>2
    <3>3. QED
      BY <3>1, <3>2
  <2>3. about' = about /\ heard' = heard
    BY DEF layer
  <2>4. QED
    BY <2>1, <2>2, <2>3 DEF Applying, Applies, Release
<1>8. BudgetRead'
  <2> SUFFICES ASSUME NEW i \in Listed, BudgetOf(i)' \in keys', ~seen.items[i].awaiting
               PROVE  Left(i)'
    BY <1>3 DEF BudgetRead, Applies
  <2>1. BudgetOf(i)' = BudgetOf(i) /\ i \in Items
    BY <1>3 DEF BudgetOf
  <2>2. BudgetOf(i) \in keys'
    BY <2>1
  <2>3. BudgetOf(i) \in keys
    BY <2>2 DEF BudgetOf
  <2>4. Left(i)
    BY <1>1, <2>3 DEF BudgetRead
  <2>5. QED
    BY <1>3, <2>4 DEF Left, Back
<1>9. QED
  BY <1>4, <1>6, <1>7, <1>8 DEF PassInv

LEMMA CurrentIs ==
    ASSUME MirrorInv, NEW r, NEW i \in Items, Current(r, i)
    PROVE  /\ r = heard[pass.applied + 1] /\ pass.applied + 1 \in DOMAIN heard
           /\ r \in Reports /\ r.offer \in Offers /\ r.offer \in about[i] /\ r.offer \in seen.taken
           /\ i \in DOMAIN seen.items /\ Recorded(i) = about[i]
           /\ at = "apply" /\ pass.applied < seen.heard
<1>1. PassTyped /\ ReadTrue /\ heard \in Seq(Reports)
  BY DEF MirrorInv, PassInv, WorldInv, WorldTyped
<1>2. pass.applied + 1 \in DOMAIN heard /\ r = heard[pass.applied + 1] /\ r \in Reports
  BY <1>1 DEF Current, PassTyped
<1>3. about[i] \subseteq seen.ours
  BY <1>1 DEF Current, ReadTrue, Listed
<1>4. r.offer \in Offers
  BY <1>2 DEF Reports
<1>5. QED
  BY <1>2, <1>3, <1>4 DEF Current, Recorded

LEMMA AppliedIs ==
    ASSUME MirrorInv, NEW touched \in BOOLEAN, pass.applied < seen.heard
    PROVE  /\ Applied \in Passes /\ Applied.released = pass.released
           /\ Applied.applied = pass.applied + 1 /\ Applied.touched \in BOOLEAN
           /\ [Applied EXCEPT !.touched = touched] \in Passes
           /\ [Applied EXCEPT !.touched = touched].released = pass.released
           /\ [Applied EXCEPT !.touched = touched].applied = pass.applied + 1
<1>1. pass \in Passes /\ pass.applied + 1 \in Nat
  BY DEF MirrorInv, PassInv, PassTyped, Passes
<1>2. QED
  BY <1>1 DEF Applied, Passes

LEMMA InvSkip == ASSUME MirrorInv, SkipReport PROVE MirrorInv'
<1>1. WorldInv'
  BY WorldSame DEF SkipReport, MirrorInv, WorldInv, WorldTyped
<1>2. Applies(pass.released) /\ pass.released \in SUBSET Offers
  BY AppliedIs DEF SkipReport, Applies, MirrorInv, PassInv, PassTyped, Passes
<1>3. pass.applied + 1 \in DOMAIN heard /\ heard[pass.applied + 1] \in Reports
  BY DEF SkipReport, MirrorInv, PassInv, PassTyped, WorldInv, WorldTyped
<1>4. \A i \in Items : ~Current(heard[pass.applied + 1], i)
  BY <1>3 DEF SkipReport
<1>5. UNCHANGED <<layer, item, about, answers, keys>>
  BY DEF SkipReport, ledger
<1>6. PassInv'
  BY <1>2, <1>4, <1>5, PassApplies
<1>7. QED
  BY <1>1, <1>6 DEF MirrorInv

LEMMA InvProgress ==
    ASSUME MirrorInv, NEW r \in Reports, NEW i \in Items, ApplyProgress(r, i) PROVE MirrorInv'
<1>1. /\ Current(r, i) /\ r.kind = "progress"
      /\ UNCHANGED <<layer, item, holder, awaiting, about, keys, at, seen, minted, acts, answers>>
      /\ lapsing' = lapsing \/ lapsing' = [lapsing EXCEPT ![i] = FALSE]
  BY DEF ApplyProgress
<1>2. /\ r = heard[pass.applied + 1] /\ at = "apply" /\ pass.applied < seen.heard
  BY <1>1, CurrentIs
<1>3. \E t \in BOOLEAN : pass' = [Applied EXCEPT !.touched = t] \/ pass' = Applied
  <2>1. Applied.touched \in BOOLEAN
    BY <1>2, AppliedIs DEF MirrorInv, PassInv, PassTyped, Passes
  <2>2. QED
    BY <2>1 DEF ApplyProgress
<1>4. Applies(pass.released) /\ pass.released \in SUBSET Offers
  <2>1. pass.released \in SUBSET Offers
    BY DEF MirrorInv, PassInv, PassTyped, Passes
  <2>2. QED
    BY <1>1, <1>2, <1>3, <2>1, AppliedIs DEF Applies
<1>5. WorldInv'
  <2>1. troubles' \in Nat
    BY Troubles DEF ApplyProgress
  <2>2. holder' \in [Items -> Parties] /\ lapsing' \in [Items -> BOOLEAN]
    BY <1>1 DEF MirrorInv, WorldInv, WorldTyped
  <2>3. QED
    BY <1>1, <2>1, <2>2, WorldQuiet
<1>6. PassInv'
  BY <1>1, <1>2, <1>4, PassApplies
<1>7. QED
  BY <1>5, <1>6 DEF MirrorInv

LEMMA InvRelease ==
    ASSUME MirrorInv, NEW r \in Reports, NEW i \in Items, ApplyRelease(r, i) PROVE MirrorInv'
<1> DEFINE released == pass.released \union {r.offer}
<1>1. /\ Current(r, i) /\ r.kind = "release"
      /\ UNCHANGED <<layer, item, awaiting, about, keys, at, seen, minted, acts, answers>>
      /\ lapsing' = lapsing \/ lapsing' = [lapsing EXCEPT ![i] = FALSE]
      /\ holder' = holder \/ holder' = [holder EXCEPT ![i] = "nobody"]
  BY DEF ApplyRelease
<1>2. /\ r = heard[pass.applied + 1] /\ pass.applied + 1 \in DOMAIN heard
      /\ at = "apply" /\ pass.applied < seen.heard /\ r.offer \in Offers
  BY <1>1, CurrentIs
<1>3. released \in SUBSET Offers
  BY <1>2 DEF MirrorInv, PassInv, PassTyped, Passes
<1>4. \E t \in BOOLEAN : \/ pass' = [Applied EXCEPT !.released = released, !.touched = t]
                         \/ pass' = [Applied EXCEPT !.released = released]
  <2>1. Applied.touched \in BOOLEAN /\ Applied.released = pass.released
    BY <1>2, <1>3, AppliedIs DEF MirrorInv, PassInv, PassTyped, Passes
  <2>2. QED
    BY <2>1 DEF ApplyRelease
<1>5. Applies(released)
  <2>1. PICK t \in BOOLEAN : \/ pass' = [Applied EXCEPT !.released = released, !.touched = t]
                            \/ pass' = [Applied EXCEPT !.released = released]
    BY <1>4
  <2> HIDE DEF released
  <2>2. pass' \in Passes /\ pass'.released = released /\ pass'.applied = pass.applied + 1
    <3>1. Applied \in Passes /\ Applied.applied = pass.applied + 1
      BY <1>2, <1>3, AppliedIs DEF MirrorInv, PassInv, PassTyped, Passes
    <3> HIDE DEF Applied
    <3>2. QED
      BY <1>3, <2>1, <3>1 DEF Passes
  <2>3. QED
    BY <1>1, <1>2, <2>2 DEF Applies
<1>6. WorldInv'
  <2>1. troubles' \in Nat
    BY Troubles DEF ApplyRelease
  <2>2. holder' \in [Items -> Parties] /\ lapsing' \in [Items -> BOOLEAN]
    BY <1>1 DEF MirrorInv, WorldInv, WorldTyped, Parties
  <2>3. QED
    BY <1>1, <2>1, <2>2, WorldQuiet
<1>7. Release(pass.applied + 1, r.offer)
  BY <1>1, <1>2 DEF Release
<1>8. PassInv'
  BY <1>1, <1>2, <1>3, <1>5, <1>7, PassApplies
<1>9. QED
  BY <1>6, <1>8 DEF MirrorInv

\* A comment adds a key, and may make the item wait.
LEMMA WorldComments ==
    ASSUME MirrorInv, NEW i \in Items, NEW key \in Keyed, NEW handback \in BOOLEAN,
           Comment(i, key, handback),
           UNCHANGED <<layer, item, holder, lapsing, about, minted, acts, answers>>,
           troubles' \in Nat
    PROVE  /\ WorldTyped' /\ Named' /\ OldAreOver' /\ InOrder'
           /\ keys' \subseteq keys \union {key} /\ keys \subseteq keys'
           /\ \A j \in Items : awaiting[j] => awaiting'[j]
           /\ \A j \in Items : Left(j)' <=> Left(j)
<1>1. /\ keys' \subseteq keys \union {key} /\ keys \subseteq keys'
      /\ awaiting' = [awaiting EXCEPT ![i] =
                        @ \/ (handback /\ item[i] = "open" /\ key \notin keys)]
  BY DEF Comment
<1>2. awaiting \in [Items -> BOOLEAN]
  BY DEF MirrorInv, WorldInv, WorldTyped
<1>3. awaiting' \in [Items -> BOOLEAN] /\ \A j \in Items : awaiting[j] => awaiting'[j]
  BY <1>1, <1>2
<1>4. WorldTyped'
  BY <1>1, <1>3 DEF layer, MirrorInv, WorldInv, WorldTyped
<1>5. \A j \in Items : Left(j)' <=> Left(j)
  BY DEF layer, Left, Back, Released
<1>6. QED
  BY <1>1, <1>3, <1>4, <1>5, WorldAlike

LEMMA InvHandback ==
    ASSUME MirrorInv, NEW r \in Reports, NEW i \in Items, ApplyHandback(r, i) PROVE MirrorInv'
<1> DEFINE key == <<"handback", r>>
           interrupts == IsNewest(i, r.offer) /\ seen.items[i].open
<1>1. /\ Current(r, i) /\ r.kind = "handback"
      /\ UNCHANGED <<layer, item, holder, lapsing, about, at, seen, minted, acts, answers>>
      /\ \/ /\ HandbacksOn(r.offer, pass.applied + 1) <= MaxHandbacks
            /\ Comment(i, key, interrupts)
         \/ keys' = keys /\ awaiting' = awaiting
  BY DEF ApplyHandback
<1>2. /\ r = heard[pass.applied + 1] /\ pass.applied + 1 \in DOMAIN heard
      /\ at = "apply" /\ pass.applied < seen.heard /\ i \in DOMAIN seen.items
  BY <1>1, CurrentIs
<1>3. \E t \in BOOLEAN : pass' = [Applied EXCEPT !.touched = t] \/ pass' = Applied
  BY DEF ApplyHandback
<1>4. Applies(pass.released) /\ pass.released \in SUBSET Offers
  <2>1. pass.released \in SUBSET Offers
    BY DEF MirrorInv, PassInv, PassTyped, Passes
  <2>2. QED
    BY <1>1, <1>2, <1>3, <2>1, AppliedIs DEF Applies
<1>5. troubles' \in Nat
  BY Troubles DEF ApplyHandback
<1>6. WorldInv' /\ \A o : <<"budget", o>> \in keys' => <<"budget", o>> \in keys
  <2>1. CASE keys' = keys /\ awaiting' = awaiting
    <3>1. holder \in [Items -> Parties] /\ lapsing \in [Items -> BOOLEAN]
      BY DEF MirrorInv, WorldInv, WorldTyped
    <3>2. QED
      BY <1>1, <1>5, <2>1, <3>1, WorldQuiet
  <2>2. CASE /\ HandbacksOn(r.offer, pass.applied + 1) <= MaxHandbacks
             /\ Comment(i, key, interrupts)
    <3>1. key \in Keyed
      BY DEF Keyed
    <3>2. interrupts \in BOOLEAN
      <4>1. seen.items[i] \in Rows
        BY <1>2 DEF MirrorInv, PassInv, PassTyped, Readings, Listings
      <4>2. QED
        BY <4>1 DEF Rows, IsNewest
    <3> HIDE DEF key, interrupts
    <3>3. /\ WorldTyped' /\ Named' /\ OldAreOver' /\ InOrder'
          /\ keys' \subseteq keys \union {key} /\ keys \subseteq keys'
          /\ \A j \in Items : awaiting[j] => awaiting'[j]
          /\ \A j \in Items : Left(j)' <=> Left(j)
      BY <1>1, <1>5, <2>2, <3>1, <3>2, WorldComments
    <3>4. \A o : <<"budget", o>> # key
      BY DEF key
    <3>5. \A o : <<"budget", o>> \in keys' => <<"budget", o>> \in keys
      BY <3>3, <3>4
    <3>6. Released' = Released
      BY <1>1 DEF Released, layer
    <3>7. Budgeted'
      <4>1. \A j \in Items : BudgetOf(j)' \in keys' => BudgetOf(j) \in keys
        BY <1>1, <3>5 DEF BudgetOf
      <4>2. \A j \in Items : Cardinality(Back(j)') <= MaxReleases + answers'[j]
        BY <1>1, <3>6 DEF Back, MirrorInv, WorldInv, Budgeted
      <4>3. \A j \in Items : Newest(about[j])' \notin Released' => Left(j)'
        BY <1>1, <3>3, <3>6 DEF MirrorInv, WorldInv, Budgeted
      <4>4. \A o \in Offers : <<"budget", o>> \in keys' => o \in Released'
        BY <3>5, <3>6 DEF MirrorInv, WorldInv, Budgeted
      <4>5. \A j \in Items : BudgetOf(j)' \in keys' => awaiting'[j] \/ Left(j)'
        BY <3>3, <4>1 DEF MirrorInv, WorldInv, Budgeted
      <4>6. QED
        BY <4>2, <4>3, <4>4, <4>5 DEF Budgeted
    <3>8. HandedBack'
      <4>1. heard' = heard
        BY <1>1 DEF layer
      <4>2. \A o, k : HandbacksOn(o, k)' = HandbacksOn(o, k)
        BY <4>1 DEF HandbacksOn
      <4>3. \A q \in Reports : <<"handback", q>> \in keys' => <<"handback", q>> \in keys \/ q = r
        BY <3>3 DEF key
      <4>4. QED
        BY <1>1, <1>2, <2>2, <4>1, <4>2, <4>3 DEF MirrorInv, WorldInv, HandedBack
    <3>9. QED
      BY <3>3, <3>5, <3>7, <3>8 DEF WorldInv
  <2>3. QED
    BY <1>1, <2>1, <2>2
<1>7. PassInv'
  BY <1>1, <1>2, <1>4, <1>6, PassApplies
<1>8. QED
  BY <1>6, <1>7 DEF MirrorInv

\* Whatever is listed anew, a pass that applied the release of an item's newest offer applied
\* those of the older ones before it.
LEMMA AllBackApplied ==
    ASSUME MirrorInv, at = "apply", pass.applied = seen.heard,
           NEW i \in Items, Newest(about[i]) \in pass.released
    PROVE  Back(i) \subseteq pass.released
<1> DEFINE o == Newest(about[i])
<1>1. /\ ReadTrue /\ Applying /\ about \in [Items -> SUBSET Offers]
      /\ pass.released \subseteq Released /\ pass.released \subseteq seen.taken
  BY DEF MirrorInv, PassInv, WorldInv, WorldTyped, ReadTrue
<1>2. o \in Offers
  BY DEF MirrorInv, PassInv, PassTyped, Passes
<1>3. o \in about[i]
  BY <1>1, <1>2, NewestIs, Bounds DEF Offers
<1>4. PICK j \in DOMAIN seen.items, k \in 1 .. pass.applied : o \in about[j] /\ Release(k, o)
  BY <1>1 DEF Applying
<1>5. j \in Items
  BY DEF MirrorInv, PassInv, PassTyped, Readings, Listings
<1>6. j = i
  BY <1>3, <1>4, <1>5 DEF MirrorInv, WorldInv, Named
<1>7. ASSUME NEW p \in Back(i), p # o PROVE p \in pass.released
  <2>1. p \in about[i] /\ p \in Released /\ p \in Offers
    BY <1>1, <1>7 DEF Back
  <2>2. p < o
    BY <1>1, <1>2, <1>7, <2>1, NewestIs, Bounds DEF Offers
  <2>3. k \in DOMAIN heard
    BY <1>4 DEF Release
  <2>4. PICK n \in 1 .. k : Release(n, p)
    BY <1>3, <1>4, <2>2, <2>3 DEF MirrorInv, WorldInv, InOrder
  <2>5. p \in seen.taken
    <3>1. p \in seen.withdrawn \union seen.taken
      BY <1>1, <1>7, <2>1 DEF ReadTrue
    <3>2. offer[p] = "taken"
      BY <2>1, Reported DEF Released, MirrorInv, WorldInv, Named
    <3>3. p \notin seen.withdrawn
      BY <1>1, <3>2 DEF ReadTrue, InLayer
    <3>4. QED
      BY <3>1, <3>3
  <2>6. n \in 1 .. pass.applied
    BY <1>4 DEF MirrorInv, PassInv, PassTyped, Passes
  <2>7. QED
    BY <1>1, <1>4, <1>6, <2>1, <2>4, <2>5, <2>6 DEF Applying
<1>8. QED
  BY <1>7

LEMMA InvRelist == ASSUME MirrorInv, Relist PROVE MirrorInv'
<1>1. WorldInv'
  <2>1. troubles' \in Nat
    BY Troubles DEF Relist, NoTrouble
  <2>2. QED
    BY <2>1, WorldSame DEF Relist
<1>2. /\ at = "apply" /\ at' = "act" /\ pass.applied = seen.heard
      /\ UNCHANGED <<layer, ledger, minted, answers>>
      /\ pass' = [pass EXCEPT !.todo = DOMAIN seen'.items]
      /\ \/ seen' = seen
         \/ \E L \in SUBSET Live : seen' = [seen EXCEPT !.items = Listing(L)]
  BY DEF Relist
<1>3. /\ PassTyped /\ ReadTrue /\ Applying /\ BudgetRead /\ heard \in Seq(Reports)
      /\ about \in [Items -> SUBSET Offers]
  BY DEF MirrorInv, PassInv, WorldInv, WorldTyped
<1>4. /\ seen'.ours = seen.ours /\ seen'.withdrawn = seen.withdrawn /\ seen'.taken = seen.taken
      /\ seen'.heard = seen.heard /\ seen'.reports = seen.reports /\ seen' \in Readings
      /\ \/ seen'.items = seen.items
         \/ /\ \A i \in DOMAIN seen'.items : i \in Live /\ seen'.items[i].awaiting = awaiting[i]
  <2>1. CASE seen' = seen
    BY <1>3, <2>1 DEF PassTyped
  <2>2. ASSUME NEW L \in SUBSET Live, seen' = [seen EXCEPT !.items = Listing(L)]
        PROVE  /\ seen'.ours = seen.ours /\ seen'.withdrawn = seen.withdrawn
               /\ seen'.taken = seen.taken /\ seen'.heard = seen.heard
               /\ seen'.reports = seen.reports /\ seen' \in Readings
               /\ \A i \in DOMAIN seen'.items : i \in Live /\ seen'.items[i].awaiting = awaiting[i]
    <3>1. /\ Listing(L) \in Listings /\ DOMAIN Listing(L) = L
          /\ \A i \in L : Listing(L)[i].awaiting = awaiting[i]
      BY ListingIs DEF Live
    <3>2. seen \in Readings
      BY <1>3 DEF PassTyped
    <3> HIDE DEF Listing
    <3>3. QED
      BY <2>2, <3>1, <3>2 DEF Readings
  <2>3. QED
    BY <1>2, <2>1, <2>2
<1>5. DOMAIN seen'.items \in SUBSET Items
  BY <1>4 DEF Readings, Listings
<1>6. pass' \in Passes /\ pass'.todo = DOMAIN seen'.items /\ pass'.applied = pass.applied
      /\ pass'.released = pass.released
  BY <1>2, <1>3, <1>5 DEF PassTyped, Passes
<1>7. PassTyped'
  BY <1>2, <1>3, <1>4, <1>6 DEF PassTyped, layer
<1>8. Listed' = DOMAIN seen'.items /\ Listed = DOMAIN seen.items
  BY <1>2, <1>6 DEF Listed
<1>9. \A i \in DOMAIN seen'.items : about[i] \subseteq seen.ours
  BY <1>2, <1>3, <1>4, <1>8 DEF ReadTrue
<1>10. ReadTrue'
  BY <1>2, <1>3, <1>4, <1>6, <1>8, <1>9 DEF ReadTrue, InLayer, Released, layer, ledger
<1>11. Released' = Released
  BY <1>2 DEF Released, layer
<1>12. Applying'
  <2>1. \A i \in Items : Newest(about[i]) \in pass.released => Back(i) \subseteq pass.released
    BY <1>2, AllBackApplied
  <2>2. QED
    BY <1>2, <1>6, <1>11, <2>1 DEF Applying, Back, ledger
<1>13. BudgetRead'
  <2> SUFFICES ASSUME NEW i \in DOMAIN seen'.items, BudgetOf(i) \in keys, ~seen'.items[i].awaiting
               PROVE  Left(i)
    BY <1>2, <1>8, <1>11 DEF BudgetRead, BudgetOf, Left, Back, ledger
  <2>1. CASE seen'.items = seen.items
    BY <1>3, <1>8, <2>1 DEF BudgetRead
  <2>2. CASE \A j \in DOMAIN seen'.items : j \in Live /\ seen'.items[j].awaiting = awaiting[j]
    BY <1>5, <2>2 DEF MirrorInv, WorldInv, Budgeted
  <2>3. QED
    BY <1>4, <2>1, <2>2
<1>14. QED
  BY <1>1, <1>7, <1>10, <1>12, <1>13 DEF MirrorInv, PassInv

-----------------------------------------------------------------------------
(* Each item against its newest offer.                                     *)

LEMMA ToDo ==
    ASSUME MirrorInv, at = "act", NEW i \in pass.todo
    PROVE  /\ i \in Items /\ i \in Listed /\ Recorded(i) = about[i] /\ about[i] \in SUBSET Offers
           /\ i \in DOMAIN seen.items
<1>1. i \in Items /\ i \in Listed /\ about[i] \in SUBSET Offers
  BY DEF MirrorInv, PassInv, PassTyped, Passes, Listed, WorldInv, WorldTyped
<1>2. about[i] \subseteq seen.ours /\ i \in DOMAIN seen.items
  BY <1>1 DEF MirrorInv, PassInv, ReadTrue
<1>3. QED
  BY <1>1, <1>2 DEF Recorded

\* The pass forgets that an offer is pending, or is done with an item, or names an offer.
Acting ==
    /\ at \in {"act", "drop"} /\ at' \in {"act", "drop"}
    /\ seen' \in Readings /\ seen'.ours = seen.ours /\ seen'.withdrawn = seen.withdrawn
    /\ seen'.taken = seen.taken /\ seen'.heard = seen.heard /\ seen'.reports = seen.reports
    /\ seen'.items = seen.items
    /\ pass' \in Passes /\ pass'.applied = pass.applied /\ pass'.released = pass.released
    /\ pass'.todo \subseteq pass.todo

LEMMA ActingIs ==
    ASSUME MirrorInv, at \in {"act", "drop"}, at' \in {"act", "drop"},
           NEW o, seen' = seen \/ seen' = [seen EXCEPT !.pending = @ \ {o}],
           NEW i, NEW n \in 0 .. MaxOffers,
           \/ pass' = pass
           \/ pass' = [pass EXCEPT !.todo = @ \ {i}]
           \/ pass' = [pass EXCEPT !.todo = @ \ {i}, !.name = n]
           \/ pass' = [pass EXCEPT !.name = n]
    PROVE  Acting
<1>1. seen \in Readings /\ pass \in Passes
  BY DEF MirrorInv, PassInv, PassTyped
<1>2. /\ seen' \in Readings /\ seen'.ours = seen.ours /\ seen'.withdrawn = seen.withdrawn
      /\ seen'.taken = seen.taken /\ seen'.heard = seen.heard /\ seen'.reports = seen.reports
      /\ seen'.items = seen.items
  <2>1. CASE seen' = seen
    BY <1>1, <2>1
  <2>2. CASE seen' = [seen EXCEPT !.pending = @ \ {o}]
    BY <1>1, <2>2 DEF Readings
  <2>3. QED
    BY <2>1, <2>2
<1>3. /\ pass' \in Passes /\ pass'.applied = pass.applied /\ pass'.released = pass.released
      /\ pass'.todo \subseteq pass.todo
  <2>1. CASE pass' = pass
    BY <1>1, <2>1
  <2>2. CASE pass' = [pass EXCEPT !.todo = @ \ {i}]
    BY <1>1, <2>2 DEF Passes
  <2>3. CASE pass' = [pass EXCEPT !.todo = @ \ {i}, !.name = n]
    BY <1>1, <2>3 DEF Passes
  <2>4. CASE pass' = [pass EXCEPT !.name = n]
    BY <1>1, <2>4 DEF Passes
  <2>5. QED
    BY <2>1, <2>2, <2>3, <2>4
<1>4. QED
  BY <1>2, <1>3 DEF Acting

LEMMA PassActs ==
    ASSUME MirrorInv, Acting, UNCHANGED <<feed, heard, about, answers>>,
           Forward \/ UNCHANGED offer,
           \A i \in pass'.todo : BudgetOf(i) \in keys' => BudgetOf(i) \in keys,
           at' = "drop" => \E i \in Items : pass'.name \in about[i] /\ pass'.name = Newest(about[i])
    PROVE  PassInv'
<1>1. /\ PassTyped /\ ReadTrue /\ Applying /\ BudgetRead
  BY DEF MirrorInv, PassInv
<1>2. /\ seen'.ours = seen.ours /\ seen'.withdrawn = seen.withdrawn /\ seen'.taken = seen.taken
      /\ seen'.heard = seen.heard /\ seen'.reports = seen.reports /\ seen'.items = seen.items
      /\ seen' \in Readings
  BY DEF Acting
<1>3. Listed' \subseteq Listed /\ Listed' = pass'.todo /\ Listed = pass.todo /\ Released' = Released
  BY DEF Acting, Listed, Released
<1>4. InLayer("withdrawn") \subseteq InLayer("withdrawn")'
        /\ InLayer("taken") \subseteq InLayer("taken")'
  BY DEF InLayer, Forward
<1>5. PassTyped'
  BY <1>1, <1>2 DEF PassTyped, Acting
<1>6. ReadTrue'
  BY <1>1, <1>2, <1>3, <1>4 DEF ReadTrue, Acting
<1>7. Applying'
  BY <1>1, <1>3 DEF Applying, Back, Acting
<1>8. BudgetRead'
  <2> SUFFICES ASSUME NEW i \in pass'.todo, BudgetOf(i)' \in keys', ~seen.items[i].awaiting
               PROVE  Left(i)'
    BY <1>2, <1>3 DEF BudgetRead
  <2>1. BudgetOf(i) \in keys
    BY DEF BudgetOf
  <2>2. Left(i)
    BY <1>1, <1>3, <2>1 DEF BudgetRead
  <2>3. QED
    BY <1>3, <2>2 DEF Left, Back
<1>9. QED
  BY <1>5, <1>6, <1>7, <1>8 DEF PassInv

LEMMA InvLeave == ASSUME MirrorInv, NEW i \in Items, LeaveItem(i) PROVE MirrorInv'
<1>1. WorldInv'
  BY WorldSame DEF LeaveItem, MirrorInv, WorldInv, WorldTyped
<1>2. Acting
  <2>1. /\ at = "act" /\ at' = "act" /\ seen' = seen /\ pass' = [pass EXCEPT !.todo = @ \ {i}]
        /\ 0 \in 0 .. MaxOffers
    BY Bounds DEF LeaveItem, Done
  <2>2. QED
    BY <2>1, ActingIs
<1>3. PassInv'
  BY <1>2, PassActs DEF LeaveItem, layer, ledger
<1>4. QED
  BY <1>1, <1>3 DEF MirrorInv

LEMMA InvClaim == ASSUME MirrorInv, NEW i \in Items, ClaimFor(i) PROVE MirrorInv'
<1>1. WorldInv'
  <2>1. troubles' \in Nat
    BY Troubles DEF ClaimFor
  <2>2. holder' \in [Items -> Parties] /\ lapsing' \in [Items -> BOOLEAN]
    BY DEF ClaimFor, MirrorInv, WorldInv, WorldTyped, Parties
  <2>3. QED
    BY <2>1, <2>2, WorldQuiet DEF ClaimFor
<1>2. Acting
  <2>1. /\ at = "act" /\ at' = "act" /\ seen' = seen /\ pass' = [pass EXCEPT !.todo = @ \ {i}]
        /\ 0 \in 0 .. MaxOffers
    BY Bounds DEF ClaimFor, Done
  <2>2. QED
    BY <2>1, ActingIs
<1>3. PassInv'
  BY <1>2, PassActs DEF ClaimFor, layer
<1>4. QED
  BY <1>1, <1>3 DEF MirrorInv

\* The newest offers of two items are different, if one of them has any.
LEMMA NewestDiffer ==
    ASSUME MirrorInv, NEW i \in Items, NEW j \in Items, about[i] # {},
           Newest(about[i]) = Newest(about[j])
    PROVE  i = j
<1>1. about[i] \in SUBSET Offers /\ about[j] \in SUBSET Offers
  BY DEF MirrorInv, WorldInv, WorldTyped
<1>2. Newest(about[i]) \in about[i] /\ Newest(about[i]) # 0
  BY <1>1, NewestIs, Bounds DEF Offers
<1>3. Newest(about[j]) \in about[j]
  BY <1>1, <1>2, NewestIs
<1>4. QED
  BY <1>2, <1>3 DEF MirrorInv, WorldInv, Named

LEMMA InvSpend == ASSUME MirrorInv, NEW i \in Items, SpendBudget(i) PROVE MirrorInv'
<1> DEFINE o == Newest(about[i])
           key == <<"budget", o>>
<1>1. i \in pass.todo /\ at = "act" /\ Recorded(i) = about[i] /\ about[i] \in SUBSET Offers
  BY ToDo DEF SpendBudget
<1>2. /\ about[i] # {} /\ o \in pass.released /\ key \notin keys /\ key = BudgetOf(i)
      /\ Done(i) /\ at' = at /\ seen' = seen
      /\ UNCHANGED <<layer, item, holder, lapsing, about, minted, acts, answers>>
      /\ \/ item[i] = "open" /\ Comment(i, key, TRUE)
         \/ keys' = keys /\ awaiting' = awaiting
  BY <1>1 DEF SpendBudget, BudgetKey, BudgetOf
<1>3. troubles' \in Nat
  BY Troubles DEF SpendBudget
<1>4. o \in Offers /\ o \in Released
  BY <1>1, <1>2, NewestIs DEF MirrorInv, PassInv, ReadTrue
<1>5. \A j \in Items : BudgetOf(j) = key => j = i
  <2> SUFFICES ASSUME NEW j \in Items, BudgetOf(j) = key PROVE j = i
    OBVIOUS
  <2>1. Newest(about[j]) = Newest(about[i])
    BY DEF BudgetOf
  <2>2. QED
    BY <1>2, <2>1, NewestDiffer
<1>6. WorldInv' /\ keys' \subseteq keys \union {key}
  <2>1. CASE keys' = keys /\ awaiting' = awaiting
    <3>1. holder \in [Items -> Parties] /\ lapsing \in [Items -> BOOLEAN]
      BY DEF MirrorInv, WorldInv, WorldTyped
    <3>2. QED
      BY <1>2, <1>3, <2>1, <3>1, WorldQuiet
  <2>2. CASE item[i] = "open" /\ Comment(i, key, TRUE)
    <3>1. key \in Keyed
      BY <1>4 DEF Keyed
    <3> HIDE DEF key
    <3>2. /\ WorldTyped' /\ Named' /\ OldAreOver' /\ InOrder'
          /\ keys' \subseteq keys \union {key} /\ keys \subseteq keys'
          /\ \A j \in Items : awaiting[j] => awaiting'[j]
          /\ \A j \in Items : Left(j)' <=> Left(j)
      BY <1>2, <1>3, <2>2, <3>1, WorldComments
    <3>3. awaiting'[i]
      BY <1>2, <2>2 DEF Comment, MirrorInv, WorldInv, WorldTyped
    <3>4. Released' = Released
      BY <1>2 DEF Released, layer
    <3>5. Budgeted'
      <4>1. \A j \in Items : Cardinality(Back(j)') <= MaxReleases + answers'[j]
        BY <1>2, <3>4 DEF Back, MirrorInv, WorldInv, Budgeted
      <4>2. \A j \in Items : Newest(about[j])' \notin Released' => Left(j)'
        BY <1>2, <3>2, <3>4 DEF MirrorInv, WorldInv, Budgeted
      <4>3. \A p \in Offers : <<"budget", p>> \in keys' => p \in Released'
        BY <1>4, <3>2, <3>4 DEF key, MirrorInv, WorldInv, Budgeted
      <4>4. ASSUME NEW j \in Items, BudgetOf(j)' \in keys' PROVE awaiting'[j] \/ Left(j)'
        <5>1. BudgetOf(j) \in keys \/ j = i
          BY <1>2, <1>5, <3>2, <4>4 DEF BudgetOf
        <5>2. QED
          BY <3>2, <3>3, <5>1 DEF MirrorInv, WorldInv, Budgeted
      <4>5. QED
        BY <4>1, <4>2, <4>3, <4>4 DEF Budgeted
    <3>6. HandedBack'
      <4>1. heard' = heard
        BY <1>2 DEF layer
      <4>2. \A p, k : HandbacksOn(p, k)' = HandbacksOn(p, k)
        BY <4>1 DEF HandbacksOn
      <4>3. \A q \in Reports : <<"handback", q>> \in keys' => <<"handback", q>> \in keys
        BY <3>2 DEF key
      <4>4. QED
        BY <4>1, <4>2, <4>3 DEF MirrorInv, WorldInv, HandedBack
    <3>7. QED
      BY <3>2, <3>5, <3>6 DEF WorldInv
  <2>3. QED
    BY <1>2, <2>1, <2>2
<1>7. Acting /\ pass'.todo = pass.todo \ {i}
  <2>1. 0 \in 0 .. MaxOffers /\ pass \in Passes
    BY Bounds DEF MirrorInv, PassInv, PassTyped
  <2>2. Acting
    BY <1>1, <1>2, <2>1, ActingIs DEF Done
  <2>3. pass'.todo = pass.todo \ {i}
    BY <1>2, <2>1 DEF Done, Passes
  <2>4. QED
    BY <2>2, <2>3
<1>8. \A j \in pass'.todo : BudgetOf(j) \in keys' => BudgetOf(j) \in keys
  <2>1. pass.todo \subseteq Items
    BY DEF MirrorInv, PassInv, PassTyped, Passes
  <2>2. QED
    BY <1>5, <1>6, <1>7, <2>1
<1>9. PassInv'
  BY <1>1, <1>2, <1>7, <1>8, PassActs DEF layer
<1>10. QED
  BY <1>6, <1>9 DEF MirrorInv

LEMMA InvResume == ASSUME MirrorInv, NEW i \in Items, Resume(i) PROVE MirrorInv'
<1>1. WorldInv'
  BY WorldSame DEF Resume, MirrorInv, WorldInv, WorldTyped
<1>2. i \in pass.todo /\ at = "act" /\ Recorded(i) = about[i] /\ about[i] \in SUBSET Offers
  BY ToDo DEF Resume
<1>3. /\ about[i] # {} /\ at' = "drop" /\ seen' = seen
      /\ pass' = [pass EXCEPT !.todo = @ \ {i}, !.name = Newest(about[i])]
      /\ UNCHANGED <<layer, ledger, answers>>
  BY <1>2 DEF Resume
<1>4. Newest(about[i]) \in about[i] /\ Newest(about[i]) \in 0 .. MaxOffers
  BY <1>2, <1>3, NewestIs
<1>5. Acting /\ pass'.name = Newest(about[i])
  <2>1. pass \in Passes
    BY DEF MirrorInv, PassInv, PassTyped
  <2>2. Acting
    BY <1>2, <1>3, <1>4, ActingIs
  <2>3. QED
    BY <1>3, <1>4, <2>1, <2>2 DEF Passes
<1>6. PassInv'
  BY <1>3, <1>4, <1>5, PassActs DEF layer, ledger
<1>7. QED
  BY <1>1, <1>6 DEF MirrorInv

\* A withdrawal, of an offer whose item wants it no longer or is gone.
LEMMA InvWithdraw ==
    ASSUME MirrorInv, NEW o \in Offers, WithdrawOrphan(o) \/ \E i \in Items : Withdraw(i, o)
    PROVE  MirrorInv'
<1>1. /\ at = "act" /\ at' = "act" /\ seen' = [seen EXCEPT !.pending = @ \ {o}]
      /\ pass' = pass \/ \E i : pass' = [pass EXCEPT !.todo = @ \ {i}]
      /\ offer' = offer \/ offer' = [offer EXCEPT ![o] = IF @ = "pending" THEN "withdrawn" ELSE @]
      /\ UNCHANGED <<feed, heard, ledger, minted, acts, answers>>
  BY DEF WithdrawOrphan, Withdraw, Done
<1>2. troubles' \in Nat
  BY Troubles DEF WithdrawOrphan, Withdraw
<1>3. Forward \/ UNCHANGED offer
  <2>1. offer[o] = "pending" => o <= minted
    BY Bounds DEF MirrorInv, WorldInv, WorldTyped, Named, Offers
  <2>2. offer \in [Offers -> {"absent", "pending", "withdrawn", "taken"}]
    BY DEF MirrorInv, WorldInv, WorldTyped
  <2>3. QED
    BY <1>1, <2>1, <2>2 DEF Forward
<1>4. WorldInv'
  BY <1>1, <1>2, <1>3, WorldForward, WorldSame DEF WorldInv, layer
<1>5. Acting
  <2>1. 0 \in 0 .. MaxOffers
    BY Bounds
  <2>2. PICK i : pass' = pass \/ pass' = [pass EXCEPT !.todo = @ \ {i}]
    BY <1>1
  <2>3. QED
    BY <1>1, <2>1, <2>2, ActingIs
<1>6. PassInv'
  BY <1>1, <1>3, <1>5, PassActs DEF ledger
<1>7. QED
  BY <1>4, <1>6 DEF MirrorInv

LEMMA InvDrop == ASSUME MirrorInv, Drop PROVE MirrorInv'
<1>1. /\ at = "drop" /\ at' = "act" /\ seen' = seen /\ pass' = [pass EXCEPT !.name = 0]
      /\ \/ offer' = offer
         \/ offer' = [offer EXCEPT ![pass.name] = IF @ = "absent" THEN "pending" ELSE @]
      /\ UNCHANGED <<feed, heard, ledger, minted, acts, answers>>
  BY DEF Drop
<1>2. troubles' \in Nat
  BY Troubles DEF Drop
<1>3. PICK i \in Items : pass.name \in about[i]
  BY <1>1 DEF MirrorInv, PassInv, ReadTrue
<1>4. pass.name \in Offers /\ pass.name <= minted
  BY <1>3, Bounds DEF MirrorInv, WorldInv, WorldTyped, Named
<1>5. Forward \/ UNCHANGED offer
  BY <1>1, <1>4 DEF Forward, MirrorInv, WorldInv, WorldTyped
<1>6. WorldInv'
  BY <1>1, <1>2, <1>5, WorldForward, WorldSame DEF WorldInv, layer
<1>7. Acting
  <2>1. 0 \in 0 .. MaxOffers
    BY Bounds
  <2>2. QED
    BY <1>1, <2>1, ActingIs
<1>8. PassInv'
  BY <1>1, <1>5, <1>7, PassActs DEF ledger
<1>9. QED
  BY <1>6, <1>8 DEF MirrorInv

\* Where a new offer is due, those before it are over, and the item has a return left.
LEMMA OfferIsDue ==
    ASSUME MirrorInv, at = "act", NEW i \in pass.todo, Wants(i), NewOfferDue(i)
    PROVE  /\ \A o \in about[i] : Over(o) /\ o \in seen.withdrawn \union seen.taken
           /\ Left(i)
<1> DEFINE o == Newest(about[i])
<1>1. /\ i \in Items /\ i \in Listed /\ Recorded(i) = about[i] /\ about[i] \in SUBSET Offers
  BY ToDo
<1>2. ReadTrue /\ Applying /\ BudgetRead /\ OldAreOver /\ Budgeted /\ Named
  BY DEF MirrorInv, PassInv, WorldInv
<1>3. \A p \in about[i] : p # o => Over(p) /\ p \in seen.withdrawn \union seen.taken
  BY <1>1, <1>2 DEF OldAreOver, ReadTrue
<1>4. CASE about[i] = {}
  <2>1. Newest(about[i]) = 0
    BY <1>1, <1>4, NewestIs
  <2>2. 0 \notin Released
    BY Reported, Bounds DEF Offers
  <2>3. QED
    BY <1>1, <1>2, <1>4, <2>1, <2>2 DEF Budgeted
<1>5. CASE o \in seen.withdrawn /\ about[i] # {}
  <2>1. o \in Offers /\ offer[o] = "withdrawn"
    BY <1>2, <1>5 DEF ReadTrue, InLayer
  <2>2. o \notin Released
    BY <1>2, <2>1, Reported DEF Named, Released
  <2>3. Left(i)
    BY <1>1, <1>2, <2>2 DEF Budgeted
  <2>4. QED
    BY <1>3, <1>5, <2>1, <2>3 DEF Over
<1>6. CASE o \in pass.released /\ (Spent(i) => BudgetKey(i) \in keys) /\ about[i] # {}
  <2>1. offer[o] = "taken" /\ o \in Released /\ o \in seen.taken
    BY <1>2, <1>6 DEF ReadTrue, InLayer
  <2>2. CASE BudgetKey(i) \in keys
    <3>1. BudgetOf(i) \in keys /\ ~seen.items[i].awaiting
      BY <1>1, <2>2 DEF BudgetKey, BudgetOf, Wants
    <3>2. Left(i)
      BY <1>1, <1>2, <3>1 DEF BudgetRead
    <3>3. QED
      BY <1>3, <2>1, <3>2 DEF Over
  <2>3. CASE ~Spent(i)
    <3>1. Back(i) \subseteq pass.released \intersect about[i]
      BY <1>1, <1>2, <1>6 DEF Applying, Back
    <3>2. pass.released \intersect about[i] \subseteq Back(i)
      BY <1>2 DEF ReadTrue, Back
    <3>3. Back(i) = pass.released \intersect Recorded(i)
      BY <1>1, <3>1, <3>2
    <3>4. ~(Cardinality(Back(i)) >= MaxReleases)
      BY <2>3, <3>3 DEF Spent
    <3>5. Cardinality(Back(i)) \in Nat /\ answers[i] \in Nat
      BY <1>1, BackFinite DEF MirrorInv, WorldInv, WorldTyped
    <3>6. Left(i)
      BY <3>4, <3>5, Bounds DEF Left
    <3>7. QED
      BY <1>3, <2>1, <3>6 DEF Over
  <2>4. QED
    BY <1>6, <2>2, <2>3
<1>7. QED
  BY <1>1, <1>4, <1>5, <1>6 DEF NewOfferDue

LEMMA InvRecord == ASSUME MirrorInv, NEW i \in Items, Record(i) PROVE MirrorInv'
<1>1. /\ at = "act" /\ i \in pass.todo /\ Wants(i) /\ NewOfferDue(i)
      /\ UNCHANGED <<layer, item, holder, lapsing, awaiting, keys, seen, acts, answers>>
  BY DEF Record
<1>2. troubles' \in Nat
  BY Troubles DEF Record, NoTrouble, MirrorInv, WorldInv, WorldTyped
<1>3. CASE Done(i) /\ UNCHANGED <<about, at, minted>>
  <2>1. WorldInv'
    BY <1>1, <1>2, <1>3, WorldSame DEF ledger
  <2>2. Acting
    <3>1. 0 \in 0 .. MaxOffers
      BY Bounds
    <3>2. QED
      BY <1>1, <1>3, <3>1, ActingIs DEF Done
  <2>3. PassInv'
    BY <1>1, <1>3, <2>2, PassActs DEF layer
  <2>4. QED
    BY <2>1, <2>3 DEF MirrorInv
<1>4. ASSUME /\ minted # MaxOffers /\ minted' = minted + 1
             /\ about' = [about EXCEPT ![i] = @ \union {minted + 1}]
             /\ pass' = [pass EXCEPT !.todo = @ \ {i}, !.name = minted + 1]
             /\ at' = "drop"
      PROVE  MirrorInv'
  <2> DEFINE n == minted + 1
  <2>1. /\ WorldTyped /\ Named /\ OldAreOver /\ InOrder /\ Budgeted /\ HandedBack
        /\ PassTyped /\ ReadTrue /\ Applying /\ BudgetRead
    BY DEF MirrorInv, WorldInv, PassInv
  <2>2. n \in Offers /\ minted \in Nat /\ n \in 0 .. MaxOffers
    BY <1>4, <2>1, Bounds DEF WorldTyped, Offers
  <2>3. /\ \A j \in Items : about[j] \in SUBSET Offers /\ n \notin about[j]
        /\ \A p \in about[i] : p <= n
        /\ offer[n] = "absent"
    BY <2>1, <2>2, Bounds DEF Named, WorldTyped
  <2>4. n \notin Released /\ \A k \in DOMAIN heard : heard[k].offer # n
    BY <2>1, <2>3, Reported DEF Released, Named
  <2>5. Released' = Released
    BY <1>1 DEF Released, layer
  <2>6. /\ about'[i] = about[i] \union {n} /\ about'[i] \in SUBSET Offers
        /\ \A j \in Items : j # i => about'[j] = about[j]
    BY <1>4, <2>1, <2>2 DEF WorldTyped
  <2>7. Newest(about[i] \union {n}) = n
    BY <2>2, <2>3, NewestIsOnly, Bounds DEF Offers
  <2>8. /\ \A o \in about[i] : Over(o) /\ o \in seen.withdrawn \union seen.taken
        /\ Left(i)
    BY <1>1, OfferIsDue
  <2>9. \A j \in Items : Back(j)' = Back(j)
    BY <2>4, <2>5, <2>6 DEF Back
  <2>10. \A j \in Items : Left(j)' <=> Left(j)
    BY <1>1, <2>9 DEF Left
  <2>11. /\ BudgetOf(i)' = <<"budget", n>> /\ BudgetOf(i)' \notin keys
         /\ \A j \in Items : j # i => BudgetOf(j)' = BudgetOf(j)
    <3>1. <<"budget", n>> \notin keys
      BY <2>1, <2>2, <2>4 DEF Budgeted
    <3>2. Newest(about[i])' = n
      BY <2>6, <2>7
    <3>3. \A j \in Items : j # i => Newest(about[j])' = Newest(about[j])
      BY <2>6
    <3>4. QED
      BY <3>1, <3>2, <3>3 DEF BudgetOf
  <2>12. WorldTyped'
    <3>1. minted' \in 0 .. MaxOffers
      BY <1>4, <2>2
    <3>2. about' \in [Items -> SUBSET Offers]
      BY <1>4, <2>1, <2>2 DEF WorldTyped
    <3>3. QED
      BY <1>1, <1>2, <2>1, <3>1, <3>2 DEF WorldTyped, layer
  <2>13. Named'
    <3>1. \A j \in Items : about'[j] \subseteq 1 .. minted'
      BY <1>4, <2>1, <2>2, <2>6 DEF Named
    <3>2. \A j, k \in Items : j # k => about'[j] \intersect about'[k] = {}
      BY <2>1, <2>3, <2>6 DEF Named
    <3>3. \A o \in Offers : o > minted' => offer[o] = "absent"
      BY <1>4, <2>1, <2>2, Bounds DEF Named, Offers
    <3>4. QED
      BY <1>1, <2>1, <3>1, <3>2, <3>3 DEF Named, layer
  <2>14. OldAreOver'
    <3> SUFFICES ASSUME NEW j \in Items, NEW o \in about'[j], o # Newest(about[j])' PROVE Over(o)'
      BY DEF OldAreOver
    <3>1. Over(o)' <=> Over(o)
      BY <1>1, <2>5 DEF Over, layer
    <3>2. CASE j = i
      <4>1. o # n
        BY <2>6, <2>7, <3>2
      <4>2. QED
        BY <2>6, <2>8, <3>1, <3>2, <4>1
    <3>3. CASE j # i
      <4>1. o \in about[j] /\ o # Newest(about[j])
        BY <2>6, <3>3
      <4>2. QED
        BY <2>1, <3>1, <4>1 DEF OldAreOver
    <3>4. QED
      BY <3>2, <3>3
  <2>15. InOrder'
    <3> SUFFICES ASSUME NEW j \in Items, NEW o \in about'[j], NEW p \in Back(j), p < o,
                        NEW k \in DOMAIN heard, Release(k, o)
                 PROVE  \E m \in 1 .. k : Release(m, p)
      BY <1>1, <2>9 DEF InOrder, Release, layer
    <3>1. o # n
      BY <2>4 DEF Release
    <3>2. o \in about[j]
      BY <2>6, <3>1
    <3>3. QED
      BY <2>1, <3>2 DEF InOrder
  <2>16. Budgeted'
    <3>1. \A j \in Items : Cardinality(Back(j)') <= MaxReleases + answers'[j]
      BY <1>1, <2>1, <2>9 DEF Budgeted
    <3>2. \A j \in Items : Newest(about[j])' \notin Released' => Left(j)'
      BY <2>1, <2>5, <2>6, <2>8, <2>10 DEF Budgeted
    <3>3. \A j \in Items : BudgetOf(j)' \in keys' => awaiting'[j] \/ Left(j)'
      BY <1>1, <2>1, <2>10, <2>11 DEF Budgeted
    <3>4. \A o \in Offers : <<"budget", o>> \in keys' => o \in Released'
      BY <1>1, <2>1, <2>5 DEF Budgeted
    <3>5. QED
      BY <3>1, <3>2, <3>3, <3>4 DEF Budgeted
  <2>17. HandedBack'
    BY <1>1, HandedStands DEF layer
  <2>18. /\ pass' \in Passes /\ pass'.applied = pass.applied /\ pass'.released = pass.released
         /\ pass'.todo = pass.todo \ {i} /\ pass'.name = n
    BY <1>4, <2>1, <2>2 DEF PassTyped, Passes
  <2>19. PassTyped'
    BY <1>1, <1>4, <2>1, <2>18 DEF PassTyped, layer
  <2>20. Listed' = pass.todo \ {i} /\ Listed = pass.todo /\ pass.todo \subseteq Items
    BY <1>1, <1>4, <2>1, <2>18 DEF Listed, PassTyped, Passes
  <2>21. ReadTrue'
    <3>1. \A j \in Items : \A o \in about'[j] :
             o # Newest(about[j])' => o \in seen.withdrawn \union seen.taken
      <4> SUFFICES ASSUME NEW j \in Items, NEW o \in about'[j], o # Newest(about[j])'
                   PROVE  o \in seen.withdrawn \union seen.taken
        OBVIOUS
      <4>1. CASE j = i
        <5>1. o # n
          BY <2>6, <2>7, <4>1
        <5>2. QED
          BY <2>6, <2>8, <4>1, <5>1
      <4>2. CASE j # i
        <5>1. o \in about[j] /\ o # Newest(about[j])
          BY <2>6, <4>2
        <5>2. QED
          BY <1>1, <2>1, <5>1 DEF ReadTrue
      <4>3. QED
        BY <4>1, <4>2
    <3>2. seen.ours \subseteq UNION {about'[j] : j \in Items}
      <4>1. seen.ours \subseteq UNION {about[j] : j \in Items}
        BY <2>1 DEF ReadTrue
      <4>2. \A j \in Items : about[j] \subseteq about'[j]
        BY <2>6
      <4>3. QED
        BY <4>1, <4>2
    <3>3. \A j \in Listed' : about'[j] \subseteq seen.ours
      BY <2>1, <2>6, <2>20 DEF ReadTrue
    <3>4. \E j \in Items : pass'.name \in about'[j] /\ pass'.name = Newest(about[j])'
      BY <2>6, <2>7, <2>18
    <3>5. Listed' \subseteq DOMAIN seen.items
      BY <2>1, <2>20 DEF ReadTrue
    <3>6. /\ seen.withdrawn \subseteq InLayer("withdrawn")'
               /\ seen.taken \subseteq InLayer("taken")'
          /\ pass'.released \subseteq seen.taken \intersect Released'
      BY <1>1, <2>1, <2>5, <2>18 DEF ReadTrue, InLayer, layer
    <3>7. QED
      BY <1>1, <1>4, <3>1, <3>2, <3>3, <3>4, <3>5, <3>6 DEF ReadTrue
  <2>22. Applying'
    <3> SUFFICES ASSUME NEW j \in Items, Newest(about[j])' \in pass.released
                 PROVE  Back(j) \subseteq pass.released
      BY <1>4, <2>9, <2>18 DEF Applying
    <3>1. j # i
      BY <2>1, <2>4, <2>6, <2>7 DEF ReadTrue
    <3>2. Newest(about[j]) \in pass.released
      BY <2>6, <3>1
    <3>3. QED
      BY <1>1, <2>1, <3>2 DEF Applying
  <2>23. BudgetRead'
    BY <1>1, <2>1, <2>10, <2>11, <2>20 DEF BudgetRead
  <2>24. QED
    BY <2>12, <2>13, <2>14, <2>15, <2>16, <2>17, <2>19, <2>21, <2>22, <2>23
       DEF MirrorInv, WorldInv, PassInv
<1>5. QED
  BY <1>3, <1>4 DEF Record

-----------------------------------------------------------------------------
LEMMA InvStep == ASSUME MirrorInv, [Next]_vars PROVE MirrorInv'
<1>1. CASE UNCHANGED vars
  <2>1. WorldInv'
    BY <1>1, WorldSame DEF vars, layer, ledger, MirrorInv, WorldInv, WorldTyped
  <2>2. \A i \in Items : answers[i] <= answers'[i]
    BY <1>1 DEF vars, MirrorInv, WorldInv, WorldTyped
  <2>3. PassInv'
    BY <1>1, <2>2, PassStands DEF vars, layer, ledger, Live, MirrorInv, WorldInv, WorldTyped
  <2>4. QED
    BY <2>1, <2>3 DEF MirrorInv
<1>2. CASE \E i \in Items : ActOn(i)
  BY <1>2, InvLeave, InvClaim, InvSpend, InvRecord, InvResume, InvWithdraw DEF ActOn
<1>3. CASE Apply
  BY <1>3, InvSkip, InvHandback, InvRelease, InvProgress DEF Apply
<1>4. CASE ReadPending \/ ReadReceipts \/ ReadRecorded \/ ReadItems \/ TakeReport \/ ReadAgain
  BY <1>4, InvReadPending, InvReadReceipts, InvReadRecorded, InvReadItems, InvTakeReport,
     InvReadAgain
<1>5. CASE Relist \/ Drop \/ Finish \/ GiveUp \/ \E o \in Offers : WithdrawOrphan(o)
  BY <1>5, InvRelist, InvDrop, InvEnd, InvWithdraw
<1>6. CASE \E o \in Offers : TakerTakes(o)
  BY <1>6, InvTakerTakes
<1>7. CASE \E r \in Reports : TakerReports(r)
  BY <1>7, InvTakerReports
<1>8. CASE \E i \in Items :
              \/ LeaseAges(i) \/ LeaseLapses(i)
              \/ Close(i, "closed") \/ Close(i, "gone") \/ Reopen(i) \/ Answer(i)
              \/ ClaimHere(i) \/ ReleaseHere(i)
  BY <1>8, InvLedger
<1>9. QED
  BY <1>1, <1>2, <1>3, <1>4, <1>5, <1>6, <1>7, <1>8 DEF Next, PassStep

\* While the page is followed instead, the mirror stays as it began.
LEMMA PartsMove == [PartsNext]_all => [Next]_vars
BY DEF PartsNext, all

LEMMA Always == PartsSpec => []MirrorInv
<1>1. PartsInit => MirrorInv
  BY InvInit DEF PartsInit
<1>2. MirrorInv /\ [PartsNext]_all => MirrorInv'
  BY InvStep, PartsMove
<1>3. QED
  BY <1>1, <1>2, PTL DEF PartsSpec

-----------------------------------------------------------------------------
(* Work in the layer is WorkPlace's.                                       *)

\* An item's place is that of its newest offer.
Places ==
    \A i \in Items :
        /\ LiveOffers(i) \subseteq {Newest(about[i])}
        /\ LiveOffers(i) = {} => Place(i) = <<"here">>
        /\ \A o \in about[i] : offer[o] = "pending" =>
              Place(i) = <<"offer", o>> /\ LiveOffers(i) = {o}
        /\ \A o \in about[i] : offer[o] = "taken" /\ o \notin Released =>
              Place(i) = <<"out", o>> /\ LiveOffers(i) = {o}

LEMMA Placed == MirrorInv => Places
<1> SUFFICES ASSUME MirrorInv, NEW i \in Items
             PROVE  /\ LiveOffers(i) \subseteq {Newest(about[i])}
                    /\ LiveOffers(i) = {} => Place(i) = <<"here">>
                    /\ \A o \in about[i] : offer[o] = "pending" =>
                          Place(i) = <<"offer", o>> /\ LiveOffers(i) = {o}
                    /\ \A o \in about[i] : offer[o] = "taken" /\ o \notin Released =>
                          Place(i) = <<"out", o>> /\ LiveOffers(i) = {o}
  BY DEF Places
<1>1. LiveOffers(i) \subseteq {Newest(about[i])}
  BY DEF LiveOffers, MirrorInv, WorldInv, OldAreOver, Over
<1>2. LiveOffers(i) = {} => Place(i) = <<"here">>
  BY DEF Place
<1>3. ASSUME NEW o \in about[i], offer[o] = "pending" \/ (offer[o] = "taken" /\ o \notin Released)
      PROVE  /\ LiveOffers(i) = {o}
             /\ Place(i) = <<IF offer[o] = "pending" THEN "offer" ELSE "out", o>>
  <2>1. LiveOffers(i) = {o}
    BY <1>1, <1>3 DEF LiveOffers
  <2>2. o \in Offers
    BY DEF MirrorInv, WorldInv, WorldTyped
  <2>3. {o} \in SUBSET Offers /\ \A p \in {o} : p <= o
    BY <2>2, Bounds DEF Offers
  <2>4. Newest({o}) = o
    BY <2>3, NewestIsOnly
  <2>5. QED
    BY <2>1, <2>4 DEF Place
<1>4. QED
  BY <1>1, <1>2, <1>3

LEMMA OnePlace == MirrorInv => OnePlaceOfWork
<1> SUFFICES ASSUME MirrorInv, NEW i \in Items PROVE Cardinality(LiveOffers(i)) <= 1
  BY DEF OnePlaceOfWork
<1>1. LiveOffers(i) = {} \/ LiveOffers(i) = {Newest(about[i])}
  BY Placed DEF Places
<1>2. QED
  BY <1>1, FS_EmptySet, FS_Singleton

\* Where the layer's offers and the releases stay, and nothing that is open is recorded anew.
LEMMA PlacesStand ==
    ASSUME offer' = offer, Released' = Released,
           \A j \in Items : about[j] \subseteq about'[j]
                            /\ \A o \in about'[j] \ about[j] : offer[o] = "absent"
    PROVE  UNCHANGED <<[i \in Items |-> Place(i)], Offers \ InLayer("absent"), Released>>
<1>1. \A j \in Items : LiveOffers(j)' = LiveOffers(j)
  BY DEF LiveOffers
<1>2. \A j \in Items : Place(j)' = Place(j)
  BY <1>1 DEF Place
<1>3. InLayer("absent")' = InLayer("absent")
  BY DEF InLayer
<1>4. QED
  BY <1>2, <1>3

\* One offer moves, recorded on no item but this one.
LEMMA OthersStand ==
    ASSUME MirrorInv, NEW o \in Offers, NEW i \in Items,
           o \in about[i] \/ \A j \in Items : o \notin about[j], about' = about,
           \A p \in Offers : p # o => offer'[p] = offer[p]
                                     /\ (p \in Released' <=> p \in Released)
    PROVE  \A j \in Items : (j # i \/ o \notin about[i]) => Place(j)' = Place(j)
<1> SUFFICES ASSUME NEW j \in Items, j # i \/ o \notin about[i] PROVE Place(j)' = Place(j)
  OBVIOUS
<1>1. o \notin about[j] /\ about[j] \in SUBSET Offers
  BY DEF MirrorInv, WorldInv, WorldTyped, Named
<1>2. LiveOffers(j)' = LiveOffers(j)
  BY <1>1 DEF LiveOffers
<1>3. \A p \in about[j] : offer'[p] = offer[p]
  BY <1>1
<1>4. CASE LiveOffers(j) = {}
  BY <1>2, <1>4 DEF Place
<1>5. CASE LiveOffers(j) # {}
  <2>1. LiveOffers(j) \in SUBSET Offers /\ LiveOffers(j) \subseteq about[j]
    BY <1>1 DEF LiveOffers
  <2>2. Newest(LiveOffers(j)) \in about[j]
    BY <1>5, <2>1, NewestIs
  <2>3. offer'[Newest(LiveOffers(j))] = offer[Newest(LiveOffers(j))]
    BY <1>3, <2>2
  <2>4. QED
    BY <1>2, <2>3 DEF Place
<1>6. QED
  BY <1>4, <1>5

\* The offer of a dropped name is that of an item whose work was here.
LEMMA DropOffers ==
    ASSUME MirrorInv, MirrorInv', Drop
    PROVE  [Work!Next]_<<[i \in Items |-> Place(i)], Offers \ InLayer("absent"), Released>>
<1>1. /\ UNCHANGED <<heard, about>> /\ Released' = Released
      /\ \/ offer' = offer
         \/ offer' = [offer EXCEPT ![pass.name] = IF @ = "absent" THEN "pending" ELSE @]
  BY DEF Drop, Released, ledger
<1>2. PICK i \in Items : pass.name \in about[i] /\ pass.name = Newest(about[i])
  BY DEF Drop, MirrorInv, PassInv, ReadTrue
<1> DEFINE o == pass.name
<1>3. o \in Offers /\ offer \in [Offers -> {"absent", "pending", "withdrawn", "taken"}]
  BY <1>2 DEF MirrorInv, WorldInv, WorldTyped
<1> HIDE DEF o
<1>4. CASE offer' = offer
  BY <1>1, <1>4, PlacesStand
<1>5. CASE offer[o] # "absent"
             /\ offer' = [offer EXCEPT ![o] = IF @ = "absent" THEN "pending" ELSE @]
  <2>1. offer' = offer
    BY <1>3, <1>5
  <2>2. QED
    BY <1>1, <2>1, PlacesStand
<1>6. CASE offer[o] = "absent"
             /\ offer' = [offer EXCEPT ![o] = IF @ = "absent" THEN "pending" ELSE @]
  <2>1. offer'[o] = "pending" /\ \A p \in Offers : p # o => offer'[p] = offer[p]
    BY <1>3, <1>6
  <2>2. o \in about[i] /\ o = Newest(about[i])
    BY <1>2 DEF o
  <2>3. LiveOffers(i) = {}
    <3>1. LiveOffers(i) \subseteq {o} /\ o \notin LiveOffers(i)
      BY <1>6, <2>2, Placed DEF Places, LiveOffers
    <3>2. QED
      BY <3>1
  <2>4. Place(i) = <<"here">>
    BY <2>3, Placed DEF Places
  <2>5. Place(i)' = <<"offer", o>>
    <3>1. Places'
      BY Placed, PTL
    <3>2. o \in about'[i]
      BY <1>1, <2>2
    <3>3. QED
      BY <2>1, <3>1, <3>2 DEF Places
  <2>6. \A j \in Items : j # i => Place(j)' = Place(j)
    BY <1>1, <1>3, <2>1, <2>2, OthersStand
  <2>7. /\ o \notin Offers \ InLayer("absent")
        /\ (Offers \ InLayer("absent"))' = (Offers \ InLayer("absent")) \union {o}
    BY <1>3, <1>6, <2>1 DEF InLayer
  <2>8. Work!Offer(i, o)
    BY <1>1, <2>4, <2>5, <2>6, <2>7 DEF Work!Offer, Work!Moves, Work!Here, Work!OnOffer
  <2>9. QED
    BY <1>3, <2>8 DEF Work!Next
<1>7. QED
  BY <1>1, <1>4, <1>5, <1>6 DEF o

\* An open offer is withdrawn, or taken.
LEMMA OpenCloses ==
    ASSUME MirrorInv, MirrorInv', NEW o \in Offers, NEW s \in {"withdrawn", "taken"},
           offer[o] = "pending", offer' = [offer EXCEPT ![o] = s], UNCHANGED <<heard, about>>
    PROVE  [Work!Next]_<<[i \in Items |-> Place(i)], Offers \ InLayer("absent"), Released>>
<1>1. Released' = Released /\ offer \in [Offers -> {"absent", "pending", "withdrawn", "taken"}]
  BY DEF Released, MirrorInv, WorldInv, WorldTyped
<1>2. offer'[o] = s /\ \A p \in Offers : p # o => offer'[p] = offer[p]
  BY <1>1
<1>3. (Offers \ InLayer("absent"))' = Offers \ InLayer("absent")
  BY <1>1, <1>2 DEF InLayer
<1>4. CASE \A i \in Items : o \notin about[i]
  <2>1. \A i \in Items : Place(i)' = Place(i)
    BY <1>1, <1>2, <1>4, OthersStand
  <2>2. QED
    BY <1>1, <1>3, <2>1
<1>5. ASSUME NEW i \in Items, o \in about[i]
      PROVE  [Work!Next]_<<[j \in Items |-> Place(j)], Offers \ InLayer("absent"), Released>>
  <2>1. \A j \in Items : j # i => Place(j)' = Place(j)
    BY <1>1, <1>2, <1>5, OthersStand
  <2>2. Place(i) = <<"offer", o>> /\ LiveOffers(i) = {o}
    BY <1>5, Placed DEF Places
  <2>3. o \in about'[i]
    BY <1>5
  <2>4. CASE s = "taken"
    <3>1. o \notin Released
      BY Reported DEF MirrorInv, WorldInv, Named, Released
    <3>2. Places'
      BY Placed, PTL
    <3>3. Place(i)' = <<"out", o>>
      BY <1>1, <1>2, <2>3, <2>4, <3>1, <3>2 DEF Places
    <3>4. Work!Take(i, o)
      BY <1>1, <1>3, <2>1, <2>2, <3>3 DEF Work!Take, Work!Moves, Work!OnOffer, Work!Out
    <3>5. QED
      BY <3>4 DEF Work!Next
  <2>5. CASE s = "withdrawn"
    <3>1. LiveOffers(i)' = {}
      <4>1. about[i] \in SUBSET Offers
        BY DEF MirrorInv, WorldInv, WorldTyped
      <4>2. \A p \in about[i] : p \notin LiveOffers(i)'
        BY <1>1, <1>2, <2>2, <2>5, <4>1 DEF LiveOffers
      <4>3. QED
        BY <4>2 DEF LiveOffers
    <3>2. Place(i)' = <<"here">>
      BY <3>1 DEF Place
    <3>3. Work!Withdraw(i, o)
      BY <1>1, <1>3, <2>1, <2>2, <3>2 DEF Work!Withdraw, Work!Moves, Work!OnOffer, Work!Here
    <3>4. QED
      BY <3>3 DEF Work!Next
  <2>6. QED
    BY <2>4, <2>5
<1>6. QED
  BY <1>4, <1>5

\* A first release gives an item's work back.
LEMMA HearingGivesBack ==
    ASSUME MirrorInv, MirrorInv', TakeReport
    PROVE  [Work!Next]_<<[i \in Items |-> Place(i)], Offers \ InLayer("absent"), Released>>
<1> DEFINE r == feed[NextReport]
<1>1. /\ seen.reports # {} /\ UNCHANGED <<offer, feed, ledger, minted, acts, answers>>
      /\ \/ r.offer \in seen.ours /\ heard' = Append(heard, r)
         \/ heard' = heard
  BY DEF TakeReport
<1>2. about' = about /\ troubles' \in Nat
  BY <1>1, Troubles DEF TakeReport, ledger
<1>3. r \in Elements(feed) /\ r.offer \in Offers
  BY <1>1, NextReportIs, Reported
<1> HIDE DEF r
<1>4. CASE Released' = Released
  BY <1>1, <1>2, <1>4, PlacesStand
<1>5. CASE Released' # Released
  <2>1. heard' # heard
    BY <1>5 DEF Released
  <2>2. r.offer \in seen.ours /\ Hears(r)
    BY <1>1, <1>2, <2>1 DEF Hears
  <2>3. PICK i \in Items : r.offer \in about[i]
    BY <2>2 DEF MirrorInv, PassInv, ReadTrue
  <2>4. Released' = Released \union {r.offer} /\ r.offer \notin Released
    <3>1. Released' = Released \union (IF r.kind = "release" THEN {r.offer} ELSE {})
      BY <1>3, <2>2, <2>3, HearingCounts
    <3>2. QED
      BY <1>5, <3>1
  <2>5. offer[r.offer] = "taken" /\ offer' = offer
    BY <1>1, <1>3 DEF MirrorInv, WorldInv, Named
  <2>6. Place(i) = <<"out", r.offer>> /\ LiveOffers(i) = {r.offer}
    BY <2>3, <2>4, <2>5, Placed DEF Places
  <2>7. LiveOffers(i)' = {}
    <3>1. \A p \in about[i] : p \notin LiveOffers(i)'
      BY <2>4, <2>5, <2>6 DEF LiveOffers
    <3>2. QED
      BY <1>2, <3>1 DEF LiveOffers
  <2>8. Place(i)' = <<"here">>
    BY <2>7 DEF Place
  <2>9. \A j \in Items : j # i => Place(j)' = Place(j)
    BY <1>2, <1>3, <2>3, <2>4, <2>5, OthersStand
  <2>10. InLayer("absent")' = InLayer("absent")
    BY <2>5 DEF InLayer
  <2>11. Work!GiveBack(i, r.offer)
    BY <2>4, <2>6, <2>8, <2>9, <2>10 DEF Work!GiveBack, Work!Moves, Work!Out, Work!Here
  <2>12. QED
    BY <1>3, <2>11 DEF Work!Next
<1>6. QED
  BY <1>4, <1>5

\* Every step is one of WorkPlace's, or leaves every item's work where it is.
LEMMA WorkSteps ==
    ASSUME MirrorInv, MirrorInv', [Next]_vars
    PROVE  [Work!Next]_<<[i \in Items |-> Place(i)], Offers \ InLayer("absent"), Released>>
<1>1. CASE Drop
  BY <1>1, DropOffers
<1>2. CASE TakeReport
  BY <1>2, HearingGivesBack
<1>3. ASSUME NEW o \in Offers, TakerTakes(o)
      PROVE  [Work!Next]_<<[i \in Items |-> Place(i)], Offers \ InLayer("absent"), Released>>
  BY <1>3, OpenCloses DEF TakerTakes, ledger
<1>4. ASSUME NEW o \in Offers, WithdrawOrphan(o) \/ \E i \in Items : Withdraw(i, o)
      PROVE  [Work!Next]_<<[i \in Items |-> Place(i)], Offers \ InLayer("absent"), Released>>
  <2>1. /\ UNCHANGED <<heard, about>> /\ Released' = Released
        /\ offer' = offer \/ offer' = [offer EXCEPT ![o] = IF @ = "pending" THEN "withdrawn" ELSE @]
    BY <1>4 DEF WithdrawOrphan, Withdraw, ledger, Released
  <2>2. offer \in [Offers -> {"absent", "pending", "withdrawn", "taken"}]
    BY DEF MirrorInv, WorldInv, WorldTyped
  <2>3. CASE offer' = offer
    BY <2>1, <2>3, PlacesStand
  <2>4. CASE offer' # offer
    <3>1. offer[o] = "pending" /\ offer' = [offer EXCEPT ![o] = "withdrawn"]
      BY <2>1, <2>2, <2>4
    <3>2. QED
      BY <2>1, <3>1, OpenCloses
  <2>5. QED
    BY <2>3, <2>4
<1>5. ASSUME NEW i \in Items, Record(i)
      PROVE  [Work!Next]_<<[j \in Items |-> Place(j)], Offers \ InLayer("absent"), Released>>
  <2>1. offer' = offer /\ Released' = Released
    BY <1>5 DEF Record, layer, Released
  <2>2. \A j \in Items : about[j] \subseteq about'[j]
                         /\ \A o \in about'[j] \ about[j] : offer[o] = "absent"
    <3>1. CASE about' = about
      BY <3>1
    <3>2. CASE minted # MaxOffers /\ about' = [about EXCEPT ![i] = @ \union {minted + 1}]
      <4>1. minted + 1 \in Offers /\ minted + 1 > minted
        BY <3>2, Bounds DEF MirrorInv, WorldInv, WorldTyped, Offers
      <4>2. offer[minted + 1] = "absent"
        BY <4>1 DEF MirrorInv, WorldInv, Named
      <4>3. QED
        BY <3>2, <4>2 DEF MirrorInv, WorldInv, WorldTyped
    <3>3. QED
      BY <1>5, <3>1, <3>2 DEF Record
  <2>3. QED
    BY <2>1, <2>2, PlacesStand
<1>6. ASSUME UNCHANGED <<offer, heard, about>>
      PROVE  [Work!Next]_<<[j \in Items |-> Place(j)], Offers \ InLayer("absent"), Released>>
  <2>1. Released' = Released
    BY <1>6 DEF Released
  <2>2. QED
    BY <1>6, <2>1, PlacesStand
<1> USE DEF layer, ledger
<1>7. CASE ReadPending \/ ReadReceipts \/ ReadRecorded \/ ReadItems \/ ReadAgain \/ Relist
  BY <1>6, <1>7 DEF ReadPending, ReadReceipts, ReadRecorded, ReadItems, ReadAgain, Relist
<1>8. CASE Apply
  <2>1. CASE SkipReport
    BY <1>6, <2>1 DEF SkipReport
  <2>2. CASE \E r \in Reports, i \in Items :
                ApplyHandback(r, i) \/ ApplyRelease(r, i) \/ ApplyProgress(r, i)
    <3>1. PICK r \in Reports, i \in Items :
                  ApplyHandback(r, i) \/ ApplyRelease(r, i) \/ ApplyProgress(r, i)
      BY <2>2
    <3>2. CASE ApplyHandback(r, i)
      <4>1. UNCHANGED <<offer, heard, about>>
        BY <3>2 DEF ApplyHandback
      <4>2. QED
        BY <4>1, <1>6
    <3>3. CASE ApplyRelease(r, i)
      <4>1. UNCHANGED <<offer, heard, about>>
        BY <3>3 DEF ApplyRelease
      <4>2. QED
        BY <4>1, <1>6
    <3>4. CASE ApplyProgress(r, i)
      <4>1. UNCHANGED <<offer, heard, about>>
        BY <3>4 DEF ApplyProgress
      <4>2. QED
        BY <4>1, <1>6
    <3>5. QED
      BY <3>1, <3>2, <3>3, <3>4
  <2>3. QED
    BY <1>8, <2>1, <2>2 DEF Apply
<1>9. CASE Finish \/ GiveUp \/ UNCHANGED vars
  BY <1>6, <1>9 DEF Finish, GiveUp, vars
<1>10. CASE \E i \in Items : LeaveItem(i) \/ ClaimFor(i) \/ SpendBudget(i) \/ Resume(i)
  BY <1>6, <1>10 DEF LeaveItem, ClaimFor, SpendBudget, Resume
<1>11. CASE \E r \in Reports : TakerReports(r)
  BY <1>6, <1>11 DEF TakerReports
<1>12. CASE \E i \in Items :
               \/ LeaseAges(i) \/ LeaseLapses(i)
               \/ Close(i, "closed") \/ Close(i, "gone") \/ Reopen(i) \/ Answer(i)
               \/ ClaimHere(i) \/ ReleaseHere(i)
  BY <1>6, <1>12 DEF LeaseAges, LeaseLapses, Close, Reopen, Answer, ClaimHere, ReleaseHere
<1>13. CASE \E i \in Items : ActOn(i)
  BY <1>4, <1>5, <1>10, <1>13 DEF ActOn
<1> HIDE DEF layer, ledger
<1>14. QED
  BY <1>1, <1>2, <1>3, <1>4, <1>7, <1>8, <1>9, <1>11, <1>12, <1>13 DEF Next, PassStep

LEMMA WorkBegins == Init => Work!Init
<1> SUFFICES ASSUME Init PROVE Work!Init
  OBVIOUS
<1>1. MirrorInv /\ \A i \in Items : LiveOffers(i) = {}
  BY InvInit DEF Init, LiveOffers
<1>2. \A i \in Items : Place(i) = <<"here">>
  BY <1>1 DEF Place
<1>3. Offers \ InLayer("absent") = {} /\ Released = {}
  BY DEF Init, InLayer, Released
<1>4. QED
  BY <1>2, <1>3 DEF Work!Init, Work!Here

\* mirror.rs, "the difference from what SHOULD be": whatever fails or races, an item's work is
\* here, on offer under one name, or out with the taker of one; a name never serves twice, an
\* open offer is withdrawn or taken and nothing else, and a take stands until its release.
THEOREM WorkIsInOnePlace == PartsSpec => ImplementsWorkPlace
<1>1. PartsInit => Work!Init
  BY WorkBegins DEF PartsInit
<1>2. MirrorInv /\ MirrorInv' /\ [PartsNext]_all
        => [Work!Next]_<<[i \in Items |-> Place(i)], Offers \ InLayer("absent"), Released>>
  BY WorkSteps, PartsMove
<1>3. QED
  BY <1>1, <1>2, Always, OnePlace, PTL DEF PartsSpec, ImplementsWorkPlace, Work!Spec

-----------------------------------------------------------------------------
(* What comes back is bounded, and only news interrupts.                   *)

\* The greatest of the positions that are counted bounds how many there are.
LEMMA HandbacksBounded ==
    ASSUME MirrorInv, NEW o \in Offers
    PROVE  Cardinality({key \in keys : key[1] = "handback" /\ key[2].offer = o}) <= MaxHandbacks
<1> DEFINE K == {key \in keys : key[1] = "handback" /\ key[2].offer = o}
           H(n) == {k \in 1 .. n : heard[k].kind = "handback" /\ heard[k].offer = o}
           P == {k \in DOMAIN heard : k \in H(k) /\ HandbacksOn(o, k) <= MaxHandbacks}
<1>1. keys \subseteq Keyed /\ heard \in Seq(Reports) /\ HandedBack
  BY DEF MirrorInv, WorldInv, WorldTyped
<1>2. \A key \in K : key[2] \in Reports /\ key = <<"handback", key[2]>>
  BY <1>1 DEF Keyed
<1>3. \A key \in K : \E k \in P : heard[k] = key[2]
  <2> SUFFICES ASSUME NEW key \in K PROVE \E k \in P : heard[k] = key[2]
    OBVIOUS
  <2>1. PICK k \in DOMAIN heard : /\ heard[k] = key[2] /\ key[2].kind = "handback"
                                  /\ HandbacksOn(key[2].offer, k) <= MaxHandbacks
    BY <1>1, <1>2 DEF HandedBack
  <2>2. k \in H(k) /\ key[2].offer = o
    BY <1>1, <2>1
  <2>3. QED
    BY <2>1, <2>2
<1>4. CASE P = {}
  <2>1. K = {}
    BY <1>3, <1>4
  <2>2. QED
    BY <2>1, FS_EmptySet, Bounds
<1>5. CASE P # {}
  <2>1. PICK m \in P : \A k \in P : k <= m
    <3> DEFINE T == {Len(heard) - k : k \in P}
    <3>1. P \subseteq 1 .. Len(heard) /\ Len(heard) \in Nat
      BY <1>1
    <3>2. T \in SUBSET Nat /\ T # {}
      BY <1>5, <3>1
    <3>3. PICK n \in T : \A j \in T : n <= j
      BY <3>2, LeastOf
    <3>4. PICK m \in P : n = Len(heard) - m
      BY <3>3
    <3>5. \A k \in P : Len(heard) - m <= Len(heard) - k
      BY <3>3, <3>4
    <3>6. \A k \in P : k <= m
      BY <3>1, <3>5
    <3>7. QED
      BY <3>6
  <2>2. m \in Nat /\ m \in DOMAIN heard /\ HandbacksOn(o, m) <= MaxHandbacks
    BY <1>1
  <2>3. H(m) \in SUBSET (1 .. m) /\ IsFiniteSet(1 .. m)
    BY <2>2, FS_Interval
  <2>4. IsFiniteSet(H(m)) /\ Cardinality(H(m)) \in Nat
    BY <2>3, FS_Subset, FS_CardinalityType
  <2>5. Cardinality(H(m)) <= MaxHandbacks
    BY <2>2 DEF HandbacksOn
  <2>6. P \subseteq H(m)
    BY <1>1, <2>1, <2>2
  <2> DEFINE f == [key \in K |-> CHOOSE k \in P : heard[k] = key[2]]
  <2>7. \A key \in K : f[key] \in H(m) /\ heard[f[key]] = key[2]
    BY <1>3, <2>6
  <2>12. f = [key \in K |-> f[key]]
    OBVIOUS
  <2> HIDE DEF f, K, H, P
  <2>13. \A a, b \in K : f[a] = f[b] => a = b
    BY <1>2, <2>7
  <2>14. f \in [K -> H(m)]
    BY <2>7, <2>12
  <2>8. f \in Injection(K, H(m))
    BY <2>13, <2>14, Fun_IsInj
  <2>9. IsFiniteSet(K) /\ Cardinality(K) <= Cardinality(H(m))
    BY <2>4, <2>8, FS_Injection
  <2>10. Cardinality(K) \in Nat
    BY <2>9, FS_CardinalityType
  <2>11. QED
    BY <2>4, <2>5, <2>9, <2>10, Bounds DEF K
<1>6. QED
  BY <1>4, <1>5

LEMMA Bounded == MirrorInv => ReturnsAreBounded
BY HandbacksBounded DEF ReturnsAreBounded, MirrorInv, WorldInv, Budgeted, Back

\* An item begins to wait in two places, and in both with a key that is new and of its newest.
LEMMA NewsInterrupts ==
    ASSUME MirrorInv, [Next]_vars, NEW i \in Items, ~awaiting[i], awaiting'[i]
    PROVE  \E key \in keys' \ keys :
              Newest(about[i]) = IF key[1] = "budget" THEN key[2] ELSE key[2].offer
<1>1. awaiting \in [Items -> BOOLEAN]
  BY DEF MirrorInv, WorldInv, WorldTyped
<1>2. ASSUME NEW j \in Items, NEW key, NEW handback,
             Comment(j, key, handback),
             Newest(about[j]) = IF key[1] = "budget" THEN key[2] ELSE key[2].offer
      PROVE  \E k \in keys' \ keys :
                Newest(about[i]) = IF k[1] = "budget" THEN k[2] ELSE k[2].offer
  <2>1. j = i
    BY <1>1, <1>2 DEF Comment
  <2>2. item[i] = "open" /\ key \notin keys
    BY <1>1, <1>2, <2>1 DEF Comment
  <2>3. key \in keys'
    BY <1>2, <2>1, <2>2 DEF Comment
  <2>4. QED
    BY <1>2, <2>1, <2>2, <2>3
<1>3. ASSUME NEW r \in Reports, NEW j \in Items, ApplyHandback(r, j)
      PROVE  \E key \in keys' \ keys :
                Newest(about[i]) = IF key[1] = "budget" THEN key[2] ELSE key[2].offer
  <2>1. Current(r, j) /\ Recorded(j) = about[j]
    BY <1>3, CurrentIs DEF ApplyHandback
  <2>2. Comment(j, <<"handback", r>>, IsNewest(j, r.offer) /\ seen.items[j].open)
    BY <1>3 DEF ApplyHandback
  <2>3. IsNewest(j, r.offer)
    BY <1>1, <2>2 DEF Comment
  <2>4. Newest(about[j]) = r.offer
    BY <2>1, <2>3 DEF IsNewest
  <2>5. <<"handback", r>>[1] # "budget" /\ <<"handback", r>>[2].offer = r.offer
    OBVIOUS
  <2>6. QED
    BY <1>2, <2>2, <2>4, <2>5
<1>4. ASSUME NEW j \in Items, SpendBudget(j)
      PROVE  \E key \in keys' \ keys :
                Newest(about[i]) = IF key[1] = "budget" THEN key[2] ELSE key[2].offer
  <2>1. Recorded(j) = about[j]
    BY <1>4, ToDo DEF SpendBudget
  <2>2. Comment(j, BudgetKey(j), TRUE)
    BY <1>4 DEF SpendBudget
  <2>3. BudgetKey(j)[1] = "budget" /\ BudgetKey(j)[2] = Newest(about[j])
    BY <2>1 DEF BudgetKey
  <2>4. QED
    BY <1>2, <2>2, <2>3
<1>5. ASSUME \A j \in Items : awaiting'[j] => awaiting[j] PROVE FALSE
  BY <1>5
<1> USE DEF layer, ledger
<1>6. CASE ReadPending \/ ReadReceipts \/ ReadRecorded \/ ReadItems \/ ReadAgain \/ Relist
  BY <1>6 DEF ReadPending, ReadReceipts, ReadRecorded, ReadItems, ReadAgain, Relist
<1>7. CASE TakeReport \/ Drop \/ Finish \/ GiveUp \/ UNCHANGED vars
  BY <1>7 DEF TakeReport, Drop, Finish, GiveUp, vars
<1>8. CASE Apply
  BY <1>3, <1>8 DEF Apply, SkipReport, ApplyRelease, ApplyProgress
<1>9. CASE \E j \in Items : ActOn(j)
  BY <1>4, <1>9 DEF ActOn, LeaveItem, ClaimFor, Record, Resume, Withdraw
<1>10. CASE \/ \E o \in Offers : TakerTakes(o) \/ WithdrawOrphan(o)
            \/ \E r \in Reports : TakerReports(r)
  BY <1>10 DEF TakerTakes, TakerReports, WithdrawOrphan
<1>11. CASE \E j \in Items :
               \/ LeaseAges(j) \/ LeaseLapses(j)
               \/ Close(j, "closed") \/ Close(j, "gone") \/ Reopen(j) \/ Answer(j)
               \/ ClaimHere(j) \/ ReleaseHere(j)
  BY <1>1, <1>11 DEF LeaseAges, LeaseLapses, Close, Reopen, Answer, ClaimHere, ReleaseHere
<1> HIDE DEF layer, ledger
<1>12. QED
  BY <1>6, <1>7, <1>8, <1>9, <1>10, <1>11 DEF Next, PassStep

\* mirror.rs, MAX_RELEASES and MAX_HANDBACKS: an item that its takers keep releasing is offered
\* again, and one offer's hand-backs interrupt its dispatcher, only so often, however many passes
\* apply the same reports; and an item begins to wait only for something not said before, about
\* its newest offer.
THEOREM ReturnsAreFew == PartsSpec => ReturnsStayBounded
<1>1. MirrorInv /\ [PartsNext]_all =>
        [\A i \in Items : ~awaiting[i] /\ awaiting'[i] =>
            \E key \in keys' \ keys :
               Newest(about[i]) = IF key[1] = "budget" THEN key[2] ELSE key[2].offer]_vars
  BY NewsInterrupts, PartsMove
<1>2. QED
  BY <1>1, Always, Bounded, PTL DEF PartsSpec, ReturnsStayBounded, OnlyNewsInterrupts

-----------------------------------------------------------------------------
(* The page, for any channels, tuplespaces, feeds, tabs and bounds v: the   *)
(* three of the run are View(v) with constants of their own.               *)

LayersOf(v) == v.channels \cup v.spaces

\* The door: nothing is written past the bound, and without a restore there is one generation.
DoorInv(v) ==
    /\ restores \in Nat /\ granted \subseteq LayersOf(v)
    /\ log = [l \in LayersOf(v) |-> log[l]]
    /\ \A l \in LayersOf(v) :
          /\ log[l] \in Seq([of : Nat, gen : Nat]) /\ Len(log[l]) <= v.last
          /\ restores = 0 => \A i \in 1 .. Len(log[l]) : log[l][i].gen = 0

\* What is kept of a layer, in the copy or in an answer that is being drawn.
CopyInv(v, l, c) ==
    /\ c \in View(v)!Copies /\ c.last <= v.last
    /\ \A e \in c.entries \cup c.taken : e[1] \in 1 .. v.last
    /\ IsFiniteSet(c.entries)
    /\ l \in v.channels => Cardinality(c.entries) <= v.window

\* While no log was cut: what is kept was read of the log, of a channel all of the window.
ReadOf(v, l, c, s) ==
    /\ c.last <= Len(s) /\ (~c.synced => c.last = 0)
    /\ \A e \in c.entries : e[1] \in 1 .. Len(s) /\ e[2] = 0
    /\ l \in v.channels => \A i \in 1 .. c.last : i + v.window > c.last => <<i, 0>> \in c.entries
    /\ l \in v.spaces => \A e \in c.entries : s[e[1]].of = 0

CopyIs(v, l, c, s, r) == CopyInv(v, l, c) /\ (r = 0 => ReadOf(v, l, c, s))

KnownOf(v) == {l \in LayersOf(v) : copy[l] # None}

CopiesInv(v) ==
    /\ copy = [l \in LayersOf(v) |-> copy[l]]
    /\ \A l \in KnownOf(v) : CopyIs(v, l, copy[l], log[l], restores)

Steps == {"off", "top", "next", "read", "taken", "poll", "heard", "sleep"}
Followers(v) == [at : Steps, phase : {"sync", "unfed", "events"}, todo : SUBSET LayersOf(v),
                 layer : LayersOf(v) \cup {None}, to : 0 .. v.last + 1,
                 got : SUBSET (Nat \X Nat), tops : [LayersOf(v) -> 0 .. v.last]]

\* The follower: what it reads is known, and nobody else reads meanwhile.
FollowerInv(v) ==
    /\ follower \in Followers(v)
    /\ sync \in {None, "follower"} /\ saying \in v.channels \cup {None}
    /\ sync = "follower" <=> follower.at \in {"next", "read", "taken"}
    /\ follower.at \in {"next", "read", "taken"} => follower.todo \subseteq KnownOf(v)
    /\ follower.at \in {"read", "taken"} => follower.layer \in KnownOf(v)
    /\ follower.at = "taken" => /\ follower.layer \in v.spaces
                                /\ \A e \in follower.got : e[1] \in 1 .. v.last
                                /\ IsFiniteSet(follower.got)

\* While no log was cut: it reads up to positions that the door has, and a tuple of the copy
\* that it did not find again is one that was taken.
FollowerTrue(v) ==
    /\ \A l \in LayersOf(v) : follower.tops[l] <= Len(log[l])
    /\ follower.at \in {"read", "taken"} =>
          follower.to = v.last + 1 \/ follower.to <= Len(log[follower.layer])
    /\ follower.at = "taken" =>
          LET l == follower.layer
          IN  /\ \A e \in follower.got :
                    e[1] \in 1 .. Len(log[l]) /\ e[2] = 0 /\ log[l][e[1]].of = 0
              /\ \A e \in copy[l].entries :
                    e \in follower.got \/ \E j \in 1 .. Len(log[l]) : log[l][j].of = e[1]

\* The pages and the answers on their way to them.
AskIs(v, t) ==
    ask[t] # None =>
       /\ ask[t].layer \in LayersOf(v) /\ ask[t].opens \in BOOLEAN
       /\ CopyIs(v, ask[t].layer, ask[t].found, log[ask[t].layer], restores)
       /\ ~ask[t].opens => page[t] # None /\ page[t].layer = ask[t].layer

PagesInv(v) ==
    /\ cursor \in [LayersOf(v) -> 0 .. v.last] /\ sent = [l \in LayersOf(v) |-> sent[l]]
    /\ page = [t \in v.tabs |-> page[t]] /\ ask = [t \in v.tabs |-> ask[t]]
    /\ \A t \in v.tabs : /\ AskIs(v, t)
                         /\ page[t] # None => /\ page[t].layer \in LayersOf(v)
                                              /\ page[t].after \in 0 .. v.last

\* While no log was cut: what lies below a cursor, or below the position that a page asks from,
\* was sent; and the page has it, unless it was too old by then.
PageIs(v, t) ==
    page[t] # None /\ page[t].layer \in v.channels =>
       /\ page[t].after <= Len(log[page[t].layer])
       /\ \A i \in 1 .. page[t].after : /\ i \in sent[page[t].layer]
                                        /\ <<i, 0>> \in page[t].has \/ i \in page[t].aged

PagesTrue(v) ==
    /\ \A l \in v.channels : \A i \in 1 .. cursor[l] : i \in sent[l]
    /\ \A t \in v.tabs : PageIs(v, t)

ViewInv(v) ==
    /\ DoorInv(v) /\ CopiesInv(v) /\ FollowerInv(v) /\ PagesInv(v)
    /\ restores = 0 => FollowerTrue(v) /\ PagesTrue(v)


LEMMA ViewConstants ==
    ASSUME NEW v, View(v)!LayersConstants
    PROVE  /\ v.window \in Nat /\ v.last \in Nat
           /\ \A l \in v.channels : l \notin v.spaces
           /\ None # "follower" /\ None \notin LayersOf(v) /\ None \notin View(v)!Copies
           /\ View(v)!Layers = LayersOf(v)
BY DEF View!LayersConstants, View!Layers, LayersOf

\* Cardinality is the same under either name.
LEMMA ViewCounts == \A v, S : View(v)!Cardinality(S) = Cardinality(S)
BY Zenon DEF View!Cardinality, Cardinality

\* Whether a pair is newer than another: by position, and then by generation.
Newer(d, e) == d[1] > e[1] \/ (d[1] = e[1] /\ d[2] > e[2])

LEMMA NewestAre ==
    ASSUME NEW v, NEW S
    PROVE  View(v)!Newest(S) = {e \in S : Cardinality({d \in S : Newer(d, e)}) < v.window}
BY ViewCounts DEF View!Newest, Newer

\* A set of pairs that is not empty has an oldest.
LEMMA OldestOf ==
    ASSUME NEW S \in SUBSET (Nat \X Nat), S # {}
    PROVE  \E e \in S : \A d \in S : d = e \/ Newer(d, e)
<1> DEFINE T == {e[1] : e \in S}
<1>1. T \in SUBSET Nat /\ T # {}
  OBVIOUS
<1>2. PICK n \in T : \A m \in T : n <= m
  BY <1>1, LeastOf
<1> DEFINE U == {e[2] : e \in {d \in S : d[1] = n}}
<1>3. U \in SUBSET Nat /\ U # {}
  BY <1>2
<1>4. PICK k \in U : \A m \in U : k <= m
  BY <1>3, LeastOf
<1>5. PICK e \in S : e[1] = n /\ e[2] = k
  BY <1>4
<1>6. ASSUME NEW d \in S PROVE d = e \/ Newer(d, e)
  <2>1. d \in Nat \X Nat /\ e \in Nat \X Nat /\ d[1] \in Nat /\ d[2] \in Nat
        /\ e[1] \in Nat /\ e[2] \in Nat
    OBVIOUS
  <2>2. n <= d[1] /\ (d[1] = n => k <= d[2])
    BY <1>2, <1>4
  <2>3. d[1] > e[1] \/ (d[1] = e[1] /\ d[2] > e[2]) \/ (d[1] = e[1] /\ d[2] = e[2])
    BY <1>5, <2>1, <2>2
  <2>4. d = <<d[1], d[2]>> /\ e = <<e[1], e[2]>>
    BY <2>1
  <2>5. QED
    BY <2>3, <2>4 DEF Newer
<1>7. QED
  BY <1>6

\* Of the newest there are never more than the window.
LEMMA NewestAreFew ==
    ASSUME NEW v, v.window \in Nat, NEW S \in SUBSET (Nat \X Nat), IsFiniteSet(S)
    PROVE  /\ View(v)!Newest(S) \subseteq S /\ IsFiniteSet(View(v)!Newest(S))
           /\ Cardinality(View(v)!Newest(S)) <= v.window
<1> DEFINE N == View(v)!Newest(S)
           After(e) == {d \in S : Newer(d, e)}
<1>1. N = {e \in S : Cardinality(After(e)) < v.window}
  BY NewestAre
<1>2. N \subseteq S /\ IsFiniteSet(N) /\ Cardinality(N) \in Nat
  BY <1>1, FS_Subset, FS_CardinalityType
<1> HIDE DEF N
<1>3. CASE N = {}
  BY <1>2, <1>3, FS_EmptySet DEF N
<1>4. CASE N # {}
  <2>1. PICK e \in N : \A d \in N : d = e \/ Newer(d, e)
    BY <1>2, <1>4, OldestOf
  <2>2. IsFiniteSet(After(e)) /\ Cardinality(After(e)) \in Nat
    BY FS_Subset, FS_CardinalityType
  <2>3. Cardinality(After(e)) < v.window
    BY <1>1
  <2>4. N \subseteq After(e) \cup {e}
    BY <1>2, <2>1
  <2>5. IsFiniteSet(After(e) \cup {e}) /\ Cardinality(After(e) \cup {e}) <= Cardinality(After(e)) + 1
    <3> DEFINE A == After(e)
    <3> HIDE DEF A
    <3>1. IsFiniteSet(A) /\ Cardinality(A) \in Nat
      BY <2>2 DEF A
    <3>2. IsFiniteSet(A \cup {e})
          /\ Cardinality(A \cup {e}) = IF e \in A THEN Cardinality(A) ELSE Cardinality(A) + 1
      BY <3>1, FS_AddElement, Zenon
    <3>3. Cardinality(A \cup {e}) <= Cardinality(A) + 1
      BY <3>1, <3>2
    <3>4. QED
      BY <3>2, <3>3 DEF A
  <2>6. Cardinality(N) <= Cardinality(After(e) \cup {e})
    BY <2>4, <2>5, FS_Subset
  <2>7. Cardinality(After(e) \cup {e}) \in Nat
    BY <2>5, FS_CardinalityType
  <2> HIDE DEF After
  <2>8. QED
    BY <1>2, <2>2, <2>3, <2>5, <2>6, <2>7 DEF N
<1>5. QED
  BY <1>2, <1>3, <1>4 DEF N

\* What is near enough the end is among the newest.
LEMMA NearTheEnd ==
    ASSUME NEW v, v.window \in Nat, NEW n \in Nat, NEW S,
           \A e \in S : e = <<e[1], 0>> /\ e[1] \in 1 .. n,
           NEW i \in 1 .. n, i + v.window > n, <<i, 0>> \in S
    PROVE  <<i, 0>> \in View(v)!Newest(S)
<1> DEFINE After == {d \in S : Newer(d, <<i, 0>>)}
           Rest == {<<j, 0>> : j \in i + 1 .. n}
           f == [j \in i + 1 .. n |-> <<j, 0>>]
<1>1. After \subseteq Rest
  <2>1. ASSUME NEW d \in After PROVE d \in Rest
    <3>1. d = <<d[1], 0>> /\ d[1] \in 1 .. n /\ d[2] = 0
      OBVIOUS
    <3>2. d[1] > i
      BY <3>1 DEF Newer
    <3>3. d[1] \in i + 1 .. n
      BY <3>1, <3>2
    <3>4. QED
      BY <3>1, <3>3
  <2>2. QED
    BY <2>1
<1>2. IsFiniteSet(i + 1 .. n) /\ Cardinality(i + 1 .. n) <= n - i
  <2>1. i + 1 \in Int /\ n \in Int /\ i <= n
    OBVIOUS
  <2>2. IsFiniteSet(i + 1 .. n)
        /\ Cardinality(i + 1 .. n) = IF i + 1 > n THEN 0 ELSE n - (i + 1) + 1
    BY <2>1, FS_Interval
  <2>3. QED
    BY <2>1, <2>2
<1>3. IsFiniteSet(Rest) /\ Cardinality(Rest) <= Cardinality(i + 1 .. n)
  <2>1. f \in [i + 1 .. n -> Rest]
    OBVIOUS
  <2>2. \A r \in Rest : \E j \in i + 1 .. n : f[j] = r
    OBVIOUS
  <2>3. f \in Surjection(i + 1 .. n, Rest)
    BY <2>1, <2>2, Fun_IsSurj
  <2>4. QED
    BY <1>2, <2>3, FS_Surjection
<1>4. Cardinality(After) <= Cardinality(Rest) /\ Cardinality(After) \in Nat
      /\ Cardinality(Rest) \in Nat /\ Cardinality(i + 1 .. n) \in Nat
  BY <1>1, <1>2, <1>3, FS_Subset, FS_CardinalityType
<1>5. Cardinality(After) < v.window
  BY <1>2, <1>3, <1>4
<1> HIDE DEF Rest, f
<1>6. QED
  BY <1>5, NewestAre


-----------------------------------------------------------------------------
(* What a read of the door leaves in the copy.                             *)

LEMMA KeptIs ==
    ASSUME NEW v, NEW c \in View(v)!Copies
    PROVE  /\ c.last \in Nat /\ c.synced \in BOOLEAN
           /\ c.entries \subseteq Nat \X Nat /\ c.taken \subseteq Nat \X Nat
           /\ c = [last |-> c.last, synced |-> c.synced, entries |-> c.entries, taken |-> c.taken]
BY DEF View!Copies

\* What the two reads make of what is kept.
WithRead(c, last, entries) ==
    [c EXCEPT !.entries = entries, !.last = last, !.synced = TRUE]
WithFound(c, last, entries, taken) ==
    [c EXCEPT !.entries = entries, !.taken = taken, !.last = last, !.synced = TRUE]

LEMMA AtIs ==
    ASSUME NEW v, View(v)!LayersConstants, DoorInv(v), NEW l \in LayersOf(v),
           NEW i \in 1 .. Len(log[l])
    PROVE  /\ View(v)!At(l, i) \in Nat \X Nat /\ View(v)!At(l, i)[1] = i
           /\ log[l][i] \in [of : Nat, gen : Nat] /\ i \in 1 .. v.last
           /\ restores = 0 => View(v)!At(l, i) = <<i, 0>>
<1>1. log[l] \in Seq([of : Nat, gen : Nat]) /\ Len(log[l]) <= v.last
  BY DEF DoorInv
<1>8. Len(log[l]) \in Nat /\ v.last \in Nat
  BY <1>1, ViewConstants
<1>2. log[l][i] \in [of : Nat, gen : Nat]
  <2> DEFINE R == [of : Nat, gen : Nat]
  <2>1. log[l] \in Seq(R)
    BY <1>1
  <2> HIDE DEF R
  <2>2. log[l][i] \in R
    BY <2>1
  <2>3. QED
    BY <2>2 DEF R
<1>3. View(v)!At(l, i) = <<i, log[l][i].gen>>
  BY DEF View!At
<1>4. restores = 0 => log[l][i].gen = 0
  BY DEF DoorInv
<1>5. log[l][i].gen \in Nat /\ i \in Nat
  BY <1>2
<1>6. View(v)!At(l, i) \in Nat \X Nat /\ View(v)!At(l, i)[1] = i
  BY <1>3, <1>5
<1>7. i \in 1 .. v.last
  BY <1>1, <1>8
<1>9. QED
  BY <1>2, <1>3, <1>4, <1>6, <1>7

LEMMA UpperIs ==
    ASSUME NEW v, NEW m \in Nat, NEW n \in Nat
    PROVE  /\ View(v)!Upper(m, n) \in Nat /\ m <= View(v)!Upper(m, n) /\ n <= View(v)!Upper(m, n)
           /\ View(v)!Upper(m, n) = m \/ View(v)!Upper(m, n) = n
           /\ m <= n => View(v)!Upper(m, n) = n
           /\ n <= m => View(v)!Upper(m, n) = m
BY DEF View!Upper

\* Where a read starts: nothing of the window is left out.
LEMMA StartIs ==
    ASSUME NEW v, View(v)!LayersConstants, NEW from \in Nat, NEW to \in 0 .. v.last + 1
    PROVE  /\ View(v)!StartOf(from, to) \in Nat
           /\ from = 0 /\ to = v.last + 1 => View(v)!StartOf(from, to) = 0
           /\ from = 0 /\ to # v.last + 1 =>
                 /\ View(v)!StartOf(from, to) <= to
                 /\ View(v)!StartOf(from, to) = 0 \/ View(v)!StartOf(from, to) + v.window = to
           /\ from # 0 => View(v)!StartOf(from, to) = from
BY ViewConstants DEF View!StartOf, View!Whole

LEMMA EntriesAre ==
    ASSUME NEW v, View(v)!LayersConstants, DoorInv(v), NEW l \in LayersOf(v), NEW start \in Nat
    PROVE  /\ View(v)!Entries(l, start) \subseteq Nat \X Nat
           /\ IsFiniteSet(View(v)!Entries(l, start))
           /\ \A e \in View(v)!Entries(l, start) :
                 e[1] \in 1 .. Len(log[l]) /\ (restores = 0 => e = <<e[1], 0>>)
           /\ restores = 0 => \A i \in start + 1 .. Len(log[l]) :
                                 <<i, 0>> \in View(v)!Entries(l, start)
<1>1. Len(log[l]) \in Nat
  BY DEF DoorInv
<1> DEFINE R == start + 1 .. Len(log[l])
           E == View(v)!Entries(l, start)
           f == [i \in R |-> View(v)!At(l, i)]
<1>2. E = {View(v)!At(l, i) : i \in R}
  BY DEF View!Entries, View!End
<1>3. \A i \in R : i \in 1 .. Len(log[l])
  BY <1>1
<1>4. \A i \in R : /\ View(v)!At(l, i) \in Nat \X Nat /\ View(v)!At(l, i)[1] = i
                   /\ restores = 0 => View(v)!At(l, i) = <<i, 0>>
  BY <1>3, AtIs
<1>5. IsFiniteSet(R)
  BY <1>1, FS_Interval
<1> HIDE DEF R, E
<1>6. IsFiniteSet(E)
  <2>1. f \in [R -> E] /\ \A e \in E : \E i \in R : f[i] = e
    BY <1>2
  <2>2. f \in Surjection(R, E)
    BY <2>1, Fun_IsSurj
  <2>3. QED
    BY <1>5, <2>2, FS_Surjection
<1>7. E \subseteq Nat \X Nat
  BY <1>2, <1>4
<1>8. \A e \in E : e[1] \in 1 .. Len(log[l]) /\ (restores = 0 => e = <<e[1], 0>>)
  BY <1>2, <1>3, <1>4
<1>9. restores = 0 => \A i \in R : <<i, 0>> \in E
  BY <1>2, <1>4
<1>10. QED
  BY <1>6, <1>7, <1>8, <1>9 DEF E, R


\* Where the read starts from: the end of what is kept, or the beginning, up to what the door
\* has, or whatever there is.
Reads(v, l, c, from, to) ==
    /\ from \in {0, c.last} /\ to \in 0 .. v.last + 1
    /\ restores = 0 => to = v.last + 1 \/ to <= Len(log[l])

LEMMA ReadingEntries ==
    ASSUME NEW v, View(v)!LayersConstants, DoorInv(v), NEW l \in v.channels, NEW c,
           CopyIs(v, l, c, log[l], restores), NEW from, NEW to, Reads(v, l, c, from, to)
    PROVE  CopyIs(v, l, View(v)!WithEntries(c, l, from, to), log[l], restores)
<1> DEFINE start == View(v)!StartOf(from, to)
           E == View(v)!Entries(l, start)
           S == c.entries \cup E
           N == View(v)!Newest(S)
           end == View(v)!Upper(start, Len(log[l]))
           upto == IF to = v.last + 1 THEN end ELSE View(v)!Upper(to, end)
           last == View(v)!Upper(c.last, upto)
           d == WithRead(c, last, N)
<1>1. /\ v.window \in Nat /\ v.last \in Nat /\ l \in LayersOf(v) /\ l \notin v.spaces
      /\ c \in View(v)!Copies /\ c.last \in Nat /\ c.last <= v.last /\ Len(log[l]) <= v.last
  BY ViewConstants, KeptIs DEF CopyIs, CopyInv, LayersOf, DoorInv
<1>2. log[l] \in Seq([of : Nat, gen : Nat]) /\ Len(log[l]) \in Nat
  BY <1>1 DEF DoorInv
<1>3. View(v)!WithEntries(c, l, from, to) = d
  BY DEF View!WithEntries, View!End, View!Whole, WithRead
<1>4. from \in Nat /\ to \in 0 .. v.last + 1 /\ to \in Nat
  BY <1>1 DEF Reads
<1>5. /\ start \in Nat /\ start <= v.last
      /\ from = 0 /\ to = v.last + 1 => start = 0
      /\ from = 0 /\ to # v.last + 1 => start <= to /\ (start = 0 \/ start + v.window = to)
      /\ from # 0 => start = from /\ from = c.last
  <2>1. /\ start \in Nat
        /\ from = 0 /\ to = v.last + 1 => start = 0
        /\ from = 0 /\ to # v.last + 1 => start <= to /\ (start = 0 \/ start + v.window = to)
        /\ from # 0 => start = from
    BY <1>4, StartIs
  <2>2. from = 0 \/ from = c.last
    BY DEF Reads
  <2> HIDE DEF start
  <2>3. QED
    BY <1>1, <1>4, <2>1, <2>2
<1>6. /\ E \subseteq Nat \X Nat /\ IsFiniteSet(E)
      /\ \A e \in E : e[1] \in 1 .. Len(log[l]) /\ (restores = 0 => e = <<e[1], 0>>)
      /\ restores = 0 => \A i \in start + 1 .. Len(log[l]) : <<i, 0>> \in E
  BY <1>1, <1>5, EntriesAre
<1>7. /\ c.entries \subseteq Nat \X Nat /\ IsFiniteSet(c.entries) /\ c.taken \subseteq Nat \X Nat
      /\ \A e \in c.entries \cup c.taken : e[1] \in 1 .. v.last
  BY <1>1, KeptIs DEF CopyIs, CopyInv
<1>8. end \in Nat /\ end <= v.last /\ Len(log[l]) <= end /\ start <= end
      /\ (end = start \/ end = Len(log[l]))
  BY <1>1, <1>2, <1>5, UpperIs
<1>9. upto \in Nat /\ upto <= v.last /\ end <= upto /\ (upto = end \/ (upto = to /\ to # v.last + 1))
  BY <1>1, <1>4, <1>8, UpperIs
<1>10. last \in Nat /\ last <= v.last /\ (last = c.last \/ last = upto)
       /\ upto <= last /\ c.last <= last
  BY <1>1, <1>9, UpperIs
<1> HIDE DEF start, E, end, upto, last
<1>11. S \subseteq Nat \X Nat /\ IsFiniteSet(S) /\ \A e \in S : e[1] \in 1 .. v.last
  <2>1. IsFiniteSet(S)
    BY <1>6, <1>7, FS_Union
  <2>2. \A e \in E : e[1] \in 1 .. v.last
    BY <1>1, <1>2, <1>6
  <2>3. QED
    BY <1>6, <1>7, <2>1, <2>2
<1>12. N \subseteq S /\ IsFiniteSet(N) /\ Cardinality(N) <= v.window
  BY <1>1, <1>11, NewestAreFew
<1> HIDE DEF N
<1>13. d \in View(v)!Copies /\ d.last = last /\ d.synced = TRUE /\ d.entries = N /\ d.taken = c.taken
  <2>1. N \in SUBSET (Nat \X Nat) /\ last \in Nat
    BY <1>10, <1>11, <1>12
  <2>2. QED
    BY <1>1, <2>1 DEF View!Copies, WithRead
<1> HIDE DEF d
<1>14. CopyInv(v, l, d)
  BY <1>1, <1>7, <1>10, <1>11, <1>12, <1>13 DEF CopyInv
<1>15. ASSUME restores = 0 PROVE ReadOf(v, l, d, log[l])
  <2>1. /\ c.last <= Len(log[l])
        /\ \A e \in c.entries : e[1] \in 1 .. Len(log[l]) /\ e[2] = 0
        /\ \A i \in 1 .. c.last : i + v.window > c.last => <<i, 0>> \in c.entries
    BY <1>15 DEF CopyIs, ReadOf
  <2>2. to = v.last + 1 \/ to <= Len(log[l])
    BY <1>15 DEF Reads
  <2>3. start <= Len(log[l])
    BY <1>1, <1>2, <1>4, <1>5, <2>1, <2>2
  <2>4. last = Len(log[l])
    BY <1>1, <1>2, <1>4, <1>8, <1>9, <1>10, <2>1, <2>2, <2>3
  <2>5. \A e \in S : e = <<e[1], 0>> /\ e[1] \in 1 .. Len(log[l])
    <3>1. \A e \in c.entries : e = <<e[1], e[2]>>
      BY <1>7
    <3>2. QED
      BY <1>6, <1>15, <2>1, <3>1
  <2>6. ASSUME NEW i \in 1 .. Len(log[l]), i + v.window > Len(log[l]) PROVE <<i, 0>> \in S
    <3>1. CASE i > start
      <4>1. i \in start + 1 .. Len(log[l])
        BY <1>2, <1>5, <3>1
      <4>2. QED
        BY <1>6, <1>15, <4>1
    <3>2. CASE i <= start
      <4>1. start = from /\ from = c.last
        <5>1. i \in Nat /\ i # 0 /\ start # 0
          BY <1>5, <3>2
        <5>2. CASE from = 0 /\ to # v.last + 1
          <6>1. start + v.window = to /\ to <= Len(log[l])
            BY <1>5, <2>2, <5>1, <5>2
          <6>2. QED
            BY <1>1, <1>2, <1>5, <2>6, <3>2, <5>1, <6>1
        <5>3. QED
          BY <1>5, <5>1, <5>2
      <4>2. i \in 1 .. c.last /\ i + v.window > c.last
        BY <1>1, <1>2, <2>1, <2>6, <3>2, <4>1
      <4>3. QED
        BY <2>1, <4>2
    <3>3. QED
      BY <1>2, <1>5, <3>1, <3>2
  <2>7. \A i \in 1 .. Len(log[l]) : i + v.window > Len(log[l]) => <<i, 0>> \in N
    BY <1>1, <1>2, <2>5, <2>6, NearTheEnd DEF N
  <2>8. \A e \in N : e[1] \in 1 .. Len(log[l]) /\ e[2] = 0
    BY <1>12, <2>5
  <2>9. QED
    BY <1>1, <1>2, <1>13, <2>4, <2>7, <2>8 DEF ReadOf
<1>16. QED
  BY <1>3, <1>14, <1>15 DEF CopyIs

\* The greatest of a bounded set of naturals.
LEMMA MostIs ==
    ASSUME NEW v, NEW n \in Nat, NEW S \in SUBSET (0 .. n), S # {}
    PROVE  View(v)!Most(S) \in S /\ \A m \in S : m <= View(v)!Most(S)
<1> DEFINE T == {n - m : m \in S}
<1>1. T \in SUBSET Nat /\ T # {}
  <2>1. \A m \in S : n - m \in Nat
    OBVIOUS
  <2>2. QED
    BY <2>1
<1>2. PICK k \in T : \A j \in T : k <= j
  BY <1>1, LeastOf
<1>3. PICK m \in S : k = n - m
  BY <1>2
<1>4. \A j \in S : j <= m
  <2> SUFFICES ASSUME NEW j \in S PROVE j <= m
    OBVIOUS
  <2>1. n - j \in T
    OBVIOUS
  <2>2. n - m <= n - j
    BY <1>2, <1>3, <2>1
  <2>3. QED
    BY <2>2
<1>5. QED
  BY <1>4 DEF View!Most

\* The copy that a read of a tuplespace leaves: the tuples that it got, and the takes.
FoundOf(v, l, got, d) ==
    /\ CopyIs(v, l, d, log[l], restores) /\ d.entries = got
    /\ d.taken = {View(v)!At(l, j) : j \in View(v)!Takes(l)}

LEMMA ReadingTuples ==
    ASSUME NEW v, View(v)!LayersConstants, DoorInv(v), NEW l \in v.spaces, NEW c,
           CopyIs(v, l, c, log[l], restores), NEW to \in 0 .. v.last + 1, NEW got,
           got \subseteq Nat \X Nat, \A e \in got : e[1] \in 1 .. v.last, IsFiniteSet(got),
           restores = 0 => /\ to = v.last + 1 \/ to <= Len(log[l])
                           /\ \A e \in got : /\ e[1] \in 1 .. Len(log[l]) /\ e[2] = 0
                                             /\ log[l][e[1]].of = 0,
           NEW d, d = View(v)!WithTuples(c, l, got, to)
    PROVE  FoundOf(v, l, got, d)
<1> DEFINE taken == {View(v)!At(l, j) : j \in View(v)!Takes(l)}
           P == {e[1] : e \in got \cup taken} \cup {0}
           newest == View(v)!Most(P)
           upto == IF to = v.last + 1 THEN newest ELSE View(v)!Upper(to, newest)
           last == View(v)!Upper(c.last, upto)
<1>1. /\ v.window \in Nat /\ v.last \in Nat /\ l \in LayersOf(v) /\ l \notin v.channels
      /\ c \in View(v)!Copies /\ c.last \in Nat /\ c.last <= v.last /\ Len(log[l]) <= v.last
  BY ViewConstants, KeptIs DEF CopyIs, CopyInv, LayersOf, DoorInv
<1>2. log[l] \in Seq([of : Nat, gen : Nat]) /\ Len(log[l]) \in Nat
  BY <1>1 DEF DoorInv
<1>3. d = WithFound(c, last, got, taken)
  BY DEF View!WithTuples, View!Whole, WithFound
<1>4. taken \subseteq Nat \X Nat /\ \A e \in taken : e[1] \in 1 .. Len(log[l])
  BY <1>1, AtIs DEF View!Takes, View!End
<1> HIDE DEF taken
<1>5. P \in SUBSET (0 .. v.last) /\ P # {}
  <2>1. \A e \in got \cup taken : e[1] \in 0 .. v.last
    BY <1>1, <1>2, <1>4
  <2>2. 0 \in 0 .. v.last
    BY <1>1
  <2>3. QED
    BY <2>1, <2>2
<1>6. newest \in P /\ newest \in Nat /\ newest <= v.last
  <2> HIDE DEF P
  <2>1. newest \in P
    BY <1>1, <1>5, MostIs
  <2> HIDE DEF newest
  <2>2. QED
    BY <1>1, <1>5, <2>1
<1>7. upto \in Nat /\ upto <= v.last /\ (upto = newest \/ (upto = to /\ to # v.last + 1))
  BY <1>1, <1>6, UpperIs
<1>8. last \in Nat /\ last <= v.last /\ (last = c.last \/ last = upto)
  BY <1>1, <1>7, UpperIs
<1>9. restores = 0 => newest <= Len(log[l])
  BY <1>2, <1>4, <1>6
<1> HIDE DEF newest, upto, last, P
<1>10. d \in View(v)!Copies /\ d.last = last /\ d.synced = TRUE /\ d.entries = got /\ d.taken = taken
  <2>1. taken \in SUBSET (Nat \X Nat) /\ got \in SUBSET (Nat \X Nat) /\ last \in Nat
    BY <1>4, <1>8
  <2>2. QED
    BY <1>1, <1>3, <2>1 DEF View!Copies, WithFound
<1>11. CopyInv(v, l, d)
  <2>1. \A e \in taken : e[1] \in 1 .. v.last
    BY <1>1, <1>2, <1>4
  <2>2. QED
    BY <1>1, <1>8, <1>10, <2>1 DEF CopyInv
<1>12. ASSUME restores = 0 PROVE ReadOf(v, l, d, log[l])
  <2>1. c.last <= Len(log[l])
    BY <1>12 DEF CopyIs, ReadOf
  <2>2. last <= Len(log[l])
    BY <1>1, <1>2, <1>7, <1>8, <1>9, <1>12, <2>1
  <2>3. QED
    BY <1>1, <1>10, <1>12, <2>2 DEF ReadOf
<1>13. QED
  BY <1>10, <1>11, <1>12 DEF FoundOf, CopyIs, taken


-----------------------------------------------------------------------------
(* What stands while a log grows, or once it was cut.                      *)

LogGrows(v) ==
    /\ restores' \in Nat /\ (restores' = 0 => restores = 0)
    /\ restores' = 0 => \A l \in LayersOf(v) :
          /\ Len(log[l]) <= Len(log'[l]) /\ Len(log'[l]) \in Nat
          /\ \A i \in 1 .. Len(log[l]) : log'[l][i] = log[l][i]

LEMMA LogStays ==
    ASSUME NEW v, DoorInv(v), log' = log, restores' = restores
    PROVE  LogGrows(v)
BY DEF DoorInv, LogGrows

LEMMA LengthIs ==
    ASSUME NEW v, DoorInv(v), NEW l \in LayersOf(v)
    PROVE  Len(log[l]) \in Nat
BY DEF DoorInv

LEMMA ReadStays ==
    ASSUME NEW v, View(v)!LayersConstants, NEW l, NEW c \in View(v)!Copies, NEW s, NEW t,
           Len(s) \in Nat, Len(t) \in Nat, Len(s) <= Len(t),
           \A i \in 1 .. Len(s) : t[i] = s[i], ReadOf(v, l, c, s)
    PROVE  ReadOf(v, l, c, t)
<1>1. \A e \in c.entries : e[1] \in 1 .. Len(s) /\ t[e[1]] = s[e[1]] /\ e[1] \in 1 .. Len(t)
  BY DEF ReadOf
<1>2. c.last \in Nat /\ c.last <= Len(t)
  BY KeptIs DEF ReadOf
<1>3. QED
  BY <1>1, <1>2 DEF ReadOf

LEMMA CopyStays ==
    ASSUME NEW v, View(v)!LayersConstants, DoorInv(v), LogGrows(v), NEW l \in LayersOf(v), NEW c,
           CopyIs(v, l, c, log[l], restores)
    PROVE  CopyIs(v, l, c, log'[l], restores')
<1>1. c \in View(v)!Copies /\ CopyInv(v, l, c)
  BY DEF CopyIs, CopyInv
<1>2. ASSUME restores' = 0 PROVE ReadOf(v, l, c, log'[l])
  <2>1. /\ Len(log[l]) <= Len(log'[l]) /\ Len(log'[l]) \in Nat /\ Len(log[l]) \in Nat
        /\ \A i \in 1 .. Len(log[l]) : log'[l][i] = log[l][i]
    BY <1>2, LengthIs DEF LogGrows
  <2>2. ReadOf(v, l, c, log[l])
    BY <1>2 DEF CopyIs, LogGrows
  <2> DEFINE s == log[l]
             t == log'[l]
  <2>3. Len(s) \in Nat /\ Len(t) \in Nat /\ Len(s) <= Len(t) /\ ReadOf(v, l, c, s)
        /\ \A i \in 1 .. Len(s) : t[i] = s[i]
    BY <2>1, <2>2
  <2> HIDE DEF s, t
  <2>4. ReadOf(v, l, c, t)
    BY <1>1, <2>3, ReadStays
  <2>5. QED
    BY <2>4 DEF t
<1>3. QED
  BY <1>1, <1>2 DEF CopyIs

LEMMA CopiesStay ==
    ASSUME NEW v, View(v)!LayersConstants, ViewInv(v), LogGrows(v), copy' = copy
    PROVE  CopiesInv(v)'
<1>1. DoorInv(v) /\ CopiesInv(v)
  BY DEF ViewInv
<1>2. \A l \in KnownOf(v) : CopyIs(v, l, copy[l], log'[l], restores')
  BY <1>1, CopyStays DEF CopiesInv, KnownOf
<1>3. QED
  BY <1>1, <1>2 DEF CopiesInv, KnownOf

LEMMA PagesStay ==
    ASSUME NEW v, View(v)!LayersConstants, ViewInv(v), LogGrows(v),
           UNCHANGED <<cursor, sent, page, ask>>
    PROVE  PagesInv(v)' /\ (restores' = 0 => PagesTrue(v)')
<1>1. DoorInv(v) /\ PagesInv(v)
  BY DEF ViewInv
<1>2. ASSUME NEW t \in v.tabs PROVE AskIs(v, t)'
  <2>1. AskIs(v, t)
    BY <1>1 DEF PagesInv
  <2>2. QED
    BY <1>1, <2>1, CopyStays DEF AskIs
<1>3. PagesInv(v)'
  BY <1>1, <1>2 DEF PagesInv
<1>4. ASSUME restores' = 0 PROVE PagesTrue(v)'
  <2>1. PagesTrue(v)
    BY <1>4 DEF ViewInv, LogGrows
  <2>2. ASSUME NEW t \in v.tabs, PageIs(v, t) PROVE PageIs(v, t)'
    <3>1. ASSUME page[t] # None, page[t].layer \in v.channels
          PROVE  page[t].after <= Len(log'[page[t].layer])
      <4>1. /\ page[t].layer \in LayersOf(v) /\ page[t].after \in 0 .. v.last
            /\ page[t].after <= Len(log[page[t].layer])
        BY <1>1, <2>2, <3>1 DEF PagesInv, PageIs
      <4>2. /\ Len(log[page[t].layer]) <= Len(log'[page[t].layer])
            /\ Len(log'[page[t].layer]) \in Nat /\ Len(log[page[t].layer]) \in Nat
        BY <1>1, <1>4, <4>1, LengthIs DEF LogGrows
      <4>3. v.last \in Nat
        BY ViewConstants
      <4>4. QED
        BY <4>1, <4>2, <4>3
    <3>2. QED
      BY <2>2, <3>1 DEF PageIs
  <2>3. QED
    BY <2>1, <2>2 DEF PagesTrue
<1>5. QED
  BY <1>3, <1>4

\* The follower, when a log grows and it does not move.
LEMMA FollowerStays ==
    ASSUME NEW v, View(v)!LayersConstants, ViewInv(v), LogGrows(v),
           UNCHANGED <<follower, sync>>, saying' \in v.channels \cup {None},
           KnownOf(v)' = KnownOf(v),
           \A l \in v.spaces : copy'[l] = copy[l]
    PROVE  FollowerInv(v)' /\ (restores' = 0 => FollowerTrue(v)')
<1>1. DoorInv(v) /\ FollowerInv(v)
  BY DEF ViewInv
<1>2. FollowerInv(v)'
  BY <1>1 DEF FollowerInv
<1>3. ASSUME restores' = 0 PROVE FollowerTrue(v)'
  <2>1. FollowerTrue(v)
    BY <1>3 DEF ViewInv, LogGrows
  <2>2. v.last \in Nat /\ follower \in Followers(v)
    BY <1>1, ViewConstants DEF FollowerInv
  <2>3. \A l \in LayersOf(v) : follower.tops[l] \in Nat
    BY <2>2 DEF Followers
  <2>4. \A l \in LayersOf(v) : follower.tops[l] <= Len(log'[l])
    BY <1>1, <1>3, <2>1, <2>3, LengthIs DEF LogGrows, FollowerTrue
  <2>5. ASSUME follower.at \in {"read", "taken"}
        PROVE  follower.to = v.last + 1 \/ follower.to <= Len(log'[follower.layer])
    <3>1. follower.layer \in LayersOf(v) /\ follower.to \in Nat
      BY <1>1, <2>2, <2>5 DEF FollowerInv, KnownOf, Followers
    <3>2. QED
      BY <1>1, <1>3, <2>1, <2>5, <3>1, LengthIs DEF LogGrows, FollowerTrue
  <2>6. ASSUME follower.at = "taken"
        PROVE  LET l == follower.layer
               IN  /\ \A e \in follower.got :
                         e[1] \in 1 .. Len(log'[l]) /\ e[2] = 0 /\ log'[l][e[1]].of = 0
                   /\ \A e \in copy'[l].entries :
                         e \in follower.got \/ \E j \in 1 .. Len(log'[l]) : log'[l][j].of = e[1]
    <3> DEFINE l == follower.layer
    <3>1. l \in LayersOf(v) /\ l \in v.spaces
      BY <1>1, <2>6 DEF FollowerInv, KnownOf
    <3>2. /\ \A e \in follower.got :
                e[1] \in 1 .. Len(log[l]) /\ e[2] = 0 /\ log[l][e[1]].of = 0
          /\ \A e \in copy[l].entries :
                e \in follower.got \/ \E j \in 1 .. Len(log[l]) : log[l][j].of = e[1]
      BY <2>1, <2>6 DEF FollowerTrue
    <3>3. /\ Len(log[l]) <= Len(log'[l]) /\ Len(log'[l]) \in Nat /\ Len(log[l]) \in Nat
          /\ \A i \in 1 .. Len(log[l]) : log'[l][i] = log[l][i]
      BY <1>1, <1>3, <3>1, LengthIs DEF LogGrows
    <3>4. \A i \in 1 .. Len(log[l]) : i \in 1 .. Len(log'[l])
      BY <3>3
    <3> HIDE DEF l
    <3>5. /\ \A e \in follower.got :
                e[1] \in 1 .. Len(log'[l]) /\ e[2] = 0 /\ log'[l][e[1]].of = 0
          /\ \A e \in copy'[l].entries :
                e \in follower.got \/ \E j \in 1 .. Len(log'[l]) : log'[l][j].of = e[1]
      BY <3>1, <3>2, <3>3, <3>4
    <3>6. QED
      BY <3>5 DEF l
  <2>7. QED
    BY <2>4, <2>5, <2>6 DEF FollowerTrue
<1>4. QED
  BY <1>2, <1>3


-----------------------------------------------------------------------------
(* The door's steps.                                                       *)

LEMMA DoorStays ==
    ASSUME NEW v, DoorInv(v), UNCHANGED <<log, granted, restores>>
    PROVE  DoorInv(v)'
BY DEF DoorInv

\* A layer's log is another one, of the same generation unless it was cut.
LEMMA Written ==
    ASSUME NEW v, View(v)!LayersConstants, DoorInv(v), NEW l \in LayersOf(v), NEW of \in Nat,
           View(v)!Write(l, of), restores' = restores, granted' = granted
    PROVE  DoorInv(v)' /\ LogGrows(v)
<1> DEFINE R == [of : Nat, gen : Nat]
           x == View(v)!Item(l, of)
<1>1. log[l] \in Seq(R) /\ Len(log[l]) < v.last /\ log = [k \in LayersOf(v) |-> log[k]]
      /\ log' = [log EXCEPT ![l] = Append(@, x)]
  BY DEF DoorInv, View!Write, View!End
<1>2. x \in R /\ x.gen = restores
  BY DEF DoorInv, View!Item
<1> HIDE DEF R, x
<1>3. /\ log'[l] = Append(log[l], x) /\ \A k \in LayersOf(v) : k # l => log'[k] = log[k]
      /\ log' = [k \in LayersOf(v) |-> log'[k]]
  BY <1>1
<1>4. /\ Append(log[l], x) \in Seq(R) /\ Len(Append(log[l], x)) = Len(log[l]) + 1
      /\ Len(log[l]) \in Nat /\ Append(log[l], x)[Len(log[l]) + 1] = x
      /\ \A i \in 1 .. Len(log[l]) : Append(log[l], x)[i] = log[l][i]
  BY <1>1, <1>2
<1>5. \A k \in LayersOf(v) : log[k] \in Seq(R) /\ Len(log[k]) \in Nat /\ Len(log[k]) <= v.last
  BY DEF DoorInv, R
<1>6. \A k \in LayersOf(v) : log'[k] \in Seq(R) /\ Len(log'[k]) \in Nat /\ Len(log'[k]) <= v.last
  BY <1>1, <1>3, <1>4, <1>5, ViewConstants
<1>7. LogGrows(v)
  <2>1. \A k \in LayersOf(v) : /\ Len(log[k]) <= Len(log'[k])
                               /\ \A i \in 1 .. Len(log[k]) : log'[k][i] = log[k][i]
    BY <1>3, <1>4, <1>5
  <2>2. QED
    BY <1>6, <2>1 DEF LogGrows, DoorInv
<1>8. ASSUME restores' = 0, NEW k \in LayersOf(v), NEW i \in 1 .. Len(log'[k])
      PROVE  log'[k][i].gen = 0
  <2>1. \A j \in 1 .. Len(log[k]) : log[k][j].gen = 0
    BY <1>8 DEF DoorInv
  <2>2. CASE k = l
    <3>1. i \in 1 .. Len(log[l]) \/ i = Len(log[l]) + 1
      BY <1>3, <1>4, <1>8, <2>2
    <3>2. QED
      BY <1>2, <1>3, <1>4, <1>8, <2>1, <2>2, <3>1
  <2>3. CASE k # l
    BY <1>3, <1>8, <2>1, <2>3
  <2>4. QED
    BY <2>2, <2>3
<1>9. DoorInv(v)'
  BY <1>3, <1>6, <1>8 DEF DoorInv, R
<1>10. QED
  BY <1>7, <1>9

LEMMA Restored ==
    ASSUME NEW v, View(v)!LayersConstants, DoorInv(v), NEW l \in LayersOf(v),
           View(v)!Restore(l)
    PROVE  DoorInv(v)' /\ LogGrows(v)
<1> DEFINE R == [of : Nat, gen : Nat]
<1>1. PICK n \in 0 .. Len(log[l]) - 1 : log' = [log EXCEPT ![l] = SubSeq(@, 1, n)]
  BY DEF View!Restore, View!End
<1>2. restores' = restores + 1 /\ granted' = granted /\ restores \in Nat
  BY DEF View!Restore, DoorInv
<1>3. log[l] \in Seq(R) /\ log = [k \in LayersOf(v) |-> log[k]] /\ v.last \in Nat
  BY ViewConstants DEF DoorInv
<1>4. \A k \in LayersOf(v) : log[k] \in Seq(R) /\ Len(log[k]) \in Nat /\ Len(log[k]) <= v.last
  BY DEF DoorInv
<1> HIDE DEF R
<1>5. SubSeq(log[l], 1, n) \in Seq(R) /\ Len(SubSeq(log[l], 1, n)) = n /\ n \in Nat
  BY <1>3, <1>4
<1>6. /\ log'[l] = SubSeq(log[l], 1, n) /\ \A k \in LayersOf(v) : k # l => log'[k] = log[k]
      /\ log' = [k \in LayersOf(v) |-> log'[k]]
  BY <1>1, <1>3
<1>7. ASSUME NEW k \in LayersOf(v) PROVE log'[k] \in Seq(R) /\ Len(log'[k]) <= v.last
  <2>1. CASE k = l
    <3>1. n <= v.last
      BY <1>3, <1>4
    <3>2. QED
      BY <1>5, <1>6, <2>1, <3>1
  <2>2. CASE k # l
    BY <1>4, <1>6, <2>2
  <2>3. QED
    BY <2>1, <2>2
<1>8. restores' \in Nat /\ restores' # 0
  BY <1>2
<1>9. DoorInv(v)'
  BY <1>2, <1>6, <1>7, <1>8 DEF DoorInv, R
<1>10. QED
  BY <1>8, <1>9 DEF LogGrows

LEMMA DoorSteps ==
    ASSUME NEW v, View(v)!LayersConstants, ViewInv(v), NEW l \in LayersOf(v),
           View(v)!Say(l) \/ View(v)!Others(l) \/ View(v)!Restore(l) \/ View(v)!Regrant(l)
    PROVE  ViewInv(v)'
<1>1. DoorInv(v) /\ FollowerInv(v)
  BY DEF ViewInv
<1>2. /\ UNCHANGED <<copy, sync, follower, cursor, sent, page, ask>>
      /\ saying' \in v.channels \cup {None}
  BY <1>1 DEF View!Say, View!Others, View!Restore, View!Regrant, View!kept, View!viewer,
              FollowerInv
<1>3. DoorInv(v)' /\ LogGrows(v)
  <2>1. CASE View(v)!Say(l)
    BY <1>1, <2>1, Written DEF View!Say
  <2>2. CASE View(v)!Others(l)
    <3>1. CASE View(v)!Write(l, 0)
      BY <1>1, <2>2, <3>1, Written DEF View!Others
    <3>2. ASSUME NEW i \in View(v)!Pending(l), View(v)!Write(l, i) PROVE DoorInv(v)' /\ LogGrows(v)
      <4>1. i \in Nat
        BY <1>1, LengthIs DEF View!Pending, View!End
      <4>2. QED
        BY <1>1, <2>2, <3>2, <4>1, Written DEF View!Others
    <3>3. QED
      BY <2>2, <3>1, <3>2 DEF View!Others
  <2>3. CASE View(v)!Restore(l)
    BY <1>1, <2>3, Restored
  <2>4. CASE View(v)!Regrant(l)
    <3>1. log' = log /\ restores' = restores /\ granted' \subseteq LayersOf(v)
      BY <1>1, <2>4 DEF View!Regrant, DoorInv
    <3>2. QED
      BY <1>1, <3>1, LogStays DEF DoorInv
  <2>5. QED
    BY <2>1, <2>2, <2>3, <2>4
<1>4. KnownOf(v)' = KnownOf(v)
  BY <1>2 DEF KnownOf
<1>5. QED
  BY <1>2, <1>3, <1>4, CopiesStay, PagesStay, FollowerStays DEF ViewInv

\* Nothing that the invariant is about moves.
LEMMA ViewStays ==
    ASSUME NEW v, View(v)!LayersConstants, ViewInv(v),
           UNCHANGED <<log, granted, restores, copy, follower, sync, saying, cursor, sent, page, ask>>
    PROVE  ViewInv(v)'
<1>1. DoorInv(v) /\ FollowerInv(v)
  BY DEF ViewInv
<1>2. LogGrows(v) /\ DoorInv(v)'
  BY <1>1, LogStays, DoorStays
<1>3. KnownOf(v)' = KnownOf(v) /\ saying' \in v.channels \cup {None}
  BY <1>1 DEF KnownOf, FollowerInv
<1>4. QED
  BY <1>2, <1>3, CopiesStay, PagesStay, FollowerStays DEF ViewInv


-----------------------------------------------------------------------------
(* The follower's steps.                                                   *)

LEMMA IdleIs ==
    ASSUME NEW v, View(v)!LayersConstants
    PROVE  /\ View(v)!Idle \in Followers(v) /\ View(v)!Idle.todo = {}
           /\ \A l \in LayersOf(v) : View(v)!Idle.tops[l] = 0
<1>1. View(v)!Layers = LayersOf(v) /\ v.last \in Nat
  BY ViewConstants
<1> DEFINE tops == [l \in LayersOf(v) |-> 0]
<1>2. tops \in [LayersOf(v) -> 0 .. v.last] /\ \A l \in LayersOf(v) : tops[l] = 0
  BY <1>1
<1>3. View(v)!Idle = [at |-> "off", phase |-> "sync", todo |-> {}, layer |-> None, to |-> 0,
                      got |-> {}, tops |-> tops]
  BY <1>1 DEF View!Idle
<1> HIDE DEF tops
<1>4. QED
  BY <1>1, <1>2, <1>3 DEF Followers, Steps

\* The rest of what a step of the follower leaves.
Alone(v) ==
    /\ UNCHANGED <<log, granted, restores, cursor, sent, page, ask>>
    /\ saying' \in v.channels \cup {None} /\ copy' = [l \in LayersOf(v) |-> copy'[l]]
    /\ \A l \in LayersOf(v) : copy'[l] # None =>
          CopyIs(v, l, copy'[l], log[l], restores)

\* It is enough to look at the follower.
LEMMA AloneIsEnough ==
    ASSUME NEW v, View(v)!LayersConstants, ViewInv(v), Alone(v), FollowerInv(v)',
           restores = 0 => FollowerTrue(v)'
    PROVE  ViewInv(v)'
<1>1. DoorInv(v)' /\ LogGrows(v)
  BY DoorStays, LogStays DEF Alone, ViewInv
<1>2. CopiesInv(v)'
  BY DEF Alone, CopiesInv, KnownOf
<1>3. QED
  BY <1>1, <1>2, PagesStay DEF ViewInv, Alone

LEMMA CopyAlone ==
    ASSUME NEW v, ViewInv(v), UNCHANGED <<log, granted, restores, copy, saying, cursor, sent, page, ask>>
    PROVE  Alone(v)
BY DEF Alone, ViewInv, CopiesInv, KnownOf, FollowerInv

\* When it does not read, nothing is known of it but from where it follows.
LEMMA FollowerRests ==
    ASSUME NEW v, View(v)!LayersConstants, ViewInv(v), Alone(v), NEW f \in Followers(v),
           follower' = f, f.at \notin {"next", "read", "taken"}, sync' = None,
           restores = 0 => \A l \in LayersOf(v) : f.tops[l] <= Len(log[l])
    PROVE  ViewInv(v)'
<1>1. FollowerInv(v)'
  BY ViewConstants DEF FollowerInv, Alone
<1>2. restores = 0 => FollowerTrue(v)'
  BY DEF FollowerTrue, Alone
<1>3. QED
  BY <1>1, <1>2, AloneIsEnough

\* It begins again.
LEMMA IdleAt ==
    ASSUME NEW v, View(v)!LayersConstants, ViewInv(v), Alone(v), NEW step \in {"top", "sleep"},
           follower' = [View(v)!Idle EXCEPT !.at = step], sync' = None
    PROVE  ViewInv(v)'
<1> DEFINE i == View(v)!Idle
           f == [i EXCEPT !.at = step]
<1>1. i \in Followers(v) /\ \A l \in LayersOf(v) : i.tops[l] = 0
  BY IdleIs
<1> HIDE DEF i
<1>2. f \in Followers(v) /\ f.at = step /\ f.tops = i.tops
  BY <1>1 DEF Followers, Steps
<1>3. follower' = f
  BY DEF i
<1> HIDE DEF f
<1>4. \A l \in LayersOf(v) : f.tops[l] <= Len(log[l])
  BY <1>1, <1>2, LengthIs DEF ViewInv
<1>5. QED
  BY <1>2, <1>3, <1>4, FollowerRests

LEMMA Begins ==
    ASSUME NEW v, View(v)!LayersConstants, ViewInv(v),
           View(v)!Start \/ View(v)!Wake \/ View(v)!CaughtUp \/ View(v)!Fail
    PROVE  ViewInv(v)'
<1>1. FollowerInv(v)
  BY DEF ViewInv
<1>2. UNCHANGED <<log, granted, restores, copy, saying, cursor, sent, page, ask>>
  BY DEF View!Start, View!Wake, View!CaughtUp, View!Fail, View!door, View!kept, View!viewer
<1>3. sync' = None
  BY <1>1 DEF View!Start, View!Wake, View!CaughtUp, View!Fail, FollowerInv
<1>4. \E step \in {"top", "sleep"} : follower' = [View(v)!Idle EXCEPT !.at = step]
  BY DEF View!Start, View!Wake, View!CaughtUp, View!Fail, View!Goes
<1>5. QED
  BY <1>2, <1>3, <1>4, CopyAlone, IdleAt

\* A copy that has not been read yet, or is to be read again.
LEMMA UnreadIs ==
    ASSUME NEW v, View(v)!LayersConstants, DoorInv(v), NEW l \in LayersOf(v)
    PROVE  CopyIs(v, l, View(v)!Unread, log[l], restores)
<1>1. v.window \in Nat /\ v.last \in Nat /\ Len(log[l]) \in Nat
  BY ViewConstants, LengthIs
<1>2. View(v)!Unread \in View(v)!Copies
  BY DEF View!Unread, View!Copies
<1>3. QED
  BY <1>1, <1>2, FS_EmptySet DEF CopyIs, CopyInv, ReadOf, View!Unread

LEMMA AgainIs ==
    ASSUME NEW v, NEW l, NEW c, restores # 0, CopyIs(v, l, c, log[l], restores)
    PROVE  CopyIs(v, l, [c EXCEPT !.synced = FALSE], log[l], restores)
<1> DEFINE d == [c EXCEPT !.synced = FALSE]
<1>1. c \in View(v)!Copies
  BY DEF CopyIs, CopyInv
<1>2. d \in View(v)!Copies /\ d.last = c.last /\ d.entries = c.entries /\ d.taken = c.taken
  BY <1>1 DEF View!Copies
<1> HIDE DEF d
<1>3. CopyIs(v, l, d, log[l], restores)
  BY <1>2 DEF CopyIs, CopyInv
<1>4. QED
  BY <1>3 DEF d

LEMMA FollowerGoesOn ==
    ASSUME NEW v, View(v)!LayersConstants, ViewInv(v), Alone(v), NEW f \in Followers(v),
           follower' = f, f.at = "next", sync' = "follower", f.todo \subseteq KnownOf(v)',
           restores = 0 => \A l \in LayersOf(v) : f.tops[l] <= Len(log[l])
    PROVE  ViewInv(v)'
<1>1. FollowerInv(v)'
  BY ViewConstants DEF FollowerInv, Alone
<1>2. restores = 0 => FollowerTrue(v)'
  BY DEF FollowerTrue, Alone
<1>3. QED
  BY <1>1, <1>2, AloneIsEnough

LEMMA KnownIs ==
    ASSUME NEW v, View(v)!LayersConstants
    PROVE  View(v)!Known = KnownOf(v) /\ KnownOf(v) \subseteq LayersOf(v)
BY ViewConstants DEF View!Known, KnownOf

LEMMA TopsAre ==
    ASSUME NEW v, FollowerInv(v)
    PROVE  /\ follower.tops \in [LayersOf(v) -> 0 .. v.last] /\ follower \in Followers(v)
           /\ follower.todo \subseteq LayersOf(v)
           /\ FollowerTrue(v) => \A l \in LayersOf(v) : follower.tops[l] <= Len(log[l])
BY DEF FollowerInv, Followers, FollowerTrue

LEMMA DiscoverStep ==
    ASSUME NEW v, View(v)!LayersConstants, ViewInv(v), View(v)!Discover
    PROVE  ViewInv(v)'
<1> DEFINE todo == {l \in LayersOf(v) : copy'[l] # None /\ ~copy'[l].synced}
           f == [follower EXCEPT !.at = "next", !.phase = "sync", !.todo = todo]
<1>1. /\ DoorInv(v) /\ FollowerInv(v) /\ CopiesInv(v) /\ (restores = 0 => FollowerTrue(v))
      /\ View(v)!Layers = LayersOf(v)
  BY ViewConstants DEF ViewInv
<1>2. /\ UNCHANGED <<log, granted, restores, cursor, sent, page, ask>> /\ saying' = saying
      /\ sync' = "follower" /\ follower' = f
      /\ \/ copy' = [l \in LayersOf(v) |-> IF l \notin granted THEN None
                                           ELSE IF copy[l] # None THEN copy[l] ELSE View(v)!Unread]
         \/ copy' = copy
  BY <1>1 DEF View!Discover, View!door, View!viewer, View!Goes
<1>3. Alone(v)
  <2>1. saying' \in v.channels \cup {None}
    BY <1>1, <1>2 DEF FollowerInv
  <2>2. CASE copy' = copy
    BY <1>1, <1>2, <2>1, <2>2, CopyAlone
  <2>3. CASE copy' = [l \in LayersOf(v) |-> IF l \notin granted THEN None
                                            ELSE IF copy[l] # None THEN copy[l] ELSE View(v)!Unread]
    <3>1. \A l \in LayersOf(v) : copy'[l] \in {None, copy[l], View(v)!Unread}
      BY <2>3
    <3>2. \A l \in LayersOf(v) : copy'[l] # None => CopyIs(v, l, copy'[l], log[l], restores)
      BY <1>1, <3>1, UnreadIs DEF CopiesInv, KnownOf
    <3>3. copy' = [l \in LayersOf(v) |-> copy'[l]]
      BY <2>3
    <3>4. QED
      BY <1>2, <2>1, <3>2, <3>3 DEF Alone
  <2>4. QED
    BY <1>2, <2>2, <2>3
<1>4. todo \subseteq LayersOf(v) /\ todo \subseteq KnownOf(v)'
  BY DEF KnownOf
<1> HIDE DEF todo
<1>5. f \in Followers(v) /\ f.at = "next" /\ f.todo = todo /\ f.tops = follower.tops
  BY <1>1, <1>4, TopsAre DEF Followers, Steps
<1> HIDE DEF f
<1>6. QED
  BY <1>1, <1>2, <1>3, <1>4, <1>5, TopsAre, FollowerGoesOn

LEMMA TurnsTo ==
    ASSUME NEW v, View(v)!LayersConstants, ViewInv(v), View(v)!ReadTheUnfed \/ View(v)!CatchUp
    PROVE  ViewInv(v)'
<1>1. /\ FollowerInv(v) /\ (restores = 0 => FollowerTrue(v)) /\ follower.todo \subseteq LayersOf(v)
      /\ View(v)!Known = KnownOf(v) /\ KnownOf(v) \subseteq LayersOf(v)
  BY KnownIs, TopsAre DEF ViewInv
<1>2. UNCHANGED <<log, granted, restores, copy, saying, cursor, sent, page, ask>> /\ sync' = "follower"
  BY <1>1 DEF View!ReadTheUnfed, View!CatchUp, View!door, View!kept, View!viewer, FollowerInv
<1>3. PICK phase \in {"unfed", "events"}, todo \in SUBSET KnownOf(v) :
         follower' = [follower EXCEPT !.at = "next", !.phase = phase, !.todo = todo]
  <2>1. CASE View(v)!ReadTheUnfed
    <3>1. follower.at = "next" /\ KnownOf(v) \ v.fed \in SUBSET KnownOf(v)
      BY <2>1 DEF View!ReadTheUnfed
    <3>2. follower' = [follower EXCEPT !.phase = "unfed", !.todo = KnownOf(v) \ v.fed]
      BY <1>1, <2>1 DEF View!ReadTheUnfed, View!Goes
    <3>3. follower' = [follower EXCEPT !.at = "next", !.phase = "unfed", !.todo = KnownOf(v) \ v.fed]
      BY <1>1, <3>1, <3>2, TopsAre DEF Followers
    <3>4. QED
      BY <3>1, <3>3
  <2>2. CASE View(v)!CatchUp
    BY <1>1, <2>2 DEF View!CatchUp, View!Goes
  <2>3. QED
    BY <2>1, <2>2
<1> DEFINE f == [follower EXCEPT !.at = "next", !.phase = phase, !.todo = todo]
<1>4. f \in Followers(v) /\ f.at = "next" /\ f.todo = todo /\ f.tops = follower.tops
  BY <1>1, <1>3, TopsAre DEF Followers, Steps
<1>5. follower' = f
  BY <1>3
<1> HIDE DEF f
<1>6. todo \subseteq KnownOf(v)'
  BY <1>2, <1>3 DEF KnownOf
<1>7. QED
  BY <1>1, <1>2, <1>4, <1>5, <1>6, CopyAlone, TopsAre, FollowerGoesOn

LEMMA TakeStep ==
    ASSUME NEW v, View(v)!LayersConstants, ViewInv(v), NEW l \in LayersOf(v), View(v)!Take(l)
    PROVE  ViewInv(v)'
<1> DEFINE to == IF l \notin v.fed THEN v.last + 1
                 ELSE IF follower.phase = "sync" THEN Len(log[l]) ELSE follower.tops[l]
           f == [follower EXCEPT !.at = "read", !.todo = follower.todo \ {l}, !.layer = l, !.to = to]
<1>1. /\ FollowerInv(v) /\ (restores = 0 => FollowerTrue(v)) /\ DoorInv(v) /\ v.last \in Nat
      /\ Len(log[l]) \in Nat /\ Len(log[l]) <= v.last
  BY ViewConstants, LengthIs DEF ViewInv, DoorInv
<1>2. UNCHANGED <<log, granted, restores, copy, saying, cursor, sent, page, ask>> /\ sync' = sync
  BY DEF View!Take, View!door, View!kept, View!viewer
<1>3. follower' = f /\ follower.at = "next" /\ l \in follower.todo
  BY DEF View!Take, View!Goes, View!Whole, View!End
<1>4. /\ to \in 0 .. v.last + 1
      /\ restores = 0 => to = v.last + 1 \/ to <= Len(log[l])
  BY <1>1, TopsAre
<1> HIDE DEF to
<1>5. /\ f \in Followers(v) /\ f.at = "read" /\ f.todo = follower.todo \ {l} /\ f.layer = l
      /\ f.to = to /\ f.tops = follower.tops
  BY <1>1, <1>4, TopsAre DEF Followers, Steps
<1> HIDE DEF f
<1>6. sync = "follower" /\ follower.todo \subseteq KnownOf(v) /\ KnownOf(v)' = KnownOf(v)
  BY <1>1, <1>2, <1>3 DEF FollowerInv, KnownOf
<1>7. FollowerInv(v)'
  BY <1>1, <1>2, <1>3, <1>5, <1>6 DEF FollowerInv
<1>8. restores = 0 => FollowerTrue(v)'
  BY <1>1, <1>2, <1>3, <1>4, <1>5, TopsAre DEF FollowerTrue
<1>9. QED
  BY <1>2, <1>7, <1>8, CopyAlone, AloneIsEnough

\* It follows from where each layer was read to, and from where the door told.
LEMMA Follows ==
    ASSUME NEW v, View(v)!LayersConstants, ViewInv(v), View(v)!Follow \/ View(v)!Hear
    PROVE  ViewInv(v)'
<1>1. /\ FollowerInv(v) /\ DoorInv(v) /\ CopiesInv(v) /\ v.last \in Nat
      /\ View(v)!Known = KnownOf(v) /\ KnownOf(v) \subseteq LayersOf(v)
      /\ View(v)!Layers = LayersOf(v)
  BY ViewConstants, KnownIs DEF ViewInv
<1>2. /\ UNCHANGED <<log, granted, restores, copy, saying, cursor, sent, page, ask>>
      /\ sync' = None
  BY <1>1 DEF View!Follow, View!Hear, View!door, View!kept, View!viewer, FollowerInv
<1>3. Alone(v)
  BY <1>2, CopyAlone
<1> DEFINE F(step, todo, tops) ==
              [View(v)!Idle EXCEPT !.at = step, !.todo = todo, !.tops = tops]
<1>4. ASSUME NEW step \in {"sleep", "poll", "heard"}, NEW todo \in SUBSET LayersOf(v),
             NEW tops \in [LayersOf(v) -> 0 .. v.last], follower' = F(step, todo, tops),
             restores = 0 => \A l \in LayersOf(v) : tops[l] <= Len(log[l])
      PROVE  ViewInv(v)'
  <2> DEFINE i == View(v)!Idle
             f == [i EXCEPT !.at = step, !.todo = todo, !.tops = tops]
  <2>1. i \in Followers(v)
    BY IdleIs
  <2>2. follower' = f
    BY <1>4
  <2> HIDE DEF i
  <2>3. f \in Followers(v) /\ f.at = step /\ f.tops = tops
    BY <1>4, <2>1 DEF Followers, Steps
  <2> HIDE DEF f
  <2>4. QED
    BY <1>2, <1>3, <1>4, <2>2, <2>3, FollowerRests
<1>5. CASE View(v)!Follow
  <2> DEFINE todo == KnownOf(v) \cap v.fed
             tops == [l \in LayersOf(v) |-> IF l \in todo THEN copy[l].last ELSE 0]
  <2>1. follower' = F(IF todo = {} THEN "sleep" ELSE "poll", todo, tops)
    BY <1>1, <1>5 DEF View!Follow, View!Goes
  <2>2. ASSUME NEW l \in KnownOf(v)
        PROVE  copy[l].last \in 0 .. v.last /\ (restores = 0 => copy[l].last <= Len(log[l]))
    <3> DEFINE c == copy[l]
    <3>1. CopyIs(v, l, c, log[l], restores)
      BY <1>1 DEF CopiesInv
    <3> HIDE DEF c
    <3>2. c \in View(v)!Copies /\ c.last <= v.last /\ (restores = 0 => c.last <= Len(log[l]))
      BY <3>1 DEF CopyIs, CopyInv, ReadOf
    <3>3. c.last \in Nat
      BY <3>2, KeptIs
    <3>4. QED
      BY <1>1, <3>2, <3>3 DEF c
  <2>3. tops \in [LayersOf(v) -> 0 .. v.last]
    BY <1>1, <2>2
  <2>4. restores = 0 => \A l \in LayersOf(v) : tops[l] <= Len(log[l])
    BY <1>1, <2>2, LengthIs
  <2>5. todo \in SUBSET LayersOf(v)
    BY <1>1
  <2> HIDE DEF todo, tops, F
  <2>6. QED
    BY <1>4, <2>1, <2>3, <2>4, <2>5
<1>6. CASE View(v)!Hear
  <2> DEFINE todo == {l \in follower.todo : View(v)!End(l) > follower.tops[l]}
             tops == [l \in LayersOf(v) |-> IF l \in todo THEN View(v)!End(l) ELSE 0]
  <2>1. follower' = [View(v)!Idle EXCEPT !.at = "top"] \/ follower' = F("heard", todo, tops)
    BY <1>1, <1>6 DEF View!Hear, View!Goes
  <2>2. CASE follower' = [View(v)!Idle EXCEPT !.at = "top"]
    BY <1>2, <1>3, <2>2, IdleAt
  <2>3. CASE follower' = F("heard", todo, tops)
    <3>1. tops \in [LayersOf(v) -> 0 .. v.last]
      BY <1>1, LengthIs DEF View!End, DoorInv
    <3>2. \A l \in LayersOf(v) : tops[l] <= Len(log[l])
      BY <1>1, LengthIs DEF View!End
    <3>3. todo \in SUBSET LayersOf(v)
      BY <1>1, TopsAre
    <3> HIDE DEF todo, tops, F
    <3>4. QED
      BY <1>4, <2>3, <3>1, <3>2, <3>3
  <2>4. QED
    BY <2>1, <2>2, <2>3
<1>7. QED
  BY <1>5, <1>6

\* The door refuses a position only once a log was cut.
LEMMA ConflictStep ==
    ASSUME NEW v, View(v)!LayersConstants, ViewInv(v), View(v)!Conflict
    PROVE  ViewInv(v)'
<1>1. /\ FollowerInv(v) /\ DoorInv(v) /\ CopiesInv(v) /\ (restores = 0 => FollowerTrue(v))
      /\ View(v)!Layers = LayersOf(v)
  BY ViewConstants DEF ViewInv
<1>2. /\ UNCHANGED <<log, granted, restores, saying, cursor, sent, page, ask>>
      /\ sync' = None /\ follower' = [View(v)!Idle EXCEPT !.at = "top"]
      /\ copy' = [l \in LayersOf(v) |-> IF copy[l] = None THEN None
                                        ELSE [copy[l] EXCEPT !.synced = FALSE]]
  BY <1>1 DEF View!Conflict, View!door, View!viewer, View!Goes, FollowerInv
<1>3. restores # 0
  <2>1. PICK l \in follower.todo : follower.tops[l] > Len(log[l])
    BY DEF View!Conflict, View!PastTheEnd, View!End
  <2>2. l \in LayersOf(v) /\ follower.tops[l] \in Nat /\ Len(log[l]) \in Nat
    BY <1>1, TopsAre, LengthIs
  <2>3. QED
    BY <1>1, <2>1, <2>2 DEF FollowerTrue
<1>4. ASSUME NEW l \in LayersOf(v), copy'[l] # None
      PROVE  CopyIs(v, l, copy'[l], log[l], restores)
  <2>1. copy[l] # None /\ copy'[l] = [copy[l] EXCEPT !.synced = FALSE]
    BY <1>2, <1>4
  <2>2. CopyIs(v, l, copy[l], log[l], restores)
    BY <1>1, <2>1 DEF CopiesInv, KnownOf
  <2> DEFINE c == copy[l]
             d == copy'[l]
  <2>3. d = [c EXCEPT !.synced = FALSE] /\ CopyIs(v, l, c, log[l], restores)
    BY <2>1, <2>2
  <2> HIDE DEF c, d
  <2>4. CopyIs(v, l, d, log[l], restores)
    BY <1>3, <2>3, AgainIs
  <2>5. QED
    BY <2>4 DEF d
<1>5. copy' = [l \in LayersOf(v) |-> copy'[l]] /\ saying' \in v.channels \cup {None}
  BY <1>1, <1>2 DEF FollowerInv
<1>6. Alone(v)
  BY <1>2, <1>4, <1>5 DEF Alone
<1>7. QED
  BY <1>2, <1>6, IdleAt

-----------------------------------------------------------------------------
(* What is read into the copy.                                             *)

LEMMA ReadEntriesStep ==
    ASSUME NEW v, View(v)!LayersConstants, ViewInv(v), View(v)!ReadEntries
    PROVE  ViewInv(v)'
<1> DEFINE l == follower.layer
           c == copy[l]
           from == View(v)!From(l)
           to == follower.to
           d == View(v)!WithEntries(c, l, from, to)
           f == [follower EXCEPT !.at = "next", !.layer = None, !.to = 0]
<1>1. /\ FollowerInv(v) /\ DoorInv(v) /\ CopiesInv(v) /\ (restores = 0 => FollowerTrue(v))
      /\ None \notin View(v)!Copies /\ v.last \in Nat
  BY ViewConstants DEF ViewInv
<1>2. /\ follower.at = "read" /\ l \in v.channels
      /\ UNCHANGED <<log, granted, restores, saying, cursor, sent, page, ask, sync>>
      /\ copy' = [copy EXCEPT ![l] = d] /\ follower' = f
  BY DEF View!ReadEntries, View!door, View!viewer, View!Goes
<1>3. /\ l \in KnownOf(v) /\ l \in LayersOf(v) /\ sync = "follower"
      /\ follower.todo \subseteq KnownOf(v) /\ saying \in v.channels \cup {None}
  BY <1>1, <1>2 DEF FollowerInv, KnownOf
<1>4. CopyIs(v, l, c, log[l], restores)
  BY <1>1, <1>3 DEF CopiesInv
<1>5. Reads(v, l, c, from, to)
  <2>1. from \in {0, c.last}
    BY DEF View!From
  <2>2. to \in 0 .. v.last + 1
    BY <1>1, TopsAre DEF Followers
  <2>3. restores = 0 => to = v.last + 1 \/ to <= Len(log[l])
    BY <1>1, <1>2 DEF FollowerTrue
  <2> HIDE DEF from, to
  <2>4. QED
    BY <2>1, <2>2, <2>3 DEF Reads
<1>6. f \in Followers(v) /\ f.at = "next" /\ f.todo = follower.todo /\ f.tops = follower.tops
  <2>1. 0 \in 0 .. v.last + 1
    BY <1>1
  <2>2. QED
    BY <1>1, <2>1, TopsAre DEF Followers, Steps
<1> HIDE DEF f, from, to, c, l
<1>7. CopyIs(v, l, d, log[l], restores)
  BY <1>1, <1>2, <1>4, <1>5, ReadingEntries
<1> HIDE DEF d
<1>8. d # None
  BY <1>1, <1>7 DEF CopyIs, CopyInv
<1>9. copy' = [k \in LayersOf(v) |-> IF k = l THEN d ELSE copy[k]]
  BY <1>1, <1>2, <1>3 DEF CopiesInv
<1>10. ASSUME NEW k \in LayersOf(v), copy'[k] # None
       PROVE  CopyIs(v, k, copy'[k], log[k], restores)
  <2>1. CASE k = l
    BY <1>7, <1>9, <2>1
  <2>2. CASE k # l
    BY <1>1, <1>9, <1>10, <2>2 DEF CopiesInv, KnownOf
  <2>3. QED
    BY <2>1, <2>2
<1>11. copy' = [k \in LayersOf(v) |-> copy'[k]]
  BY <1>9
<1>12. Alone(v)
  BY <1>2, <1>3, <1>10, <1>11 DEF Alone
<1>13. f.todo \subseteq KnownOf(v)'
  BY <1>3, <1>6, <1>8, <1>9 DEF KnownOf
<1>14. QED
  BY <1>1, <1>2, <1>3, <1>6, <1>12, <1>13, TopsAre, FollowerGoesOn

\* The tuples that wait to be taken.
LEMMA PendingIs ==
    ASSUME NEW v, View(v)!LayersConstants, DoorInv(v), NEW l \in LayersOf(v)
    PROVE  /\ {View(v)!At(l, i) : i \in View(v)!Pending(l)} \subseteq Nat \X Nat
           /\ IsFiniteSet({View(v)!At(l, i) : i \in View(v)!Pending(l)})
           /\ \A e \in {View(v)!At(l, i) : i \in View(v)!Pending(l)} :
                 /\ e[1] \in 1 .. v.last
                 /\ restores = 0 => e[1] \in 1 .. Len(log[l]) /\ e[2] = 0 /\ log[l][e[1]].of = 0
<1> DEFINE got == {View(v)!At(l, i) : i \in View(v)!Pending(l)}
<1>1. \A i \in View(v)!Pending(l) : i \in 1 .. Len(log[l]) /\ log[l][i].of = 0
  BY DEF View!Pending, View!End
<1>2. got \subseteq View(v)!Entries(l, 0)
  <2>1. \A i \in 1 .. Len(log[l]) : i \in 0 + 1 .. Len(log[l])
    BY LengthIs
  <2>2. QED
    BY <1>1, <2>1 DEF View!Entries, View!End
<1>3. IsFiniteSet(got)
  BY <1>2, EntriesAre, FS_Subset
<1>4. QED
  BY <1>1, <1>3, AtIs

LEMMA ReadTuplesStep ==
    ASSUME NEW v, View(v)!LayersConstants, ViewInv(v), View(v)!ReadTuples
    PROVE  ViewInv(v)'
<1> DEFINE l == follower.layer
           got == {View(v)!At(l, i) : i \in View(v)!Pending(l)}
           f == [follower EXCEPT !.at = "taken", !.got = got]
<1>1. /\ FollowerInv(v) /\ DoorInv(v) /\ CopiesInv(v) /\ (restores = 0 => FollowerTrue(v))
  BY DEF ViewInv
<1>2. /\ follower.at = "read" /\ l \in v.spaces /\ follower' = f
      /\ UNCHANGED <<log, granted, restores, copy, saying, cursor, sent, page, ask>>
      /\ sync' = sync
  BY DEF View!ReadTuples, View!door, View!kept, View!viewer, View!Goes
<1>3. /\ l \in KnownOf(v) /\ l \in LayersOf(v) /\ sync = "follower"
      /\ follower.todo \subseteq KnownOf(v) /\ KnownOf(v)' = KnownOf(v)
  BY <1>1, <1>2 DEF FollowerInv, KnownOf
<1>4. /\ got \subseteq Nat \X Nat /\ IsFiniteSet(got)
      /\ \A e \in got : /\ e[1] \in 1 .. v.last
                        /\ restores = 0 => e[1] \in 1 .. Len(log[l]) /\ e[2] = 0 /\ log[l][e[1]].of = 0
  BY <1>1, <1>3, PendingIs
<1>5. ASSUME restores = 0, NEW e \in copy[l].entries
      PROVE  e \in got \/ \E j \in 1 .. Len(log[l]) : log[l][j].of = e[1]
  <2>1. CopyIs(v, l, copy[l], log[l], restores)
    BY <1>1, <1>3 DEF CopiesInv
  <2>2. /\ e[1] \in 1 .. Len(log[l]) /\ e[2] = 0 /\ log[l][e[1]].of = 0
        /\ copy[l] \in View(v)!Copies
    BY <1>2, <1>5, <2>1 DEF CopyIs, ReadOf, CopyInv
  <2>3. e \in Nat \X Nat
    BY <1>5, <2>2, KeptIs
  <2>4. e = <<e[1], 0>>
    BY <2>2, <2>3
  <2>5. View(v)!At(l, e[1]) = e
    BY <1>1, <1>3, <1>5, <2>2, <2>4, AtIs
  <2>6. CASE e[1] \in View(v)!Pending(l)
    BY <2>5, <2>6
  <2>7. CASE e[1] \notin View(v)!Pending(l)
    BY <2>2, <2>7 DEF View!Pending, View!Takes, View!End
  <2>8. QED
    BY <2>6, <2>7
<1> HIDE DEF got
<1>6. /\ f \in Followers(v) /\ f.at = "taken" /\ f.todo = follower.todo /\ f.layer = l
      /\ f.to = follower.to /\ f.got = got /\ f.tops = follower.tops
  BY <1>1, <1>4, TopsAre DEF Followers, Steps
<1> HIDE DEF f
<1>7. FollowerInv(v)'
  BY <1>1, <1>2, <1>3, <1>4, <1>6 DEF FollowerInv
<1>8. restores = 0 => FollowerTrue(v)'
  BY <1>1, <1>2, <1>4, <1>5, <1>6 DEF FollowerTrue
<1>9. QED
  BY <1>2, <1>7, <1>8, CopyAlone, AloneIsEnough

\* What was found of a tuplespace: the copy that a last read leaves.
LEMMA FoundIs ==
    ASSUME NEW v, View(v)!LayersConstants, ViewInv(v), View(v)!ReadTakes
    PROVE  /\ follower.layer \in KnownOf(v) /\ follower.layer \in v.spaces
           /\ copy' = [copy EXCEPT ![follower.layer] = copy'[follower.layer]]
           /\ FoundOf(v, follower.layer, follower.got, copy'[follower.layer])
<1> DEFINE l == follower.layer
           c == copy[l]
           to == follower.to
           got == follower.got
           d == View(v)!WithTuples(c, l, got, to)
<1>1. /\ FollowerInv(v) /\ DoorInv(v) /\ CopiesInv(v) /\ (restores = 0 => FollowerTrue(v))
  BY DEF ViewInv
<1>2. follower.at = "taken" /\ copy' = [copy EXCEPT ![l] = d]
  BY DEF View!ReadTakes
<1>3. /\ l \in KnownOf(v) /\ l \in LayersOf(v) /\ l \in v.spaces
      /\ \A e \in got : e[1] \in 1 .. v.last
      /\ IsFiniteSet(got)
  BY <1>1, <1>2 DEF FollowerInv, KnownOf
<1>4. got \subseteq Nat \X Nat /\ to \in 0 .. v.last + 1
  BY <1>1, TopsAre DEF Followers
<1>5. restores = 0 => /\ to = v.last + 1 \/ to <= Len(log[l])
                      /\ \A e \in got : /\ e[1] \in 1 .. Len(log[l]) /\ e[2] = 0
                                        /\ log[l][e[1]].of = 0
  BY <1>1, <1>2 DEF FollowerTrue
<1>6. CopyIs(v, l, c, log[l], restores)
  BY <1>1, <1>3 DEF CopiesInv
<1>7. copy'[l] = d /\ copy' = [copy EXCEPT ![l] = copy'[l]]
  BY <1>1, <1>2, <1>3 DEF CopiesInv
<1> HIDE DEF to, got, c, l
<1>8. FoundOf(v, l, got, d)
  BY <1>1, <1>3, <1>4, <1>5, <1>6, ReadingTuples
<1> HIDE DEF d
<1>9. QED
  BY <1>3, <1>7, <1>8 DEF l, got

LEMMA ReadTakesStep ==
    ASSUME NEW v, View(v)!LayersConstants, ViewInv(v), View(v)!ReadTakes
    PROVE  ViewInv(v)'
<1> DEFINE l == follower.layer
           d == copy'[l]
           f == [follower EXCEPT !.at = "next", !.layer = None, !.to = 0, !.got = {}]
<1>1. /\ FollowerInv(v) /\ DoorInv(v) /\ CopiesInv(v) /\ (restores = 0 => FollowerTrue(v))
      /\ None \notin View(v)!Copies /\ v.last \in Nat
  BY ViewConstants DEF ViewInv
<1>2. /\ follower.at = "taken" /\ follower' = f
      /\ UNCHANGED <<log, granted, restores, saying, cursor, sent, page, ask, sync>>
  BY DEF View!ReadTakes, View!door, View!viewer, View!Goes
<1>3. /\ l \in KnownOf(v) /\ l \in LayersOf(v) /\ sync = "follower"
      /\ follower.todo \subseteq KnownOf(v) /\ saying \in v.channels \cup {None}
  BY <1>1, <1>2 DEF FollowerInv, KnownOf
<1>4. CopyIs(v, l, d, log[l], restores) /\ copy' = [copy EXCEPT ![l] = d]
  BY FoundIs DEF FoundOf
<1>5. f \in Followers(v) /\ f.at = "next" /\ f.todo = follower.todo /\ f.tops = follower.tops
  <2>1. 0 \in 0 .. v.last + 1
    BY <1>1
  <2>2. QED
    BY <1>1, <2>1, TopsAre DEF Followers, Steps
<1> HIDE DEF f, d
<1>6. d # None
  BY <1>1, <1>4 DEF CopyIs, CopyInv
<1>7. copy' = [k \in LayersOf(v) |-> IF k = l THEN d ELSE copy[k]]
  BY <1>1, <1>3, <1>4 DEF CopiesInv
<1>8. ASSUME NEW k \in LayersOf(v), copy'[k] # None
      PROVE  CopyIs(v, k, copy'[k], log[k], restores)
  <2>1. CASE k = l
    BY <1>4, <1>7, <2>1
  <2>2. CASE k # l
    BY <1>1, <1>7, <1>8, <2>2 DEF CopiesInv, KnownOf
  <2>3. QED
    BY <2>1, <2>2
<1>9. copy' = [k \in LayersOf(v) |-> copy'[k]]
  BY <1>7
<1>10. Alone(v)
  BY <1>2, <1>3, <1>8, <1>9 DEF Alone
<1>11. f.todo \subseteq KnownOf(v)'
  BY <1>3, <1>5, <1>6, <1>7 DEF KnownOf
<1>12. QED
  BY <1>1, <1>2, <1>3, <1>5, <1>10, <1>11, TopsAre, FollowerGoesOn

\* A post's catch-up: the follower does not read meanwhile.
LEMMA SaidIsReadStep ==
    ASSUME NEW v, View(v)!LayersConstants, ViewInv(v), View(v)!SaidIsRead
    PROVE  ViewInv(v)'
<1> DEFINE l == saying
           c == copy[l]
           d == View(v)!WithEntries(c, l, c.last, v.last + 1)
<1>1. /\ FollowerInv(v) /\ DoorInv(v) /\ CopiesInv(v) /\ (restores = 0 => FollowerTrue(v))
      /\ None \notin View(v)!Copies /\ v.last \in Nat
  BY ViewConstants DEF ViewInv
<1>2. /\ UNCHANGED <<log, granted, restores, cursor, sent, page, ask, sync, follower>>
      /\ saying' = None /\ l # None /\ sync = None
      /\ copy' = copy \/ (copy[l] # None /\ copy' = [copy EXCEPT ![l] = d])
  BY DEF View!SaidIsRead, View!door, View!viewer, View!Whole
<1>3. l \in v.channels /\ l \in LayersOf(v) /\ l \notin v.spaces
  BY <1>1, <1>2, ViewConstants DEF FollowerInv, LayersOf
<1>4. follower.at \notin {"next", "read", "taken"}
  BY <1>1, <1>2, ViewConstants DEF FollowerInv
<1>5. CASE copy' = copy
  <2>1. Alone(v)
    BY <1>1, <1>2, <1>5 DEF Alone, CopiesInv, KnownOf
  <2>2. QED
    BY <1>1, <1>2, <1>4, <2>1, TopsAre, FollowerRests
<1>6. CASE copy[l] # None /\ copy' = [copy EXCEPT ![l] = d]
  <2>1. CopyIs(v, l, c, log[l], restores)
    BY <1>1, <1>3, <1>6 DEF CopiesInv, KnownOf
  <2>2. Reads(v, l, c, c.last, v.last + 1)
    BY <1>1 DEF Reads
  <2>3. CopyIs(v, l, d, log[l], restores)
    <3> HIDE DEF c, l
    <3>1. QED
      BY <1>1, <1>3, <2>1, <2>2, ReadingEntries
  <2> HIDE DEF d
  <2>4. copy' = [k \in LayersOf(v) |-> IF k = l THEN d ELSE copy[k]]
    BY <1>1, <1>3, <1>6 DEF CopiesInv
  <2>5. ASSUME NEW k \in LayersOf(v), copy'[k] # None
        PROVE  CopyIs(v, k, copy'[k], log[k], restores)
    <3>1. CASE k = l
      BY <2>3, <2>4, <3>1
    <3>2. CASE k # l
      BY <1>1, <2>4, <2>5, <3>2 DEF CopiesInv, KnownOf
    <3>3. QED
      BY <3>1, <3>2
  <2>6. copy' = [k \in LayersOf(v) |-> copy'[k]]
    BY <2>4
  <2>7. Alone(v)
    BY <1>2, <2>5, <2>6 DEF Alone
  <2>8. FollowerInv(v) /\ sync' = None
    BY <1>1, <1>2
  <2>9. QED
    BY <1>1, <1>2, <1>4, <2>7, <2>8, TopsAre, FollowerRests
<1>7. QED
  BY <1>2, <1>5, <1>6

LEMMA RestartStep ==
    ASSUME NEW v, View(v)!LayersConstants, ViewInv(v), View(v)!Restart
    PROVE  ViewInv(v)'
<1>1. /\ DoorInv(v) /\ PagesInv(v) /\ (restores = 0 => PagesTrue(v))
      /\ View(v)!Layers = LayersOf(v) /\ None # "follower"
  BY ViewConstants DEF ViewInv
<1>2. /\ UNCHANGED <<log, granted, restores, cursor, sent, page>> /\ sync' = None
      /\ copy' = [l \in LayersOf(v) |-> None] /\ follower' = View(v)!Idle /\ saying' = None
      /\ ask' = [t \in v.tabs |-> None]
  BY <1>1 DEF View!Restart, View!door
<1>3. DoorInv(v)' /\ CopiesInv(v)'
  BY <1>1, <1>2, DoorStays DEF CopiesInv, KnownOf
<1>4. View(v)!Idle.at = "off"
  BY DEF View!Idle
<1>5. FollowerInv(v)'
  BY <1>1, <1>2, <1>4, IdleIs DEF FollowerInv
<1>6. restores' = 0 => FollowerTrue(v)'
  BY <1>1, <1>2, <1>4, IdleIs, LengthIs DEF FollowerTrue
<1>7. PagesInv(v)'
  BY <1>1, <1>2 DEF PagesInv, AskIs
<1>8. restores' = 0 => PagesTrue(v)'
  BY <1>1, <1>2 DEF PagesTrue, PageIs
<1>9. QED
  BY <1>3, <1>5, <1>6, <1>7, <1>8 DEF ViewInv

-----------------------------------------------------------------------------
(* The pages' steps.                                                       *)

LEMMA PagesAreEnough ==
    ASSUME NEW v, View(v)!LayersConstants, ViewInv(v),
           UNCHANGED <<log, granted, restores, copy, follower, sync, saying>>,
           PagesInv(v)', restores = 0 => PagesTrue(v)'
    PROVE  ViewInv(v)'
<1>1. DoorInv(v) /\ FollowerInv(v)
  BY DEF ViewInv
<1>2. LogGrows(v) /\ DoorInv(v)'
  BY <1>1, LogStays, DoorStays
<1>3. KnownOf(v)' = KnownOf(v) /\ saying' \in v.channels \cup {None}
  BY <1>1 DEF KnownOf, FollowerInv
<1>4. QED
  BY <1>2, <1>3, CopiesStay, FollowerStays DEF ViewInv

\* A tab that does not move, while more is sent.
LEMMA TabStays ==
    ASSUME NEW v, PagesInv(v), NEW t \in v.tabs, UNCHANGED <<log, restores>>,
           page'[t] = page[t], \A l \in LayersOf(v) : sent[l] \subseteq sent'[l]
    PROVE  /\ page'[t] # None => /\ page'[t].layer \in LayersOf(v)
                                 /\ page'[t].after \in 0 .. v.last
           /\ ask'[t] = ask[t] => AskIs(v, t)'
           /\ PageIs(v, t) => PageIs(v, t)'
<1>1. /\ AskIs(v, t)
      /\ page[t] # None => /\ page[t].layer \in LayersOf(v)
                           /\ page[t].after \in 0 .. v.last
  BY DEF PagesInv
<1>2. ask'[t] = ask[t] => AskIs(v, t)'
  BY <1>1 DEF AskIs
<1>3. PageIs(v, t) => PageIs(v, t)'
  BY <1>1 DEF PageIs
<1>4. QED
  BY <1>1, <1>2, <1>3

LEMMA OpenStep ==
    ASSUME NEW v, View(v)!LayersConstants, ViewInv(v), NEW t \in v.tabs, NEW l \in LayersOf(v),
           View(v)!Open(t, l)
    PROVE  ViewInv(v)'
<1>1. /\ PagesInv(v) /\ CopiesInv(v) /\ DoorInv(v) /\ (restores = 0 => PagesTrue(v))
      /\ View(v)!Known = KnownOf(v) /\ v.last \in Nat
  BY KnownIs, ViewConstants DEF ViewInv
<1>2. /\ UNCHANGED <<log, granted, restores, copy, follower, sync, saying, cursor, sent>>
      /\ page[t] = None /\ ask[t] = None
      /\ page = [u \in v.tabs |-> page[u]] /\ ask = [u \in v.tabs |-> ask[u]]
  BY <1>1 DEF View!Open, View!door, View!kept, PagesInv
<1>3. CASE l \in KnownOf(v) /\ page' = page
           /\ ask' = [ask EXCEPT ![t] = [layer |-> l, opens |-> TRUE, found |-> copy[l]]]
  <2>1. CopyIs(v, l, copy[l], log[l], restores)
    BY <1>1, <1>3 DEF CopiesInv
  <2>2. /\ ask'[t] = [layer |-> l, opens |-> TRUE, found |-> copy[l]]
        /\ \A u \in v.tabs : u # t => ask'[u] = ask[u]
        /\ ask' = [u \in v.tabs |-> ask'[u]]
    BY <1>2, <1>3
  <2>3. AskIs(v, t)'
    BY <1>2, <2>1, <2>2 DEF AskIs
  <2>4. PagesInv(v)'
    BY <1>1, <1>2, <1>3, <2>2, <2>3, TabStays DEF PagesInv
  <2>5. restores = 0 => PagesTrue(v)'
    BY <1>1, <1>2, <1>3 DEF PagesTrue, PageIs
  <2>6. QED
    BY <1>2, <2>4, <2>5, PagesAreEnough
<1>4. CASE /\ ask' = ask
           /\ page' = [page EXCEPT ![t] = [layer |-> l, after |-> 0, watch |-> FALSE, has |-> {},
                                           aged |-> {}]]
  <2>1. /\ page'[t].layer = l /\ page'[t].after = 0 /\ \A u \in v.tabs : u # t => page'[u] = page[u]
        /\ page' = [u \in v.tabs |-> page'[u]]
    BY <1>2, <1>4
  <2>2. \A u \in v.tabs : AskIs(v, u)'
    <3>1. AskIs(v, t)'
      BY <1>2, <1>4 DEF AskIs
    <3>2. QED
      BY <1>1, <1>2, <1>4, <2>1, <3>1, TabStays
  <2>3. PagesInv(v)'
    <3>1. ASSUME NEW u \in v.tabs, page'[u] # None
          PROVE  page'[u].layer \in LayersOf(v) /\ page'[u].after \in 0 .. v.last
      <4>1. CASE u = t
        BY <1>1, <2>1, <4>1
      <4>2. CASE u # t
        BY <1>1, <1>2, <2>1, <3>1, <4>2 DEF PagesInv
      <4>3. QED
        BY <4>1, <4>2
    <3>2. QED
      BY <1>1, <1>2, <1>4, <2>1, <2>2, <3>1 DEF PagesInv
  <2>4. ASSUME restores = 0 PROVE PagesTrue(v)'
    <3>1. PageIs(v, t)'
      BY <1>1, <1>2, <2>1, LengthIs DEF PageIs
    <3>2. QED
      BY <1>1, <1>2, <2>1, <2>4, <3>1, TabStays DEF PagesTrue
  <2>5. QED
    BY <1>2, <2>3, <2>4, PagesAreEnough
<1>5. QED
  BY <1>1, <1>3, <1>4 DEF View!Open

LEMMA AskStep ==
    ASSUME NEW v, View(v)!LayersConstants, ViewInv(v), NEW t \in v.tabs, View(v)!Ask(t)
    PROVE  ViewInv(v)'
<1> DEFINE l == page[t].layer
<1>1. /\ PagesInv(v) /\ CopiesInv(v) /\ DoorInv(v) /\ (restores = 0 => PagesTrue(v))
      /\ View(v)!Known = KnownOf(v) /\ KnownOf(v) \subseteq LayersOf(v)
  BY KnownIs DEF ViewInv
<1>2. /\ UNCHANGED <<log, granted, restores, copy, follower, sync, saying, cursor, sent, page>>
      /\ page[t] # None /\ ask = [u \in v.tabs |-> ask[u]] /\ l \in KnownOf(v)
      /\ ask' = [ask EXCEPT ![t] = [layer |-> l, opens |-> FALSE, found |-> copy[l]]]
  BY <1>1 DEF View!Ask, View!door, View!kept, PagesInv
<1>3. CopyIs(v, l, copy[l], log[l], restores) /\ l \in LayersOf(v)
  BY <1>1, <1>2 DEF CopiesInv
<1>4. /\ ask'[t] = [layer |-> l, opens |-> FALSE, found |-> copy[l]]
      /\ \A u \in v.tabs : u # t => ask'[u] = ask[u]
      /\ ask' = [u \in v.tabs |-> ask'[u]]
  BY <1>2
<1>5. AskIs(v, t)'
  BY <1>2, <1>3, <1>4 DEF AskIs
<1>6. PagesInv(v)'
  BY <1>1, <1>2, <1>4, <1>5, TabStays DEF PagesInv
<1>7. restores = 0 => PagesTrue(v)'
  BY <1>1, <1>2 DEF PagesTrue, PageIs
<1>8. QED
  BY <1>2, <1>6, <1>7, PagesAreEnough

\* What an answer shows, or tells of, is all that lies between where the page asks from and
\* where the copy ends.
LEMMA AnswerShows ==
    ASSUME NEW v, View(v)!LayersConstants, NEW l \in v.channels, NEW c,
           CopyIs(v, l, c, log[l], restores), restores = 0, NEW i \in 1 .. c.last
    PROVE  <<i, 0>> \in c.entries \/ i \in View(v)!Aged(l, c)
<1>1. \A j \in 1 .. c.last : j + v.window > c.last => <<j, 0>> \in c.entries
  BY DEF CopyIs, ReadOf
<1>2. c.last \in Nat /\ v.window \in Nat
  BY KeptIs, ViewConstants DEF CopyIs, CopyInv
<1>3. CASE i + v.window > c.last
  BY <1>1, <1>3
<1>4. CASE i + v.window <= c.last
  BY <1>4 DEF View!Aged
<1>5. QED
  BY <1>2, <1>3, <1>4

LEMMA AnswerStep ==
    ASSUME NEW v, View(v)!LayersConstants, ViewInv(v), NEW t \in v.tabs, View(v)!Answer(t)
    PROVE  ViewInv(v)'
<1> DEFINE l == ask[t].layer
           c == ask[t].found
           opened == ask[t].opens
           shows == ~opened \/ c.synced
           from == IF opened THEN 0 ELSE page[t].after
           new == IF shows THEN {e \in c.entries \cup c.taken : e[1] > from} ELSE {}
           had == IF opened \/ l \in v.spaces THEN {} ELSE page[t].has
           old == View(v)!Aged(l, c)
           aged == IF opened THEN old ELSE page[t].aged \cup {i \in old : i > page[t].after}
           p == [layer |-> l, after |-> c.last, watch |-> TRUE, has |-> had \cup new, aged |-> aged]
<1>1. /\ PagesInv(v) /\ CopiesInv(v) /\ DoorInv(v) /\ (restores = 0 => PagesTrue(v))
      /\ v.last \in Nat /\ v.window \in Nat /\ AskIs(v, t)
  BY ViewConstants DEF ViewInv, PagesInv
<1>2. /\ UNCHANGED <<log, granted, restores, copy, follower, sync, saying>>
      /\ ask[t] # None /\ ask' = [ask EXCEPT ![t] = None]
      /\ cursor' = IF shows THEN [cursor EXCEPT ![l] = c.last] ELSE cursor
      /\ sent' = IF shows THEN [sent EXCEPT ![l] = sent[l] \cup {e[1] : e \in new} \cup old]
                          ELSE sent
      /\ page' = [page EXCEPT ![t] = p] \/ page' = page
  <2>1. /\ UNCHANGED <<log, granted, restores, copy, follower, sync, saying>>
        /\ ask[t] # None /\ ask' = [ask EXCEPT ![t] = None]
    BY DEF View!Answer, View!door, View!kept
  <2>2. /\ cursor' = IF shows THEN [cursor EXCEPT ![l] = c.last] ELSE cursor
        /\ sent' = IF shows THEN [sent EXCEPT ![l] = sent[l] \cup {e[1] : e \in new} \cup old]
                            ELSE sent
    BY DEF View!Answer, View!NewOn, View!Mark
  <2>3. page' = [page EXCEPT ![t] = p] \/ page' = page
    BY DEF View!Answer, View!NewOn, View!NextAfter
  <2>4. QED
    BY <2>1, <2>2, <2>3
<1>3. /\ l \in LayersOf(v) /\ opened \in BOOLEAN /\ CopyIs(v, l, c, log[l], restores)
      /\ ~opened => page[t] # None /\ page[t].layer = l
      /\ cursor \in [LayersOf(v) -> 0 .. v.last] /\ sent = [k \in LayersOf(v) |-> sent[k]]
      /\ page = [u \in v.tabs |-> page[u]] /\ ask = [u \in v.tabs |-> ask[u]]
      /\ page[t] # None => page[t].after \in 0 .. v.last
  BY <1>1, <1>2 DEF AskIs, PagesInv
<1>4. c \in View(v)!Copies /\ c.last \in 0 .. v.last
  BY <1>1, <1>3, KeptIs DEF CopyIs, CopyInv
<1>5. from \in 0 .. v.last /\ (l \in v.channels => had = IF opened THEN {} ELSE page[t].has)
  BY <1>1, <1>3, ViewConstants
<1>6. ASSUME restores = 0, l \in v.channels, NEW i \in 1 .. c.last
      PROVE  /\ shows
             /\ <<i, 0>> \in had \cup new \/ i \in aged
             /\ i \in sent[l] \cup {e[1] : e \in new} \cup old
  <2>1. shows
    <3>1. ReadOf(v, l, c, log[l])
      BY <1>3, <1>6 DEF CopyIs
    <3>2. c.last # 0
      BY <1>4, <1>6
    <3>3. c.synced
      BY <1>4, <3>1, <3>2 DEF ReadOf, View!Copies
    <3>4. QED
      BY <3>3
  <2>2. <<i, 0>> \in c.entries \/ i \in old
    BY <1>3, <1>6, AnswerShows
  <2>3. CASE i > from
    <3>1. CASE <<i, 0>> \in c.entries
      <4>1. <<i, 0>> \in new /\ <<i, 0>>[1] = i
        BY <2>1, <2>3, <3>1
      <4> HIDE DEF new
      <4>2. i \in {e[1] : e \in new}
        BY <4>1
      <4>3. QED
        BY <2>1, <4>1, <4>2
    <3>2. CASE i \in old
      BY <2>1, <2>3, <3>2
    <3>3. QED
      BY <2>2, <3>1, <3>2
  <2>4. CASE ~(i > from)
    <3>1. ~opened /\ from = page[t].after /\ page[t] # None /\ page[t].layer = l
      BY <1>3, <1>6, <2>4
    <3>2. PageIs(v, t)
      BY <1>1, <1>6 DEF PagesTrue
    <3>3. i \in 1 .. page[t].after
      BY <1>4, <1>5, <1>6, <2>4, <3>1
    <3>4. i \in sent[l] /\ (<<i, 0>> \in page[t].has \/ i \in page[t].aged)
      BY <1>6, <3>1, <3>2, <3>3 DEF PageIs
    <3>5. QED
      BY <1>5, <1>6, <2>1, <3>1, <3>4
  <2>5. QED
    BY <2>3, <2>4
<1>7. restores = 0 /\ l \in v.channels => c.last <= Len(log[l])
  BY <1>3 DEF CopyIs, ReadOf
<1>8. /\ p.layer = l /\ p.after = c.last /\ p.has = had \cup new /\ p.aged = aged
      /\ \A k \in LayersOf(v) : sent[k] \subseteq sent'[k]
      /\ sent' = [k \in LayersOf(v) |-> sent'[k]]
      /\ cursor' \in [LayersOf(v) -> 0 .. v.last]
      /\ \A k \in LayersOf(v) : cursor'[k] = cursor[k] \/ (shows /\ k = l /\ cursor'[k] = c.last)
      /\ shows => sent'[l] = sent[l] \cup {e[1] : e \in new} \cup old
  <2>1. p.layer = l /\ p.after = c.last /\ p.has = had \cup new /\ p.aged = aged
    OBVIOUS
  <2> HIDE DEF p, shows, new, old, aged, had, from, c, l, opened
  <2>2. QED
    BY <1>2, <1>3, <1>4, <2>1
<1> HIDE DEF p, shows, new, old, aged, had, from, c, l, opened
<1>9. /\ ask'[t] = None /\ \A u \in v.tabs : u # t => ask'[u] = ask[u] /\ page'[u] = page[u]
      /\ ask' = [u \in v.tabs |-> ask'[u]] /\ page' = [u \in v.tabs |-> page'[u]]
      /\ page'[t] = page[t] \/ page'[t] = p
  BY <1>2, <1>3
<1>10. PagesInv(v)'
  <2>1. \A u \in v.tabs : AskIs(v, u)'
    <3>1. AskIs(v, t)'
      BY <1>9 DEF AskIs
    <3>2. QED
      BY <1>1, <1>2, <1>8, <1>9, <3>1, TabStays
  <2>2. \A u \in v.tabs : page'[u] # None => /\ page'[u].layer \in LayersOf(v)
                                             /\ page'[u].after \in 0 .. v.last
    BY <1>1, <1>2, <1>3, <1>4, <1>8, <1>9, TabStays
  <2>3. QED
    BY <1>8, <1>9, <2>1, <2>2 DEF PagesInv
<1>11. ASSUME restores = 0 PROVE PagesTrue(v)'
  <2>1. PagesTrue(v)
    BY <1>1, <1>11
  <2>2. ASSUME NEW k \in v.channels, NEW i \in 1 .. cursor'[k] PROVE i \in sent'[k]
    <3>1. k \in LayersOf(v)
      BY DEF LayersOf
    <3>2. CASE cursor'[k] = cursor[k]
      BY <1>8, <2>1, <2>2, <3>1, <3>2 DEF PagesTrue
    <3>3. CASE shows /\ k = l /\ cursor'[k] = c.last
      BY <1>6, <1>8, <1>11, <2>2, <3>3
    <3>4. QED
      BY <1>8, <3>1, <3>2, <3>3
  <2>3. ASSUME NEW u \in v.tabs PROVE PageIs(v, u)'
    <3>1. CASE page'[u] = page[u]
      BY <1>1, <1>2, <1>8, <2>1, <3>1, TabStays DEF PagesTrue
    <3>2. CASE u = t /\ page'[t] = p
      <4>1. ASSUME l \in v.channels, NEW i \in 1 .. c.last
            PROVE  /\ i \in sent'[l]
                   /\ <<i, 0>> \in p.has \/ i \in p.aged
        BY <1>6, <1>8, <1>11, <4>1
      <4>2. QED
        BY <1>2, <1>7, <1>8, <1>11, <3>2, <4>1 DEF PageIs
    <3>3. QED
      BY <1>9, <3>1, <3>2
  <2>4. QED
    BY <2>2, <2>3 DEF PagesTrue
<1>12. QED
  BY <1>2, <1>10, <1>11, PagesAreEnough

-----------------------------------------------------------------------------
(* The invariant of the page, and what it says.                            *)

LEMMA ViewInitial ==
    ASSUME NEW v, View(v)!LayersConstants, View(v)!Init
    PROVE  ViewInv(v)
<1>1. View(v)!Layers = LayersOf(v) /\ v.last \in Nat /\ None # "follower"
  BY ViewConstants
<1>2. /\ log = [l \in LayersOf(v) |-> <<>>] /\ granted = LayersOf(v) /\ restores = 0
      /\ copy = [l \in LayersOf(v) |-> None] /\ sync = None /\ follower = View(v)!Idle
      /\ saying = None /\ cursor = [l \in LayersOf(v) |-> 0]
      /\ page = [t \in v.tabs |-> None] /\ ask = [t \in v.tabs |-> None]
      /\ sent = [l \in LayersOf(v) |-> {}]
  BY <1>1 DEF View!Init
<1>3. DoorInv(v)
  <2>1. \A l \in LayersOf(v) : log[l] = <<>> /\ Len(log[l]) = 0
    BY <1>2
  <2>2. <<>> \in Seq([of : Nat, gen : Nat])
    OBVIOUS
  <2>3. QED
    BY <1>1, <1>2, <2>1, <2>2 DEF DoorInv
<1>4. CopiesInv(v)
  BY <1>2 DEF CopiesInv, KnownOf
<1>5. View(v)!Idle.at = "off"
  BY DEF View!Idle
<1>6. FollowerInv(v)
  BY <1>1, <1>2, <1>5, IdleIs DEF FollowerInv
<1>7. FollowerTrue(v)
  BY <1>1, <1>2, <1>3, <1>5, IdleIs, LengthIs DEF FollowerTrue
<1>8. PagesInv(v)
  BY <1>1, <1>2 DEF PagesInv, AskIs
<1>9. PagesTrue(v)
  <2>1. \A l \in v.channels : cursor[l] = 0
    BY <1>2 DEF LayersOf
  <2>2. QED
    BY <1>2, <2>1 DEF PagesTrue, PageIs
<1>10. QED
  BY <1>3, <1>4, <1>6, <1>7, <1>8, <1>9 DEF ViewInv

LEMMA DoorTurnsStep ==
    ASSUME NEW v, View(v)!LayersConstants, ViewInv(v), View(v)!DoorTurns
    PROVE  ViewInv(v)'
<1>1. UNCHANGED <<log, granted, restores, copy, follower, sync, saying, cursor, sent, page, ask>>
  BY DEF View!DoorTurns, View!kept, View!viewer
<1>2. QED
  BY <1>1, ViewStays

LEMMA ViewSteps ==
    ASSUME NEW v, View(v)!LayersConstants, ViewInv(v), View(v)!Next
    PROVE  ViewInv(v)'
<1>1. View(v)!Layers = LayersOf(v)
  BY ViewConstants
<1>2. CASE View(v)!FollowerStep
  BY <1>1, <1>2, Begins, DiscoverStep, TakeStep, ReadEntriesStep, ReadTuplesStep, ReadTakesStep,
     TurnsTo, Follows, ConflictStep DEF View!FollowerStep
<1>3. CASE \E l \in View(v)!Layers :
             View(v)!Say(l) \/ View(v)!Others(l) \/ View(v)!Restore(l) \/ View(v)!Regrant(l)
  BY <1>1, <1>3, DoorSteps
<1>4. CASE View(v)!SaidIsRead
  BY <1>4, SaidIsReadStep
<1>5. CASE \E t \in v.tabs : \/ View(v)!Ask(t) \/ View(v)!Answer(t)
                             \/ \E l \in View(v)!Layers : View(v)!Open(t, l)
  BY <1>1, <1>5, AskStep, AnswerStep, OpenStep
<1>6. CASE View(v)!DoorTurns
  BY <1>6, DoorTurnsStep
<1>7. CASE View(v)!Restart
  BY <1>7, RestartStep
<1>8. QED
  BY <1>2, <1>3, <1>4, <1>5, <1>6, <1>7 DEF View!Next

LEMMA ViewIsTyped ==
    ASSUME NEW v, View(v)!LayersConstants, ViewInv(v)
    PROVE  View(v)!TypeOK
<1>1. /\ DoorInv(v) /\ CopiesInv(v) /\ FollowerInv(v) /\ PagesInv(v)
      /\ View(v)!Layers = LayersOf(v) /\ v.last \in Nat /\ v.window \in Nat
  BY ViewConstants DEF ViewInv
<1>2. ASSUME NEW l \in LayersOf(v), copy[l] # None
      PROVE  /\ View(v)!CopyType(copy[l])
             /\ l \in v.channels => View(v)!Cardinality(copy[l].entries) <= v.window
  <2>1. CopyInv(v, l, copy[l])
    BY <1>1, <1>2 DEF CopiesInv, CopyIs, KnownOf
  <2> DEFINE c == copy[l]
  <2>2. CopyInv(v, l, c)
    BY <2>1
  <2> HIDE DEF c
  <2>3. c.last \in 0 .. v.last + 1 /\ c.synced \in BOOLEAN
    BY <1>1, <2>2, KeptIs DEF CopyInv
  <2>4. View(v)!CopyType(c)
    BY <2>2, <2>3 DEF CopyInv, View!CopyType, View!Whole
  <2>5. l \in v.channels => View(v)!Cardinality(c.entries) <= v.window
    BY <2>2, ViewCounts DEF CopyInv
  <2>6. QED
    BY <2>4, <2>5 DEF c
<1>3. \A l \in LayersOf(v) : View(v)!End(l) <= v.last
  BY <1>1 DEF DoorInv, View!End
<1>4. \A l \in v.channels : l \in LayersOf(v)
  BY DEF LayersOf
<1>5. sync = "follower" <=> follower.at \in {"next", "read", "taken"}
  BY <1>1 DEF FollowerInv
<1>6. /\ granted \subseteq LayersOf(v) /\ sync \in {None, "follower"}
      /\ cursor \in [LayersOf(v) -> 0 .. v.last]
      /\ \A t \in v.tabs : page[t] # None => page[t].after \in 0 .. v.last
  BY <1>1 DEF DoorInv, FollowerInv, PagesInv
<1>7. QED
  BY <1>1, <1>2, <1>3, <1>4, <1>5, <1>6 DEF View!TypeOK

LEMMA NothingIsMissed ==
    ASSUME NEW v, View(v)!LayersConstants, ViewInv(v)
    PROVE  View(v)!PagesMissNothing
<1> SUFFICES ASSUME restores = 0, NEW t \in v.tabs, page[t] # None, page[t].layer \in v.channels,
                    NEW i \in 1 .. page[t].after
             PROVE  View(v)!At(page[t].layer, i) \in page[t].has \/ i \in page[t].aged
  BY DEF View!PagesMissNothing
<1> DEFINE l == page[t].layer
<1>1. DoorInv(v) /\ PageIs(v, t) /\ l \in LayersOf(v) /\ page[t].after \in 0 .. v.last
  BY DEF ViewInv, PagesTrue, PagesInv
<1>2. /\ page[t].after <= Len(log[l]) /\ Len(log[l]) \in Nat /\ v.last \in Nat
      /\ <<i, 0>> \in page[t].has \/ i \in page[t].aged
  BY <1>1, LengthIs, ViewConstants DEF PageIs
<1>3. i \in 1 .. Len(log[l])
  BY <1>1, <1>2
<1>4. View(v)!At(l, i) = <<i, 0>>
  BY <1>1, <1>3, AtIs
<1>5. QED
  BY <1>2, <1>4

LEMMA UnseenIsCounted ==
    ASSUME NEW v, View(v)!LayersConstants, ViewInv(v)
    PROVE  View(v)!UnseenIsUnread
<1> SUFFICES ASSUME restores = 0, NEW l \in v.channels \cap View(v)!Known
             PROVE  View(v)!Cardinality(1 .. copy[l].last \ sent[l]) <= View(v)!NotShown(l)
  BY DEF View!UnseenIsUnread
<1> DEFINE n == copy[l].last
           m == cursor[l]
           S == 1 .. n \ sent[l]
<1>1. l \in KnownOf(v) /\ l \in LayersOf(v)
  BY KnownIs
<1>2. n \in Nat /\ m \in Nat /\ \A i \in 1 .. m : i \in sent[l]
  <2>1. CopyInv(v, l, copy[l])
    BY <1>1 DEF ViewInv, CopiesInv, CopyIs
  <2>2. n \in Nat
    BY <2>1, KeptIs DEF CopyInv
  <2>3. m \in 0 .. v.last /\ v.last \in Nat
    BY <1>1, ViewConstants DEF ViewInv, PagesInv
  <2>4. \A i \in 1 .. m : i \in sent[l]
    BY DEF ViewInv, PagesTrue
  <2>5. QED
    BY <2>2, <2>3, <2>4
<1>3. View(v)!NotShown(l) = IF m < n THEN n - m ELSE n - n
  BY DEF View!NotShown, View!Lower
<1> HIDE DEF n, m
<1>4. S \subseteq m + 1 .. n
  BY <1>2
<1>5. IsFiniteSet(m + 1 .. n) /\ Cardinality(m + 1 .. n) = IF m + 1 > n THEN 0 ELSE n - (m + 1) + 1
  BY <1>2, FS_Interval
<1>6. Cardinality(S) <= Cardinality(m + 1 .. n) /\ IsFiniteSet(S)
  BY <1>4, <1>5, FS_Subset
<1>7. Cardinality(S) \in Nat
  BY <1>6, FS_CardinalityType
<1>8. Cardinality(S) <= IF m < n THEN n - m ELSE n - n
  BY <1>2, <1>5, <1>6, <1>7
<1>9. QED
  BY <1>3, <1>8, ViewCounts DEF n

\* Of a tuplespace only a read that is done changes what is listed.
LEMMA ListIsKept ==
    ASSUME NEW v, View(v)!LayersConstants, ViewInv(v), View(v)!Next, restores = 0,
           NEW l \in v.spaces, copy[l] # None, copy'[l] # None
    PROVE  \/ copy'[l].entries = copy[l].entries
           \/ View(v)!ReadTakes /\ follower.layer = l
<1>1. /\ View(v)!Layers = LayersOf(v) /\ l \in LayersOf(v) /\ l \notin v.channels
      /\ copy = [k \in LayersOf(v) |-> copy[k]] /\ FollowerInv(v) /\ DoorInv(v)
  BY ViewConstants DEF LayersOf, ViewInv, CopiesInv
<1>2. CASE copy' = copy
  BY <1>2
<1>3. CASE View(v)!Discover
  BY <1>1, <1>3 DEF View!Discover
<1>4. CASE View(v)!ReadEntries
  BY <1>1, <1>4 DEF View!ReadEntries
<1>5. CASE View(v)!ReadTakes
  <2>1. follower.layer = l \/ copy'[l] = copy[l]
    BY <1>1, <1>5 DEF View!ReadTakes
  <2>2. QED
    BY <1>5, <2>1
<1>6. CASE View(v)!Conflict
  <2>1. PICK k \in follower.todo : follower.tops[k] > Len(log[k])
    BY <1>6 DEF View!Conflict, View!PastTheEnd, View!End
  <2>2. k \in LayersOf(v) /\ follower.tops[k] \in Nat /\ Len(log[k]) \in Nat
    BY <1>1, <2>1, TopsAre, LengthIs
  <2>3. QED
    BY <2>1, <2>2 DEF ViewInv, FollowerTrue
<1>7. CASE View(v)!SaidIsRead
  <2>1. saying \in v.channels
    BY <1>1, <1>7 DEF View!SaidIsRead, FollowerInv
  <2>2. QED
    BY <1>1, <1>7, <2>1 DEF View!SaidIsRead
<1>8. CASE View(v)!Restart
  BY <1>1, <1>8 DEF View!Restart
<1>9. QED
  <2>1. CASE View(v)!FollowerStep
    BY <1>2, <1>3, <1>4, <1>5, <1>6, <2>1
    DEF View!FollowerStep, View!Start, View!Take, View!ReadTuples, View!ReadTheUnfed, View!Follow,
        View!Hear, View!CatchUp, View!CaughtUp, View!Fail, View!Wake, View!kept
  <2>2. ASSUME NEW k, View(v)!Say(k) \/ View(v)!Others(k) \/ View(v)!Restore(k) \/ View(v)!Regrant(k)
        PROVE  copy' = copy
    BY <2>2 DEF View!Say, View!Others, View!Restore, View!Regrant, View!kept
  <2>3. ASSUME NEW t, NEW k, View(v)!Ask(t) \/ View(v)!Answer(t) \/ View(v)!Open(t, k)
        PROVE  copy' = copy
    BY <2>3 DEF View!Ask, View!Answer, View!Open, View!kept
  <2>4. CASE View(v)!DoorTurns
    BY <1>2, <2>4 DEF View!DoorTurns, View!kept
  <2>5. QED
    BY <1>2, <1>7, <1>8, <2>1, <2>2, <2>3, <2>4 DEF View!Next

LEMMA TuplesAreKept ==
    ASSUME NEW v, View(v)!LayersConstants, ViewInv(v), View(v)!Next
    PROVE  View(v)!TuplesStay
<1> SUFFICES ASSUME NEW l \in v.spaces, l \in View(v)!Known, restores = 0, copy'[l] # None,
                    NEW e \in copy[l].entries
             PROVE  \/ e \in copy'[l].entries
                    \/ \E d \in copy'[l].taken : log[l][d[1]].of = e[1]
  BY DEF View!TuplesStay
<1>1. copy[l] # None /\ DoorInv(v) /\ FollowerTrue(v) /\ FollowerInv(v) /\ l \in LayersOf(v)
  BY KnownIs DEF KnownOf, ViewInv
<1>2. CASE copy'[l].entries = copy[l].entries
  BY <1>2
<1>3. CASE View(v)!ReadTakes /\ follower.layer = l
  <2>1. FoundOf(v, l, follower.got, copy'[l]) /\ follower.at = "taken"
    BY <1>3, FoundIs DEF View!ReadTakes
  <2>2. CASE e \in follower.got
    BY <2>1, <2>2 DEF FoundOf
  <2>3. CASE e \notin follower.got
    <3>1. PICK j \in 1 .. Len(log[l]) : log[l][j].of = e[1]
      BY <1>1, <1>3, <2>1, <2>3 DEF FollowerTrue
    <3>2. e[1] \in 1 .. Len(log[l]) /\ Len(log[l]) \in Nat
      BY <1>1, LengthIs DEF ViewInv, CopiesInv, CopyIs, ReadOf, KnownOf
    <3>3. j \in View(v)!Takes(l)
      BY <3>1, <3>2 DEF View!Takes, View!End
    <3>4. View(v)!At(l, j) \in copy'[l].taken /\ View(v)!At(l, j)[1] = j
      BY <1>1, <2>1, <3>1, <3>3, AtIs DEF FoundOf
    <3>5. QED
      BY <3>1, <3>4
  <2>4. QED
    BY <2>2, <2>3
<1>4. QED
  BY <1>1, <1>2, <1>3, ListIsKept

\* layers_view.rs, of any identity's layers at any door: a page is brought every entry that it
\* asks past; what no answer showed is counted as unread; and a tuple leaves the list only when
\* its take is listed.
THEOREM PagesAreBrought ==
    ASSUME NEW v, View(v)!LayersConstants
    PROVE  View(v)!Spec => /\ []View(v)!TypeOK
                           /\ [](View(v)!PagesMissNothing /\ View(v)!UnseenIsUnread)
                           /\ View(v)!TuplesStayOrAreTaken
<1>1. View(v)!Init => ViewInv(v)
  BY ViewInitial
<1>2. ViewInv(v) /\ [View(v)!Next]_(View(v)!vars) => ViewInv(v)'
  <2>1. ASSUME ViewInv(v), UNCHANGED View(v)!vars PROVE ViewInv(v)'
    <3>1. UNCHANGED <<log, granted, restores, copy, follower, sync, saying, cursor, sent, page, ask>>
      BY <2>1 DEF View!vars, View!door, View!kept, View!viewer
    <3>2. QED
      BY <2>1, <3>1, ViewStays
  <2>2. QED
    BY <2>1, ViewSteps
<1>3. ViewInv(v) => View(v)!TypeOK /\ View(v)!PagesMissNothing /\ View(v)!UnseenIsUnread
  BY ViewIsTyped, NothingIsMissed, UnseenIsCounted
<1>4. ViewInv(v) /\ [View(v)!Next]_(View(v)!vars) => [View(v)!TuplesStay]_(View(v)!vars)
  BY TuplesAreKept
<1>5. QED
  BY <1>1, <1>2, <1>3, <1>4, PTL DEF View!Spec, View!TuplesStayOrAreTaken

-----------------------------------------------------------------------------
(* The three parts of the run.                                             *)

Views ==
    /\ part \in {"mirror", "followed"} => ViewInv(followed)
    /\ part = "unfed" => ViewInv(unfed)
    /\ part = "space" => ViewInv(space)

LEMMA ViewBegins == PartsInit => Views
BY ViewBounds, ViewInitial DEF PartsInit, Views

LEMMA OnlyStutters ==
    ASSUME NEW v, View(v)!LayersConstants, ViewInv(v), UNCHANGED viewVars
    PROVE  ViewInv(v)'
<1>1. UNCHANGED <<log, granted, restores, copy, follower, sync, saying, cursor, sent, page, ask>>
  BY DEF viewVars
<1>2. QED
  BY <1>1, ViewStays

LEMMA ViewsStep ==
    ASSUME Views, [PartsNext]_all
    PROVE  Views'
<1>1. part' = part
  BY DEF PartsNext, all
<1>2. CASE UNCHANGED viewVars
  BY <1>1, <1>2, ViewBounds, OnlyStutters DEF Views
<1>3. CASE part = "followed" /\ View(followed)!Next
  BY <1>1, <1>3, ViewBounds, ViewSteps DEF Views
<1>4. CASE part = "unfed" /\ View(unfed)!Next
  BY <1>1, <1>4, ViewBounds, ViewSteps DEF Views
<1>5. CASE part = "space" /\ View(space)!Next
  BY <1>1, <1>5, ViewBounds, ViewSteps DEF Views
<1>6. QED
  BY <1>2, <1>3, <1>4, <1>5 DEF PartsNext, all

LEMMA ViewsAlways == PartsSpec => []Views
<1>1. PartsInit => Views
  BY ViewBegins
<1>2. Views /\ [PartsNext]_all => Views'
  BY ViewsStep
<1>3. QED
  BY <1>1, <1>2, PTL DEF PartsSpec

\* mirror.rs and layers_view.rs: what is offered and taken, kept, asked and shown is of its type
\* in each part of the run, and of a channel no more than the window is kept.
THEOREM LayersTyped == PartsSpec => []PartsTypeOK
<1>1. MirrorInv /\ Views => PartsTypeOK
  BY Implied, ViewBounds, ViewIsTyped DEF Views, PartsTypeOK
<1>2. QED
  BY <1>1, Always, ViewsAlways, PTL

\* layers_view.rs, in the parts of the run: a page is brought every entry that it asks past,
\* what no answer showed is counted, and a tuple leaves the list only when its take is listed.
THEOREM PagesFollow == PartsSpec => PagesMissNothing
<1>1. Views => /\ part = "followed" => View(followed)!PagesMissNothing /\ View(followed)!UnseenIsUnread
               /\ part = "unfed" => View(unfed)!PagesMissNothing /\ View(unfed)!UnseenIsUnread
  BY ViewBounds, NothingIsMissed, UnseenIsCounted DEF Views
<1>2. Views /\ [PartsNext]_all => [part = "space" => View(space)!TuplesStay]_all
  BY ViewBounds, TuplesAreKept DEF Views, PartsNext
<1>3. QED
  BY <1>1, <1>2, ViewsAlways, PTL DEF PartsSpec, PagesMissNothing

=============================================================================
