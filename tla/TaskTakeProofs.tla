--------------------------- MODULE TaskTakeProofs ---------------------------
(***************************************************************************)
(* What holds of the take role for any offers, callers, reasons, evidence  *)
(* and bounds: the three invariants TaskTake.cfg checks for one offer and  *)
(* two callers.                                                            *)
(***************************************************************************)
EXTENDS TaskTake, FiniteSetTheorems, TLAPS

Status == {"none", "open", "done"} \union Reasons
Item == [status : Status \ {"none"}, evidence : SUBSET Urls, edits : 0..MaxEdits]
Places == {"keyed", "read", "take", "receipt", "file", "refile"}

-----------------------------------------------------------------------------
(* Type correctness.                                                       *)

Items == UNION {[read -> Item] : read \in SUBSET Offers}

\* What the pass holds: items it has read, each once, of offers it asked the ledger about.
SeenTyped ==
    /\ seen \in [ours : SUBSET Offers, keys : SUBSET Offers, items : Items,
                 me : BOOLEAN, day : 0..MaxDays]
    /\ seen.keys \cap DOMAIN seen.items = {}
    /\ step \in {"idle", "keys"} => DOMAIN seen.items = {}

ReportsTyped ==
    \A r \in reports :
        \E o \in Offers :
            \/ r = Name(o, "progress", r.of)
            \/ r = Name(o, "handback", r.of) /\ r.of \in (SUBSET Urls) \ {{}}
            \/ r = Name(o, "release", r.of) /\ r.of \in Reasons

Typed ==
    /\ tuple \in [Offers -> {"absent", "pending", "us", "them"}]
    /\ ReportsTyped
    /\ status \in [Offers -> Status]
    /\ evidence \in [Offers -> SUBSET Urls]
    /\ edits \in [Offers -> 0..MaxEdits]
    /\ call \in [Callers -> {NotRunning} \union (Places \X Offers)]
    /\ step \in {"idle", "keys", "items", "report"}
    /\ SeenTyped
    /\ day \in 1..MaxDays /\ troubles \in 0..MaxTroubles
    /\ filed \subseteq Offers /\ byHand \subseteq Offers /\ told \subseteq Offers
    /\ fresh \in [Offers -> Nat]
    /\ closes \in [Offers -> Nat] /\ \A o \in Offers : closes[o] <= edits[o]

LEMMA TypedImplies == Typed => TypeOK
<1> SUFFICES ASSUME Typed PROVE TypeOK
  OBVIOUS
<1>1. DOMAIN seen.items \subseteq Offers
  BY DEF Typed, SeenTyped, Items
<1>2. \A r \in reports : r.kind = "handback" => r.of \in (SUBSET Urls) \ {{}}
  BY DEF Typed, ReportsTyped, Name
<1>3. closes \in [Offers -> 0..MaxEdits]
  BY TakeConstants DEF Typed
<1>4. QED
  BY <1>1, <1>2, <1>3 DEF Typed, TypeOK, Status, Places

LEMMA TypedWorld ==
    ASSUME Typed, NEW o \in Offers,
           \/ Dropped(o) \/ TakenByAnother(o)
           \/ Remark(o, {}) \/ (\E u \in Urls : Remark(o, {u}))
           \/ (\E reason \in Reasons \union {"done"} : CloseItem(o, reason))
           \/ ReopenItem(o) \/ DeleteItem(o) \/ FileByHand(o)
    PROVE  Typed'
<1> USE TakeConstants DEF Typed, Status, layer, items, pass, said, history
<1>0. UNCHANGED <<reports, seen, troubles, day, call, step, fresh>>
  BY DEF Dropped, TakenByAnother, Remark, CloseItem, ReopenItem, DeleteItem, FileByHand
<1>1. ReportsTyped' /\ SeenTyped'
  BY <1>0 DEF ReportsTyped, SeenTyped
<1>2. CASE Dropped(o) \/ TakenByAnother(o)
  BY <1>1, <1>2 DEF Dropped, TakenByAnother
<1>3. ASSUME NEW urls \in SUBSET Urls, Remark(o, urls) PROVE Typed'
  BY <1>1, <1>3 DEF Remark, Edit
<1>4. ASSUME NEW reason \in Reasons \union {"done"}, CloseItem(o, reason) PROVE Typed'
  BY <1>1, <1>4 DEF CloseItem, Edit
<1>5. CASE ReopenItem(o)
  BY <1>1, <1>5 DEF ReopenItem, Edit
<1>6. CASE DeleteItem(o)
  BY <1>1, <1>6 DEF DeleteItem, Edit
<1>7. CASE FileByHand(o)
  BY <1>1, <1>7 DEF FileByHand, Edit
<1>8. QED
  BY <1>2, <1>3, <1>4, <1>5, <1>6, <1>7

LEMMA TypedTake ==
    ASSUME Typed, NEW c \in Callers,
           (\E t \in Offers : Ask(c, t)) \/ TakeStep(c) \/ GiveUp(c)
    PROVE  Typed'
<1> USE TakeConstants DEF Typed, Status, layer, items, pass, said, history, GoOn, Ends, Fail,
                          Trouble, NoTrouble, Places, NotRunning
<1>0. UNCHANGED <<reports, seen, day, step, evidence, edits, byHand, closes>>
  BY DEF Ask, TakeStep, GiveUp, LookUp, ReadFirst, TakeTuple, ReadReceipt, File
<1>1. ReportsTyped' /\ SeenTyped'
  BY <1>0 DEF ReportsTyped, SeenTyped
<1>2. CASE GiveUp(c)
  BY <1>1, <1>2 DEF GiveUp
<1>3. ASSUME NEW t \in Offers, Ask(c, t) PROVE Typed'
  BY <1>1, <1>3 DEF Ask
<1>4. ASSUME NEW t \in Offers, LookUp(c, t) PROVE Typed'
  BY <1>1, <1>4 DEF LookUp, Already
<1>5. ASSUME NEW t \in Offers, ReadFirst(c, t) PROVE Typed'
  BY <1>1, <1>5 DEF ReadFirst
<1>6. ASSUME NEW t \in Offers, TakeTuple(c, t) PROVE Typed'
  BY <1>1, <1>6 DEF TakeTuple
<1>7. ASSUME NEW t \in Offers, ReadReceipt(c, t) PROVE Typed'
  BY <1>1, <1>7 DEF ReadReceipt
<1>8. ASSUME NEW t \in Offers, File(c, t) PROVE Typed'
  <2>1. status' \in [Offers -> Status] /\ filed' \subseteq Offers
    BY <1>8 DEF File, Append
  <2>2. /\ call' \in [Callers -> {NotRunning} \union (Places \X Offers)]
        /\ fresh' \in [Offers -> Nat] /\ told' \subseteq Offers /\ troubles' \in 0..MaxTroubles
    BY <1>8 DEF File, Already, Fresh
  <2>3. QED
    BY <1>0, <1>1, <1>8, <2>1, <2>2 DEF File
<1>9. QED
  BY <1>2, <1>3, <1>4, <1>5, <1>6, <1>7, <1>8 DEF TakeStep

LEMMA NothingRead ==
    \E none \in Items :
        /\ DOMAIN none = {}
        /\ NothingSeen = [ours |-> {}, keys |-> {}, items |-> none, me |-> FALSE, day |-> 0]
<1>1. [o \in {} |-> {}] \in [{} -> Item]
  OBVIOUS
<1>2. [o \in {} |-> {}] \in Items
  BY <1>1 DEF Items
<1>3. QED
  BY <1>2 DEF NothingSeen

LEMMA TypedReport ==
    ASSUME NEW o \in Offers, seen.items[o] \in Item, NEW r \in Report(o)
    PROVE  \/ r = Name(o, "progress", r.of)
           \/ r = Name(o, "handback", r.of) /\ r.of \in (SUBSET Urls) \ {{}}
           \/ r = Name(o, "release", r.of) /\ r.of \in Reasons
<1> DEFINE item == seen.items[o]
<1>1. item.status \in Status \ {"none"} /\ item.evidence \in SUBSET Urls
  BY DEF Item
<1>2. CASE item.status = "open"
  BY <1>2 DEF Report, Name
<1>3. CASE item.status = "done"
  <2>1. Report(o) = IF item.evidence = {} THEN {} ELSE {Name(o, "handback", item.evidence)}
    BY <1>3 DEF Report
  <2>2. item.evidence # {} /\ r = Name(o, "handback", item.evidence)
    BY <2>1
  <2>3. r.of = item.evidence
    BY <2>2 DEF Name
  <2>4. QED
    BY <1>1, <2>2, <2>3
<1>4. CASE item.status \in Reasons
  BY <1>4, TakeConstants DEF Report, Name
<1>5. QED
  BY <1>1, <1>2, <1>3, <1>4 DEF Status

LEMMA TypedPass ==
    ASSUME Typed, PassStep \/ PassFails
    PROVE  Typed'
<1> USE TakeConstants DEF Typed, layer, items, pass, said, history, NoTrouble, Trouble
<1>1. ASSUME NEW ours \in SUBSET Offers,
             seen' = [NothingSeen EXCEPT !.ours = ours] \/ seen' = NothingSeen
      PROVE  seen' \in [ours : SUBSET Offers, keys : SUBSET Offers, items : Items,
                        me : BOOLEAN, day : 0..MaxDays] /\ DOMAIN seen'.items = {}
  <2>1. PICK none \in Items :
           /\ DOMAIN none = {}
           /\ NothingSeen = [ours |-> {}, keys |-> {}, items |-> none, me |-> FALSE, day |-> 0]
    BY NothingRead
  <2>2. \/ seen' = [ours |-> ours, keys |-> {}, items |-> none, me |-> FALSE, day |-> 0]
        \/ seen' = [ours |-> {}, keys |-> {}, items |-> none, me |-> FALSE, day |-> 0]
    BY <1>1, <2>1
  <2>3. 0 \in 0..MaxDays
    OBVIOUS
  <2>4. seen'.items = none
    BY <2>2
  <2>5. seen' \in [ours : SUBSET Offers, keys : SUBSET Offers, items : Items,
                   me : BOOLEAN, day : 0..MaxDays]
    <3>1. ASSUME NEW some \in SUBSET Offers
          PROVE  [ours |-> some, keys |-> {}, items |-> none, me |-> FALSE, day |-> 0]
                    \in [ours : SUBSET Offers, keys : SUBSET Offers, items : Items,
                         me : BOOLEAN, day : 0..MaxDays]
      BY <2>3
    <3>2. {} \in SUBSET Offers
      OBVIOUS
    <3>3. QED
      BY <2>2, <3>1, <3>2
  <2>6. QED
    BY <2>1, <2>4, <2>5
<1>2. CASE ReadLayer
  <2>1. PICK ours \in SUBSET Offers : seen' = [NothingSeen EXCEPT !.ours = ours]
    BY <1>2 DEF ReadLayer
  <2>2. SeenTyped'
    BY <1>1, <1>2, <2>1 DEF SeenTyped
  <2>3. QED
    BY <1>2, <2>2 DEF ReadLayer, ReportsTyped
<1>3. CASE PassFails \/ PassEnds
  <2>1. seen' = NothingSeen
    BY <1>3 DEF PassFails, PassEnds, EndPass
  <2>2. SeenTyped'
    BY <1>1, <1>3, <2>1 DEF SeenTyped
  <2>3. QED
    BY <1>3, <2>2 DEF PassFails, PassEnds, EndPass, ReportsTyped
<1>4. CASE ReadKeys
  BY <1>4 DEF ReadKeys, ReportsTyped, SeenTyped
<1>5. CASE AskMe
  <2>1. PICK me \in BOOLEAN : seen' = [seen EXCEPT !.me = me, !.day = day]
    <3>1. seen = [seen EXCEPT !.me = seen.me] /\ seen.me \in BOOLEAN
      BY DEF SeenTyped
    <3>2. CASE seen' = [seen EXCEPT !.me = TRUE, !.day = day]
      BY <3>2
    <3>3. CASE seen' = [seen EXCEPT !.day = day]
      <4>1. [seen EXCEPT !.day = day] = [seen EXCEPT !.me = seen.me, !.day = day]
        BY DEF SeenTyped
      <4>2. QED
        BY <3>1, <3>3, <4>1
    <3>4. QED
      BY <1>5, <3>2, <3>3 DEF AskMe
  <2>2. seen'.keys = seen.keys /\ seen'.items = seen.items
    BY <2>1 DEF SeenTyped
  <2>3. SeenTyped'
    <3>1. seen' \in [ours : SUBSET Offers, keys : SUBSET Offers, items : Items,
                     me : BOOLEAN, day : 0..MaxDays]
      <4>1. day \in 0..MaxDays
        OBVIOUS
      <4>2. QED
        BY <2>1, <4>1 DEF SeenTyped
    <3>2. step' = "report"
      BY <1>5 DEF AskMe
    <3>3. QED
      BY <2>2, <3>1, <3>2 DEF SeenTyped
  <2>4. QED
    BY <1>5, <2>3 DEF AskMe, ReportsTyped
<1>6. ASSUME NEW o \in Offers, ReadItem(o) PROVE Typed'
  <2> DEFINE read == [status |-> status[o], evidence |-> evidence[o], edits |-> edits[o]]
             known == DOMAIN seen.items \union (IF Filed(o) THEN {o} ELSE {})
             now == [p \in known |-> IF p = o THEN read ELSE seen.items[p]]
  <2>1. PICK D \in SUBSET Offers : seen.items \in [D -> Item]
    BY DEF SeenTyped, Items
  <2>2. o \notin DOMAIN seen.items /\ known \subseteq Offers
    BY <1>6, <2>1 DEF ReadItem, SeenTyped
  <2>3. \A p \in known : now[p] \in Item
    BY <2>1, <2>2 DEF Item, Status, Filed
  <2>4. now \in Items
    <3>1. now \in [known -> Item]
      BY <2>3
    <3> HIDE DEF now, known
    <3>2. QED
      BY <2>2, <3>1 DEF Items
  <2>5. seen' = [seen EXCEPT !.keys = @ \ {o}, !.items = now]
    BY <1>6 DEF ReadItem
  <2>6. DOMAIN now = known
    OBVIOUS
  <2>7. known \subseteq DOMAIN seen.items \union {o}
    OBVIOUS
  <2>8. SeenTyped'
    <3> HIDE DEF now, known
    <3> QED
      <4>1. seen'.keys = seen.keys \ {o} /\ seen'.items = now
        BY <2>5 DEF SeenTyped
      <4>2. seen'.keys \cap DOMAIN seen'.items = {}
        BY <2>6, <2>7, <4>1 DEF SeenTyped
      <4>3. step' = "items"
        BY <1>6 DEF ReadItem
      <4>4. seen' \in [ours : SUBSET Offers, keys : SUBSET Offers, items : Items,
                       me : BOOLEAN, day : 0..MaxDays]
        BY <2>4, <2>5 DEF SeenTyped
      <4>5. QED
        BY <4>2, <4>3, <4>4 DEF SeenTyped
  <2>9. QED
    BY <1>6, <2>8 DEF ReadItem, ReportsTyped
<1>7. ASSUME NEW o \in Offers, Send(o) PROVE Typed'
  <2>1. PICK D \in SUBSET Offers : seen.items \in [D -> Item]
    BY DEF SeenTyped, Items
  <2> DEFINE left == [p \in DOMAIN seen.items \ {o} |-> seen.items[p]]
  <2>2. left \in Items /\ DOMAIN left \subseteq DOMAIN seen.items
    <3>1. left \in [D \ {o} -> Item] /\ DOMAIN left = D \ {o} /\ DOMAIN seen.items = D
      BY <2>1
    <3> HIDE DEF left
    <3>2. QED
      BY <3>1 DEF Items
  <2>3. seen' = [seen EXCEPT !.items = left]
    BY <1>7 DEF Send
  <2>4. SeenTyped'
    <3> HIDE DEF left
    <3> QED
      BY <1>7, <2>2, <2>3 DEF SeenTyped, Send
  <2>5. ReportsTyped'
    <3>1. seen.items[o] \in Item
      BY <1>7, <2>1 DEF Send
    <3>2. reports' \subseteq reports \union Report(o)
      BY <1>7 DEF Send, Owed
    <3>3. QED
      BY <3>1, <3>2, TypedReport DEF ReportsTyped
  <2>6. QED
    BY <1>7, <2>4, <2>5 DEF Send
<1>8. QED
  BY <1>2, <1>3, <1>4, <1>5, <1>6, <1>7 DEF PassStep

LEMMA TypedStep ==
    ASSUME Typed, [Next]_vars
    PROVE  Typed'
<1>1. CASE Midnight
  BY <1>1, TakeConstants DEF Midnight, Typed, ReportsTyped, SeenTyped, layer, items, pass, said, history
<1>2. CASE UNCHANGED vars
  BY <1>2 DEF vars, Typed, ReportsTyped, SeenTyped, layer, items, pass, said, history
<1>3. QED
  BY <1>1, <1>2, TypedWorld, TypedTake, TypedPass DEF Next

LEMMA TypedInit == Init => Typed
<1> SUFFICES ASSUME Init PROVE Typed
  OBVIOUS
<1>1. SeenTyped
  <2>1. PICK none \in Items :
           /\ DOMAIN none = {}
           /\ NothingSeen = [ours |-> {}, keys |-> {}, items |-> none, me |-> FALSE, day |-> 0]
    BY NothingRead
  <2>2. 0 \in 0..MaxDays
    BY TakeConstants
  <2>3. QED
    BY <2>1, <2>2 DEF Init, SeenTyped
<1>2. QED
  BY <1>1, TakeConstants DEF Init, Typed, ReportsTyped, Status, NotRunning

LEMMA AlwaysTyped == Spec => []Typed
BY TypedInit, TypedStep, PTL DEF Spec

\* Every value of the state is of its type: no item is in a state the ledger does not have,
\* no report on a hand-back is without evidence, and no item is closed more often than written.
THEOREM TakeTyping == Spec => []TypeOK
BY AlwaysTyped, TypedImplies, PTL

-----------------------------------------------------------------------------
(* An offer is filed by who won it.  One token goes with the tuple: the    *)
(* take that was granted is on its way to file, or has told its caller     *)
(* that it was fresh, or was lost; there is never a second.                *)

\* A caller that was granted the take, and has not filed.
Holds(c, o) == Calling(c, "file", o)

Won ==
    \A o \in Offers : tuple[o] # "us" =>
        /\ fresh[o] = 0
        /\ \A c \in Callers : ~Holds(c, o) /\ ~Calling(c, "refile", o)

OneToken ==
    \A o \in Offers :
        /\ fresh[o] <= 1
        /\ \A c \in Callers : Holds(c, o) => fresh[o] = 0
        /\ \A c, d \in Callers : Holds(c, o) /\ Holds(d, o) => c = d

Known ==
    /\ \A o \in Offers : Filed(o) => o \in filed
    /\ \A o \in filed \ byHand : tuple[o] = "us"
    /\ told \subseteq filed

\* The pass knows of nothing that is not so: what it read was filed, and ours stays ours.
PassKnows ==
    /\ \A o \in seen.ours : tuple[o] = "us"
    /\ seen.keys \subseteq filed /\ DOMAIN seen.items \subseteq filed
    /\ \A r \in reports : tuple[r.offer] = "us" /\ r.offer \in filed

Owner == Won /\ OneToken /\ Known /\ PassKnows

LEMMA OwnerInit == Init => Owner
BY DEF Init, Owner, Won, OneToken, Known, PassKnows, Holds, Calling, NotRunning, NothingSeen, Filed

LEMMA OwnerWorld ==
    ASSUME Typed, Owner, NEW o \in Offers,
           \/ Dropped(o) \/ TakenByAnother(o)
           \/ Remark(o, {}) \/ (\E u \in Urls : Remark(o, {u}))
           \/ (\E reason \in Reasons \union {"done"} : CloseItem(o, reason))
           \/ ReopenItem(o) \/ DeleteItem(o) \/ FileByHand(o)
    PROVE  Owner'
<1>0. UNCHANGED <<reports, seen, call, fresh, told>>
  BY DEF Dropped, TakenByAnother, Remark, CloseItem, ReopenItem, DeleteItem, FileByHand,
         layer, pass, said, history
<1>1. \A p \in Offers : tuple'[p] = tuple[p] \/ (tuple[p] # "us" /\ tuple'[p] # "us")
  BY DEF Dropped, TakenByAnother, Remark, CloseItem, ReopenItem, DeleteItem, FileByHand,
         layer, Typed
<1>2. \A p \in Offers : tuple[p] = "us" <=> tuple'[p] = "us"
  BY <1>1
<1>3. filed \subseteq filed' /\ filed' \ byHand' \subseteq filed \ byHand /\ filed \subseteq Offers
  BY DEF Dropped, TakenByAnother, Remark, CloseItem, ReopenItem, DeleteItem, FileByHand,
         history, Typed
<1>4. \A p \in Offers : Filed(p)' => p \in filed'
  <2>1. \A p \in Offers : Filed(p) => p \in filed
    BY DEF Owner, Known
  <2>2. CASE Dropped(o) \/ TakenByAnother(o)
    BY <2>1, <2>2, <1>3 DEF Dropped, TakenByAnother, items, Filed
  <2>3. ASSUME NEW urls, Remark(o, urls) PROVE \A p \in Offers : Filed(p)' => p \in filed'
    BY <2>1, <2>3, <1>3 DEF Remark, Filed
  <2>4. ASSUME NEW reason, CloseItem(o, reason) PROVE \A p \in Offers : Filed(p)' => p \in filed'
    BY <2>1, <2>4, <1>3 DEF CloseItem, Edit, Filed, Typed
  <2>5. CASE ReopenItem(o) \/ DeleteItem(o) \/ FileByHand(o)
    BY <2>1, <2>5, <1>3 DEF ReopenItem, DeleteItem, FileByHand, Edit, Filed, Typed
  <2>6. QED
    BY <2>2, <2>3, <2>4, <2>5
<1>5. Won' /\ OneToken'
  BY <1>0, <1>2 DEF Owner, Won, OneToken, Holds, Calling
<1>6. Known'
  BY <1>0, <1>2, <1>3, <1>4 DEF Owner, Known
<1>7. PassKnows'
  <2>1. \A r \in reports : r.offer \in Offers
    BY DEF Typed, ReportsTyped, Name
  <2>2. seen.ours \subseteq Offers
    BY DEF Typed, SeenTyped
  <2>3. QED
    BY <1>0, <1>2, <1>3, <2>1, <2>2 DEF Owner, PassKnows
<1>8. QED
  BY <1>5, <1>6, <1>7 DEF Owner

LEMMA OwnerTake ==
    ASSUME Typed, Owner, NEW c \in Callers,
           (\E t \in Offers : Ask(c, t)) \/ TakeStep(c) \/ GiveUp(c)
    PROVE  Owner'
<1> USE DEF Typed, Holds, Calling, NotRunning
<1>1. UNCHANGED <<reports, seen, byHand>>
  BY DEF Ask, TakeStep, GiveUp, LookUp, ReadFirst, TakeTuple, ReadReceipt, File, layer, pass, history
<1>2. \A o \in Offers : tuple[o] = "us" => tuple'[o] = "us"
  BY DEF Ask, TakeStep, GiveUp, LookUp, ReadFirst, TakeTuple, ReadReceipt, File, layer
<1>3. filed \subseteq filed'
  BY DEF Ask, TakeStep, GiveUp, LookUp, ReadFirst, TakeTuple, ReadReceipt, File, Append, history
<1>4. PassKnows'
  <2>1. \A r \in reports : r.offer \in Offers
    BY DEF ReportsTyped, Name
  <2>2. seen.ours \subseteq Offers
    BY DEF SeenTyped
  <2>3. QED
    BY <1>1, <1>2, <1>3, <2>1, <2>2 DEF Owner, PassKnows
<1>5. CASE GiveUp(c)
  BY <1>4, <1>5 DEF GiveUp, Ends, Fail, said, layer, items, Owner, Won, OneToken, Known, Filed
<1>6. ASSUME NEW t \in Offers, Ask(c, t) PROVE Owner'
  BY <1>4, <1>6 DEF Ask, history, layer, items, Owner, Won, OneToken, Known, Filed
<1>7. ASSUME NEW t \in Offers, LookUp(c, t) PROVE Owner'
  <2>1. Won' /\ OneToken'
    BY <1>7 DEF LookUp, GoOn, Ends, Already, said, layer, Owner, Won, OneToken
  <2>2. Known'
    BY <1>7 DEF LookUp, GoOn, Already, said, layer, items, Owner, Known, Filed
  <2>3. QED
    BY <1>4, <2>1, <2>2 DEF Owner
<1>8. ASSUME NEW t \in Offers, ReadFirst(c, t) PROVE Owner'
  BY <1>4, <1>8 DEF ReadFirst, GoOn, said, layer, items, Owner, Won, OneToken, Known, Filed
<1>9. ASSUME NEW t \in Offers, ReadReceipt(c, t) PROVE Owner'
  <2>1. Won'
    BY <1>9 DEF ReadReceipt, GoOn, Ends, Fail, said, layer, Owner, Won
  <2>2. OneToken'
    <3>1. UNCHANGED fresh /\ \A d \in Callers, o \in Offers : Holds(d, o)' => Holds(d, o)
      BY <1>9 DEF ReadReceipt, GoOn, Ends, Fail, said
    <3>2. QED
      BY <3>1 DEF Owner, OneToken
  <2>3. Known'
    BY <1>9 DEF ReadReceipt, GoOn, Fail, said, layer, items, Owner, Known, Filed
  <2>4. QED
    BY <1>4, <2>1, <2>2, <2>3 DEF Owner
<1>10. ASSUME NEW t \in Offers, TakeTuple(c, t) PROVE Owner'
  <2>1. Won'
    BY <1>10 DEF TakeTuple, GoOn, Ends, Fail, said, Owner, Won
  <2>2. OneToken'
    BY <1>10 DEF TakeTuple, GoOn, Ends, Fail, said, Owner, Won, OneToken
  <2>3. Known'
    BY <1>2, <1>10 DEF TakeTuple, GoOn, Ends, Fail, said, items, Owner, Known, Filed
  <2>4. QED
    BY <1>4, <2>1, <2>2, <2>3 DEF Owner
<1>11. ASSUME NEW t \in Offers, File(c, t) PROVE Owner'
  <2>1. tuple[t] = "us" /\ UNCHANGED tuple
    BY <1>11 DEF File, Owner, Won, layer
  <2>2. Won'
    BY <1>11, <2>1 DEF File, Already, Fresh, Ends, Fail, said, Owner, Won
  <2>3. OneToken'
    <3>1. call' = [call EXCEPT ![c] = NotRunning]
      BY <1>11 DEF File, Already, Fresh, Ends, Fail
    <3>2. \/ fresh' = fresh
          \/ fresh' = [fresh EXCEPT ![t] = @ + 1] /\ Holds(c, t)
      BY <1>11 DEF File, Already, Fresh, Fail, said
    <3>3. CASE fresh' = fresh
      BY <3>1, <3>3 DEF Owner, OneToken
    <3>4. CASE fresh' = [fresh EXCEPT ![t] = @ + 1] /\ Holds(c, t)
      <4>1. fresh[t] = 0 /\ \A d \in Callers : d # c => ~Holds(d, t)
        BY <3>4 DEF Owner, OneToken
      <4>2. \A o \in Offers : fresh'[o] = IF o = t THEN 1 ELSE fresh[o]
        BY <3>4, <4>1
      <4>3. \A o \in Offers, d \in Callers : Holds(d, o)' => Holds(d, o) /\ d # c
        BY <3>1
      <4>4. QED
        BY <4>1, <4>2, <4>3 DEF Owner, OneToken
    <3>5. QED
      BY <3>2, <3>3, <3>4
  <2>4. Known'
    <3>1. \A o \in Offers : Filed(o)' => Filed(o) \/ o = t
      BY <1>11 DEF File, Append, Filed
    <3>2. filed' = filed \union {t} /\ told' \subseteq told \union {t}
      BY <1>11 DEF File, Append, Already, Fresh, Fail, said
    <3>3. QED
      BY <1>1, <2>1, <3>1, <3>2 DEF Owner, Known
  <2>5. QED
    BY <1>4, <2>2, <2>3, <2>4 DEF Owner
<1>12. QED
  BY <1>5, <1>6, <1>7, <1>8, <1>9, <1>10, <1>11 DEF TakeStep

LEMMA OwnerPass ==
    ASSUME Typed, Owner, PassStep \/ PassFails
    PROVE  Owner'
<1>1. UNCHANGED <<tuple, status, call, filed, byHand, told, fresh>>
  BY DEF PassStep, PassFails, ReadLayer, ReadKeys, AskMe, PassEnds, ReadItem, Send,
         layer, items, history
<1>2. Won' /\ OneToken' /\ Known'
  BY <1>1 DEF Owner, Won, OneToken, Known, Holds, Calling, Filed
<1>3. CASE ReadLayer \/ PassEnds \/ PassFails
  <2>1. UNCHANGED reports
    BY <1>3 DEF ReadLayer, PassEnds, PassFails, layer
  <2>2. PICK none \in Items :
           /\ DOMAIN none = {}
           /\ NothingSeen = [ours |-> {}, keys |-> {}, items |-> none, me |-> FALSE, day |-> 0]
    BY NothingRead
  <2>3. seen'.ours \subseteq {o \in Offers : tuple[o] = "us"} /\ seen'.keys = {} /\ seen'.items = none
    BY <1>3, <2>2 DEF ReadLayer, PassEnds, PassFails, EndPass
  <2>4. QED
    BY <1>1, <1>2, <2>1, <2>2, <2>3 DEF Owner, PassKnows
<1>4. CASE ReadKeys
  BY <1>1, <1>2, <1>4 DEF ReadKeys, layer, Owner, PassKnows, Known, Typed, SeenTyped
<1>5. CASE AskMe
  BY <1>1, <1>2, <1>5 DEF AskMe, layer, Owner, PassKnows, Typed, SeenTyped
<1>6. ASSUME NEW o \in Offers, ReadItem(o) PROVE Owner'
  <2>1. UNCHANGED reports
    BY <1>6 DEF ReadItem, layer
  <2>2. /\ seen'.ours = seen.ours /\ seen'.keys \subseteq seen.keys
        /\ DOMAIN seen'.items \subseteq DOMAIN seen.items \union {o}
    BY <1>6 DEF ReadItem, Typed, SeenTyped
  <2>3. QED
    BY <1>1, <1>2, <1>6, <2>1, <2>2 DEF ReadItem, Owner, PassKnows
<1>7. ASSUME NEW o \in Offers, Send(o) PROVE Owner'
  <2>1. /\ seen'.ours = seen.ours /\ seen'.keys = seen.keys
        /\ DOMAIN seen'.items \subseteq DOMAIN seen.items
    BY <1>7 DEF Send, Typed, SeenTyped
  <2>2. \A r \in Report(o) : r.offer = o
    BY DEF Report, Name
  <2>3. \A r \in reports' \ reports : r.offer = o /\ o \in seen.ours
    BY <1>7, <2>2 DEF Send, Owed
  <2>4. QED
    BY <1>1, <1>2, <1>7, <2>1, <2>3 DEF Send, Owner, PassKnows
<1>8. QED
  BY <1>3, <1>4, <1>5, <1>6, <1>7 DEF PassStep

LEMMA OwnerStep ==
    ASSUME Typed, Owner, [Next]_vars
    PROVE  Owner'
<1>1. CASE Midnight \/ UNCHANGED vars
  BY <1>1 DEF Midnight, vars, layer, items, pass, said, history,
              Owner, Won, OneToken, Known, PassKnows, Holds, Calling, Filed
<1>2. QED
  BY <1>1, OwnerWorld, OwnerTake, OwnerPass DEF Next

LEMMA AlwaysOwner == Spec => [](Typed /\ Owner)
<1>1. Typed /\ Owner /\ [Next]_vars => (Typed /\ Owner)'
  BY TypedStep, OwnerStep
<1>2. QED
  BY <1>1, TypedInit, OwnerInit, PTL DEF Spec

\* take(): what another principal won is never filed here, one caller at most hears that the
\* take was its own, and "already filed" is never said of an offer without an item.
THEOREM OffersAreFiledOnce == Spec => []FiledOnce
<1>1. Typed /\ Owner => FiledOnce
  BY DEF Typed, Owner, OneToken, Known, FiledOnce
<1>2. QED
  BY <1>1, AlwaysOwner, PTL

-----------------------------------------------------------------------------
(* A release for each close.  The reasons an item was ever released with,  *)
(* or would be by what the pass read or by how the item stands now, are no *)
(* more than the closes it had.                                            *)

Releases(o) == {r \in reports : r.offer = o /\ r.kind = "release"}

Outstanding(o) ==
    {Name(o, "release", reason) : reason \in
        {x \in Reasons : x = status[o] \/ (o \in DOMAIN seen.items /\ x = seen.items[o].status)}}

Accounted ==
    \A o \in Offers :
        /\ IsFiniteSet(Releases(o) \union Outstanding(o))
        /\ Cardinality(Releases(o) \union Outstanding(o)) <= closes[o]

LEMMA StillAccounted ==
    ASSUME Typed, Accounted, UNCHANGED closes,
           \A o \in Offers : (Releases(o) \union Outstanding(o))'
                                 \subseteq Releases(o) \union Outstanding(o)
    PROVE  Accounted'
<1> SUFFICES ASSUME NEW o \in Offers
             PROVE  LET then == (Releases(o) \union Outstanding(o))'
                    IN  IsFiniteSet(then) /\ Cardinality(then) <= closes[o]
  BY DEF Accounted
<1> DEFINE now == Releases(o) \union Outstanding(o)
           then == (Releases(o) \union Outstanding(o))'
<1>1. IsFiniteSet(now) /\ Cardinality(now) <= closes[o] /\ closes[o] \in Nat
  BY DEF Accounted, Typed
<1>2. then \subseteq now
  OBVIOUS
<1>3. IsFiniteSet(then) /\ Cardinality(then) <= Cardinality(now)
  <2> HIDE DEF now, then
  <2> QED
    BY <1>1, <1>2, FS_Subset
<1>4. Cardinality(then) \in Nat /\ Cardinality(now) \in Nat
  <2> HIDE DEF now, then
  <2> QED
    BY <1>1, <1>3, FS_CardinalityType
<1>5. IsFiniteSet(then) /\ Cardinality(then) <= closes[o]
  <2> HIDE DEF now, then
  <2> QED
    BY <1>1, <1>3, <1>4
<1>6. QED
  BY <1>5

LEMMA AccountedInit == Init => Accounted
<1> SUFFICES ASSUME Init, NEW o \in Offers
             PROVE  /\ IsFiniteSet(Releases(o) \union Outstanding(o))
                    /\ Cardinality(Releases(o) \union Outstanding(o)) <= closes[o]
  BY DEF Accounted
<1>1. Releases(o) \union Outstanding(o) = {}
  BY TakeConstants DEF Init, Releases, Outstanding, NothingSeen
<1>2. QED
  BY <1>1, FS_EmptySet DEF Init

\* A close for a reason adds that reason to those of its item, and counts.
LEMMA AccountedClose ==
    ASSUME Typed, Accounted, NEW o \in Offers, NEW reason \in Reasons, CloseItem(o, reason)
    PROVE  Accounted'
<1> SUFFICES ASSUME NEW p \in Offers
             PROVE  LET then == (Releases(p) \union Outstanding(p))'
                    IN  IsFiniteSet(then) /\ Cardinality(then) <= closes'[p]
  BY DEF Accounted
<1> DEFINE now == Releases(p) \union Outstanding(p)
           then == (Releases(p) \union Outstanding(p))'
           new == Name(p, "release", reason)
<1>1. IsFiniteSet(now) /\ Cardinality(now) <= closes[p] /\ closes[p] \in Nat
  BY DEF Accounted, Typed
<1>2. UNCHANGED <<reports, seen>> /\ status' = [status EXCEPT ![o] = reason]
  BY DEF CloseItem, layer, pass
<1>3. closes' = [closes EXCEPT ![o] = @ + 1]
  BY TakeConstants DEF CloseItem
<1>4. Cardinality(now) \in Nat
  BY <1>1, FS_CardinalityType
<1>5. CASE p = o
  <2>1. then \subseteq now \union {new}
    BY <1>2, <1>5 DEF Releases, Outstanding, Typed
  <2>2. /\ IsFiniteSet(now \union {new})
        /\ Cardinality(now \union {new}) <= Cardinality(now) + 1
    <3> HIDE DEF now, new
    <3>1. IsFiniteSet(now \union {new}) /\ Cardinality(now \union {new}) =
             IF new \in now THEN Cardinality(now) ELSE Cardinality(now) + 1
      BY <1>1, FS_AddElement
    <3>2. QED
      BY <1>4, <3>1
  <2>3. /\ IsFiniteSet(then) /\ Cardinality(then) <= Cardinality(now \union {new})
        /\ Cardinality(then) \in Nat /\ Cardinality(now \union {new}) \in Nat
    <3> HIDE DEF now, then, new
    <3>1. IsFiniteSet(then) /\ Cardinality(then) <= Cardinality(now \union {new})
      BY <2>1, <2>2, FS_Subset
    <3>2. QED
      BY <2>2, <3>1, FS_CardinalityType
  <2>4. closes'[p] = closes[p] + 1
    BY <1>3, <1>5 DEF Typed
  <2>5. QED
    <3>1. IsFiniteSet(then) /\ Cardinality(then) <= closes'[p]
      <4> HIDE DEF now, then, new
      <4> QED
        BY <1>1, <1>4, <2>2, <2>3, <2>4
    <3>2. QED
      BY <3>1
<1>6. CASE p # o
  <2>1. then = now /\ closes'[p] = closes[p]
    BY <1>2, <1>3, <1>6 DEF Releases, Outstanding, Typed
  <2>2. IsFiniteSet(then) /\ Cardinality(then) <= closes'[p]
    <3> HIDE DEF now, then
    <3> QED
      BY <1>1, <2>1
  <2>3. QED
    BY <2>2
<1>7. QED
  BY <1>5, <1>6

LEMMA AccountedWorld ==
    ASSUME Typed, Accounted, NEW o \in Offers,
           \/ Dropped(o) \/ TakenByAnother(o)
           \/ Remark(o, {}) \/ (\E u \in Urls : Remark(o, {u}))
           \/ CloseItem(o, "done")
           \/ ReopenItem(o) \/ DeleteItem(o) \/ FileByHand(o)
    PROVE  Accounted'
<1>1. UNCHANGED <<reports, seen>>
  BY DEF Dropped, TakenByAnother, Remark, CloseItem, ReopenItem, DeleteItem, FileByHand,
         layer, pass
<1>2. closes' = closes
  BY DEF Dropped, TakenByAnother, Remark, CloseItem, ReopenItem, DeleteItem, FileByHand,
         history, Typed
<1>3. \A p \in Offers : status'[p] \in Reasons => status'[p] = status[p]
  BY TakeConstants DEF Dropped, TakenByAnother, Remark, CloseItem, ReopenItem, DeleteItem,
                       FileByHand, Edit, items, Typed
<1>4. QED
  BY <1>1, <1>2, <1>3, StillAccounted DEF Releases, Outstanding

LEMMA AccountedTake ==
    ASSUME Typed, Accounted, NEW c \in Callers,
           (\E t \in Offers : Ask(c, t)) \/ TakeStep(c) \/ GiveUp(c)
    PROVE  Accounted'
<1>1. UNCHANGED <<reports, seen, closes>>
  BY DEF Ask, TakeStep, GiveUp, LookUp, ReadFirst, TakeTuple, ReadReceipt, File,
         layer, pass, history
<1>2. \A p \in Offers : status'[p] \in Reasons => status'[p] = status[p]
  BY TakeConstants DEF Ask, TakeStep, GiveUp, LookUp, ReadFirst, TakeTuple, ReadReceipt, File,
                       Append, items, Typed
<1>3. QED
  BY <1>1, <1>2, StillAccounted DEF Releases, Outstanding

LEMMA AccountedPass ==
    ASSUME Typed, Accounted, PassStep \/ PassFails
    PROVE  Accounted'
<1>1. UNCHANGED <<status, closes>>
  BY DEF PassStep, PassFails, ReadLayer, ReadKeys, AskMe, PassEnds, ReadItem, Send,
         items, history
<1>2. CASE ReadLayer \/ PassEnds \/ PassFails
  <2>1. UNCHANGED reports
    BY <1>2 DEF ReadLayer, PassEnds, PassFails, layer
  <2>2. PICK none \in Items :
           /\ DOMAIN none = {}
           /\ NothingSeen = [ours |-> {}, keys |-> {}, items |-> none, me |-> FALSE, day |-> 0]
    BY NothingRead
  <2>3. DOMAIN seen'.items = {}
    BY <1>2, <2>2 DEF ReadLayer, PassEnds, PassFails, EndPass
  <2>4. QED
    BY <1>1, <2>1, <2>3, StillAccounted DEF Releases, Outstanding
<1>3. CASE ReadKeys \/ AskMe
  <2>1. UNCHANGED reports /\ seen'.items = seen.items
    BY <1>3 DEF ReadKeys, AskMe, layer, Typed, SeenTyped
  <2>2. QED
    BY <1>1, <2>1, StillAccounted DEF Releases, Outstanding
<1>4. ASSUME NEW o \in Offers, ReadItem(o) PROVE Accounted'
  <2>1. UNCHANGED reports
    BY <1>4 DEF ReadItem, layer
  <2>2. \A p \in DOMAIN seen'.items :
           \/ p \in DOMAIN seen.items /\ seen'.items[p] = seen.items[p]
           \/ p = o /\ seen'.items[p].status = status[p]
    BY <1>4 DEF ReadItem, Typed, SeenTyped
  <2>3. QED
    BY <1>1, <2>1, <2>2, StillAccounted DEF Releases, Outstanding
<1>5. ASSUME NEW o \in Offers, Send(o) PROVE Accounted'
  <2>1. \A p \in DOMAIN seen'.items :
           p \in DOMAIN seen.items /\ seen'.items[p] = seen.items[p]
    BY <1>5 DEF Send, Typed, SeenTyped
  <2>2. \A p \in Offers : Outstanding(p)' \subseteq Outstanding(p)
    BY <1>1, <2>1 DEF Outstanding
  <2>3. reports' \subseteq reports \union Report(o)
    BY <1>5 DEF Send, Owed
  <2>4. \A r \in Report(o) : r.offer = o /\ (r.kind = "release" => r \in Outstanding(o))
    <3>1. seen.items[o] \in Item /\ o \in DOMAIN seen.items
      BY <1>5 DEF Send, Typed, SeenTyped, Items
    <3>2. ASSUME NEW r \in Report(o), r.kind = "release" PROVE r \in Outstanding(o)
      <4>1. r = Name(o, "release", r.of) /\ r.of \in Reasons
        BY <3>1, <3>2, TypedReport DEF Name
      <4>2. r.of = seen.items[o].status
        <5>1. CASE seen.items[o].status = "open"
          BY <3>2, <5>1 DEF Report, Name
        <5>2. CASE seen.items[o].status = "done"
          <6>1. r = Name(o, "handback", seen.items[o].evidence)
            BY <5>2 DEF Report
          <6>2. QED
            BY <3>2, <6>1 DEF Name
        <5>3. CASE seen.items[o].status \notin {"open", "done"}
          BY <5>3 DEF Report, Name
        <5>4. QED
          BY <5>1, <5>2, <5>3
      <4>3. QED
        BY <3>1, <4>1, <4>2 DEF Outstanding
    <3>3. QED
      BY <3>2 DEF Report, Name
  <2>5. \A p \in Offers : Releases(p)' \subseteq Releases(p) \union Outstanding(p)
    BY <2>3, <2>4 DEF Releases
  <2>6. QED
    BY <1>1, <2>2, <2>5, StillAccounted
<1>6. QED
  BY <1>2, <1>3, <1>4, <1>5 DEF PassStep

LEMMA AccountedStep ==
    ASSUME Typed, Accounted, [Next]_vars
    PROVE  Accounted'
<1>1. CASE Midnight \/ UNCHANGED vars
  <2>1. UNCHANGED <<reports, status, seen, closes>>
    BY <1>1 DEF Midnight, vars, layer, items, pass, history
  <2>2. QED
    BY <2>1, StillAccounted DEF Releases, Outstanding
<1>2. QED
  BY <1>1, AccountedWorld, AccountedClose, AccountedTake, AccountedPass DEF Next

\* pass(): every report is on a take of ours that was filed, and an offer is released no more
\* often than its item was closed for a reason but done, whatever writes come between.
THEOREM ReportsAreOnlyWhatIsOwed == Spec => []ReportsAreOwed
<1>1. Typed /\ Owner /\ Accounted => ReportsAreOwed
  <2> SUFFICES ASSUME Typed, Owner, Accounted PROVE ReportsAreOwed
    OBVIOUS
  <2>1. ASSUME NEW o \in Offers PROVE Cardinality(Releases(o)) <= closes[o]
    <3> DEFINE all == Releases(o) \union Outstanding(o)
    <3>1. IsFiniteSet(all) /\ Cardinality(all) <= closes[o] /\ closes[o] \in Nat
      BY DEF Accounted, Typed
    <3>2. Releases(o) \subseteq all
      OBVIOUS
    <3>3. IsFiniteSet(Releases(o)) /\ Cardinality(Releases(o)) <= Cardinality(all)
      <4> HIDE DEF all
      <4> QED
        BY <3>1, <3>2, FS_Subset
    <3>4. Cardinality(Releases(o)) \in Nat /\ Cardinality(all) \in Nat
      BY <3>1, <3>3, FS_CardinalityType
    <3>5. QED
      <4> HIDE DEF all
      <4> QED
        BY <3>1, <3>3, <3>4
  <2>2. QED
    BY <2>1 DEF ReportsAreOwed, Releases, Owner, PassKnows
<1>2. Accounted /\ Typed /\ [Next]_vars => Accounted'
  BY AccountedStep
<1>3. QED
  BY <1>1, <1>2, AccountedInit, AlwaysOwner, PTL DEF Spec

=============================================================================
