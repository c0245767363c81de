----------------------------- MODULE DiskProofs -----------------------------
(***************************************************************************)
(* What is proved of the parts of MCDisk that file into the ledger, the    *)
(* import and the backfill of keys, beside the parts that keep files; and, *)
(* with what FilesProofs says of those, the types of all six.              *)
(***************************************************************************)
EXTENDS FilesProofs

-----------------------------------------------------------------------------
(* The keys: what a command has read stays so of the older items, and it    *)
(* knows who is to hold each key that nobody held.                          *)

Commands == {keys1, keys2}
Subjects == [is : {"none", "item", "tombstone"}, about : SUBSET KeyIris, key : KeyIris \cup {NoKey}]
KeyRows == [number : Keys!Numbers, about : SUBSET KeyIris, key : KeyIris \cup {NoKey}]
Keyings == [item : Keys!Numbers, key : KeyIris]
CommandStates == [at : {"asked", "read", "keying", "done"}, rows : SUBSET KeyRows,
                  keyings : SUBSET Keyings, plan : SUBSET Keyings, lost : SUBSET Keyings]

\* Numbers are given in turn, and a key names one subject.
SubjectsInv ==
    /\ subject \in [Keys!Numbers -> Subjects]
    /\ \E p \in 0 .. MaxItems : \A n \in Keys!Numbers : subject[n].is # "none" <=> n <= p
    /\ \A n \in Keys!Numbers : subject[n].is = "none" => subject[n].key = NoKey
    /\ \A n \in DOMAIN Older : n \in Keys!Numbers /\ subject[n].is # "none"
    /\ \A m, n \in Keys!Numbers :
          subject[m].key = subject[n].key /\ subject[m].key # NoKey => m = n

CommandIs(b) ==
    /\ backfill[b].keyings \subseteq backfill[b].plan
    /\ backfill[b].at \in {"asked", "read"} => backfill[b].plan = {}
    /\ backfill[b].at # "asked" => \A m \in Keys!Items :
          m \in DOMAIN Older /\ subject[m].key = NoKey =>
             [number |-> m, about |-> subject[m].about, key |-> NoKey] \in backfill[b].rows
    /\ \A k \in backfill[b].plan : \A r \in backfill[b].rows :
          r.about = {k.key} /\ r.key = NoKey => k.item <= r.number
    /\ backfill[b].at \in {"keying", "done"} => \A r \in backfill[b].rows : \A iri \in KeyIris :
          r.about = {iri} /\ r.key = NoKey =>
             iri \in Keys!Held \/ \E k \in backfill[b].plan : k.key = iri
    /\ backfill[b].at = "done" /\ backfill[b].lost = {} =>
          \A k \in backfill[b].plan : k.key \in Keys!Held

CommandsInv ==
    /\ backfill \in [Commands -> CommandStates] /\ bridge \in [{bridge1} -> SUBSET KeyIris]
    /\ \A b \in Commands : CommandIs(b)

KeysInv == SubjectsInv /\ CommandsInv /\ Keys!FirstStands

LEMMA KeysNumbers ==
    /\ MaxItems \in Nat /\ IsFiniteSet(KeyIris) /\ NoKey \notin KeyIris
    /\ \E n \in 0 .. MaxItems : Older \in [1 .. n -> SUBSET KeyIris]
    /\ Keys!Numbers = 1 .. MaxItems
    /\ \A S : Keys!Cardinality(S) = Cardinality(S)
<1>1. \A S : Keys!IsFiniteSet(S) <=> IsFiniteSet(S)
  BY Zenon DEF Keys!IsFiniteSet, IsFiniteSet
<1>2. \A S : Keys!Cardinality(S) = Cardinality(S)
  BY Zenon DEF Keys!Cardinality, Cardinality, Keys!IsFiniteSet, IsFiniteSet
<1>3. QED
  BY <1>1, <1>2, KeysBounds DEF Keys!KeysConstants, Keys!Numbers

\* The next number is the first that is free.
LEMMA NextIsFree ==
    ASSUME SubjectsInv
    PROVE  \E p \in 0 .. MaxItems :
              /\ Keys!NextNumber = p + 1
              /\ \A n \in Keys!Numbers : subject[n].is # "none" <=> n <= p
<1>1. PICK p \in 0 .. MaxItems : \A n \in Keys!Numbers : subject[n].is # "none" <=> n <= p
  BY DEF SubjectsInv
<1>2. Keys!Taken = 1 .. p
  BY <1>1, KeysNumbers DEF Keys!Taken
<1>3. Cardinality(1 .. p) = p
  BY FS_Interval
<1>4. Keys!NextNumber = p + 1
  BY <1>2, <1>3, KeysNumbers DEF Keys!NextNumber
<1>5. QED
  BY <1>1, <1>4

\* What a step does to the subjects.
SubjectsGo ==
    /\ \A n \in Keys!Numbers :
          /\ subject[n].key # NoKey => subject'[n].key = subject[n].key
          /\ subject[n].is = "tombstone" => subject'[n] = subject[n]
          /\ n \in DOMAIN Older /\ subject'[n].is = "item" =>
                subject[n].is = "item" /\ subject'[n].about = subject[n].about
    /\ Keys!Held \subseteq Keys!Held'

LEMMA HeldStays ==
    ASSUME \A n \in Keys!Numbers : subject[n].key # NoKey => subject'[n].key = subject[n].key
    PROVE  Keys!Held \subseteq Keys!Held'
BY KeysNumbers DEF Keys!Held, Keys!Holder

LEMMA SubjectsStay == subject' = subject => SubjectsGo
BY DEF SubjectsGo, Keys!Held, Keys!Holder

LEMMA CommandStays ==
    ASSUME NEW b \in Commands, CommandsInv, SubjectsInv, SubjectsGo, backfill'[b] = backfill[b]
    PROVE  CommandIs(b)'
<1>1. CommandIs(b)
  BY DEF CommandsInv
<1>2. ASSUME NEW m \in Keys!Items', m \in DOMAIN Older, subject'[m].key = NoKey
      PROVE  m \in Keys!Items /\ subject'[m].about = subject[m].about /\ subject[m].key = NoKey
  BY <1>2 DEF Keys!Items, SubjectsGo
<1>3. \A iri \in Keys!Held : iri \in Keys!Held'
  BY DEF SubjectsGo
<1>4. QED
  BY <1>1, <1>2, <1>3 DEF CommandIs

\* Whoever stood first does, unless an older item is given a key.
LEMMA FirstStay ==
    ASSUME SubjectsInv, SubjectsGo, Keys!FirstStands,
           \A n \in DOMAIN Older : subject[n].key = NoKey => subject'[n].key = NoKey
    PROVE  Keys!FirstStands'
<1> SUFFICES ASSUME NEW n \in Keys!Items', subject'[n].key # NoKey, n \in DOMAIN Older,
                    NEW m \in Keys!Items', m < n, subject'[m].about = {subject'[n].key},
                    subject'[m].key = NoKey
             PROVE  FALSE
  BY DEF Keys!FirstStands
<1>1. m \in DOMAIN Older
  <2>1. n \in Nat /\ m \in Nat /\ m # 0
    BY KeysNumbers DEF Keys!Items
  <2>2. PICK k \in 0 .. MaxItems : DOMAIN Older = 1 .. k
    BY KeysNumbers
  <2>3. QED
    BY <2>1, <2>2
<1>2. n \in Keys!Items /\ m \in Keys!Items /\ subject[m].about = subject'[m].about
  BY <1>1 DEF SubjectsGo, Keys!Items
<1>3. subject[n].key = subject'[n].key /\ subject[n].key # NoKey /\ subject[m].key = NoKey
  BY <1>1, <1>2 DEF SubjectsGo, Keys!Items
<1>4. QED
  BY <1>2, <1>3 DEF Keys!FirstStands

\* A command moves, and the subjects do not.
LEMMA CommandMoves ==
    ASSUME KeysInv, subject' = subject, bridge' = bridge, NEW b \in Commands,
           NEW c \in CommandStates, backfill' = [backfill EXCEPT ![b] = c], CommandIs(b)'
    PROVE  KeysInv'
<1>1. SubjectsGo
  BY SubjectsStay
<1>2. \A a \in Commands : a # b => backfill'[a] = backfill[a]
  BY DEF KeysInv, CommandsInv
<1>3. \A a \in Commands : CommandIs(a)'
  BY <1>1, <1>2, CommandStays DEF KeysInv
<1>4. CommandsInv'
  BY <1>3 DEF KeysInv, CommandsInv
<1>5. SubjectsInv'
  BY DEF KeysInv, SubjectsInv
<1>6. Keys!FirstStands'
  BY DEF KeysInv, Keys!FirstStands, Keys!Items
<1>7. QED
  BY <1>4, <1>5, <1>6 DEF KeysInv

LEMMA KeysReadItems ==
    ASSUME KeysInv, NEW b \in Commands, Keys!ReadItems(b)
    PROVE  KeysInv'
<1> DEFINE rows == {[number |-> n, about |-> subject[n].about, key |-> subject[n].key] :
                       n \in Keys!Items}
           c == [backfill[b] EXCEPT !.at = "read", !.rows = rows]
<1>1. /\ backfill[b].at = "asked" /\ backfill' = [backfill EXCEPT ![b] = c]
      /\ subject' = subject /\ bridge' = bridge
      /\ backfill \in [Commands -> CommandStates] /\ CommandIs(b)
  BY DEF Keys!ReadItems, KeysInv, CommandsInv
<1>2. rows \subseteq KeyRows
  BY DEF KeysInv, SubjectsInv, Subjects, KeyRows, Keys!Items
<1>3. \A m \in Keys!Items : subject[m].key = NoKey =>
         [number |-> m, about |-> subject[m].about, key |-> NoKey] \in rows
  OBVIOUS
<1> HIDE DEF rows
<1>4. /\ c \in CommandStates /\ c.at = "read" /\ c.rows = rows
      /\ c.keyings = backfill[b].keyings /\ c.plan = backfill[b].plan
  BY <1>1, <1>2 DEF CommandStates
<1>5. backfill'[b] = c
  BY <1>1
<1> HIDE DEF c
<1>6. c.plan = {} /\ c.keyings = {}
  BY <1>1, <1>4 DEF CommandIs
<1>7. Keys!Items' = Keys!Items
  BY <1>1 DEF Keys!Items
<1>8. CommandIs(b)'
  BY <1>1, <1>3, <1>4, <1>5, <1>6, <1>7 DEF CommandIs
<1>9. QED
  BY <1>1, <1>4, <1>8, CommandMoves

\* Of the rows about an IRI that carry no key, the first is planned for.
LEMMA PlannedIs ==
    ASSUME NEW rows \in SUBSET KeyRows, NEW held
    PROVE  /\ Keys!Planned(rows, held) \subseteq Keyings
           /\ \A k \in Keys!Planned(rows, held) : \A r \in rows :
                 r.about = {k.key} /\ r.key = NoKey => k.item <= r.number
           /\ \A r \in rows : \A iri \in KeyIris : r.about = {iri} /\ r.key = NoKey =>
                 iri \in held \/ \E k \in Keys!Planned(rows, held) : k.key = iri
<1> DEFINE Of(iri) == {s \in rows : s.about = {iri} /\ s.key = NoKey}
           P == Keys!Planned(rows, held)
<1>1. P = UNION {{[item |-> r.number, key |-> iri] : r \in Keys!FirstOf(Of(iri))} :
                    iri \in KeyIris \ held}
  BY DEF Keys!Planned
<1>2. \A iri : \A r \in Keys!FirstOf(Of(iri)) :
         /\ r \in rows /\ r.number \in Keys!Numbers
         /\ \A s \in Of(iri) : r.number <= s.number
  BY DEF Keys!FirstOf, KeyRows
<1>3. \A k \in P : \E iri \in KeyIris : \E r \in Keys!FirstOf(Of(iri)) :
         k = [item |-> r.number, key |-> iri]
  BY <1>1
<1>4. ASSUME NEW k \in P PROVE k \in Keyings
  <2>1. PICK iri \in KeyIris : \E r \in Keys!FirstOf(Of(iri)) : k = [item |-> r.number, key |-> iri]
    BY <1>3
  <2>2. PICK r \in Keys!FirstOf(Of(iri)) : k = [item |-> r.number, key |-> iri]
    BY <2>1
  <2>3. r.number \in Keys!Numbers
    BY <1>2
  <2> HIDE DEF P, Of
  <2>4. QED
    BY <2>2, <2>3 DEF Keyings
<1>5. ASSUME NEW k \in P, NEW s \in rows, s.about = {k.key}, s.key = NoKey
      PROVE  k.item <= s.number
  <2>1. PICK iri \in KeyIris : \E r \in Keys!FirstOf(Of(iri)) : k = [item |-> r.number, key |-> iri]
    BY <1>3
  <2>2. PICK r \in Keys!FirstOf(Of(iri)) : k = [item |-> r.number, key |-> iri]
    BY <2>1
  <2>3. s \in Of(iri) /\ k.item = r.number
    BY <1>5, <2>2
  <2>4. QED
    BY <1>2, <2>3
<1>6. ASSUME NEW s \in rows, NEW iri \in KeyIris \ held, s.about = {iri}, s.key = NoKey
      PROVE  \E k \in P : k.key = iri
  <2> DEFINE T == {r.number : r \in Of(iri)}
  <2>1. T \in SUBSET Nat /\ T # {}
    BY <1>6, KeysNumbers DEF KeyRows
  <2>2. PICK n \in T : \A m \in T : n <= m
    BY <2>1, LeastOf
  <2>3. PICK r \in Of(iri) : r.number = n
    BY <2>2
  <2>4. r \in Keys!FirstOf(Of(iri))
    BY <2>2, <2>3 DEF Keys!FirstOf
  <2> HIDE DEF Of
  <2>5. [item |-> r.number, key |-> iri] \in P
    BY <1>1, <2>4
  <2>6. QED
    BY <2>5
<1>7. QED
  BY <1>4, <1>5, <1>6

LEMMA KeysReadKeys ==
    ASSUME KeysInv, NEW b \in Commands, Keys!ReadKeys(b)
    PROVE  KeysInv'
<1> DEFINE plan == Keys!Planned(backfill[b].rows, Keys!Held)
           at1 == IF plan = {} THEN "done" ELSE "keying"
           c == [backfill[b] EXCEPT !.at = at1, !.keyings = plan, !.plan = plan]
<1>1. /\ backfill[b].at = "read" /\ backfill' = [backfill EXCEPT ![b] = c]
      /\ subject' = subject /\ bridge' = bridge
      /\ backfill \in [Commands -> CommandStates] /\ CommandIs(b)
  BY DEF Keys!ReadKeys, KeysInv, CommandsInv
<1>2. backfill[b] \in CommandStates /\ backfill[b].rows \in SUBSET KeyRows
  BY <1>1 DEF CommandStates
<1> DEFINE rows == backfill[b].rows
<1>3. /\ plan \subseteq Keyings
      /\ \A k \in plan : \A r \in rows : r.about = {k.key} /\ r.key = NoKey => k.item <= r.number
      /\ \A r \in rows : \A iri \in KeyIris : r.about = {iri} /\ r.key = NoKey =>
            iri \in Keys!Held \/ \E k \in plan : k.key = iri
  <2> HIDE DEF rows
  <2>1. rows \in SUBSET KeyRows
    BY <1>2 DEF rows
  <2>2. /\ Keys!Planned(rows, Keys!Held) \subseteq Keyings
        /\ \A k \in Keys!Planned(rows, Keys!Held) : \A r \in rows :
              r.about = {k.key} /\ r.key = NoKey => k.item <= r.number
        /\ \A r \in rows : \A iri \in KeyIris : r.about = {iri} /\ r.key = NoKey =>
              iri \in Keys!Held \/ \E k \in Keys!Planned(rows, Keys!Held) : k.key = iri
    BY <2>1, PlannedIs
  <2>3. plan = Keys!Planned(rows, Keys!Held)
    BY DEF rows
  <2> HIDE DEF plan
  <2>4. QED
    BY <2>2, <2>3
<1>4. at1 \in {"done", "keying"} /\ (at1 = "done" => plan = {})
  OBVIOUS
<1> HIDE DEF plan, at1
<1>5. /\ c \in CommandStates /\ c.at = at1 /\ c.rows = rows
      /\ c.keyings = plan /\ c.plan = plan
  BY <1>2, <1>3, <1>4 DEF CommandStates
<1>6. backfill'[b] = c
  BY <1>1
<1> HIDE DEF c
<1>7. Keys!Items' = Keys!Items /\ Keys!Held' = Keys!Held
  BY <1>1 DEF Keys!Items, Keys!Held, Keys!Holder
<1>8. CommandIs(b)'
  <2>1. \A m \in Keys!Items : m \in DOMAIN Older /\ subject[m].key = NoKey =>
           [number |-> m, about |-> subject[m].about, key |-> NoKey] \in rows
    BY <1>1 DEF CommandIs
  <2> HIDE DEF rows
  <2>2. QED
    BY <1>1, <1>3, <1>4, <1>5, <1>6, <1>7, <2>1 DEF CommandIs
<1>9. QED
  BY <1>1, <1>5, <1>8, CommandMoves

LEMMA KeysReadBack ==
    ASSUME KeysInv, NEW b \in Commands, Keys!ReadBack(b)
    PROVE  KeysInv'
<1> DEFINE lost == {k \in backfill[b].plan : Keys!Holder(k.key) \cap Keys!Items # {k.item}}
           c == [backfill[b] EXCEPT !.at = "done", !.lost = lost]
           plan == backfill[b].plan
<1>1. /\ backfill[b].at = "keying" /\ backfill' = [backfill EXCEPT ![b] = c]
      /\ subject' = subject /\ bridge' = bridge
      /\ backfill \in [Commands -> CommandStates] /\ CommandIs(b)
  BY DEF Keys!ReadBack, KeysInv, CommandsInv
<1>2. backfill[b] \in CommandStates /\ plan \in SUBSET Keyings
  BY <1>1 DEF CommandStates
<1>3. lost \in SUBSET Keyings /\ (lost = {} => \A k \in plan : k.key \in Keys!Held)
  <2>1. ASSUME lost = {}, NEW k \in plan PROVE k.key \in Keys!Held
    <3>1. Keys!Holder(k.key) # {} /\ k.key \in KeyIris
      BY <1>2, <2>1 DEF Keyings
    <3>2. QED
      BY <3>1 DEF Keys!Held
  <2>2. QED
    BY <1>2, <2>1
<1> HIDE DEF lost
<1>4. /\ c \in CommandStates /\ c.at = "done" /\ c.rows = backfill[b].rows
      /\ c.keyings = backfill[b].keyings /\ c.plan = plan /\ c.lost = lost
  BY <1>2, <1>3 DEF CommandStates
<1>5. backfill'[b] = c
  BY <1>1
<1> HIDE DEF c
<1>6. Keys!Items' = Keys!Items /\ Keys!Held' = Keys!Held
  BY <1>1 DEF Keys!Items, Keys!Held, Keys!Holder
<1>7. CommandIs(b)'
  BY <1>1, <1>3, <1>4, <1>5, <1>6 DEF CommandIs
<1>8. QED
  BY <1>1, <1>4, <1>7, CommandMoves

LEMMA KeysAgain ==
    ASSUME KeysInv, NEW b \in Commands, Keys!Again(b)
    PROVE  KeysInv'
<1>1. /\ backfill' = [backfill EXCEPT ![b] = Keys!Idle] /\ subject' = subject /\ bridge' = bridge
      /\ backfill \in [Commands -> CommandStates]
  BY DEF Keys!Again, KeysInv, CommandsInv
<1>2. Keys!Idle \in CommandStates
  BY DEF Keys!Idle, CommandStates
<1>3. CommandIs(b)'
  BY <1>1 DEF CommandIs, Keys!Idle
<1>4. QED
  BY <1>1, <1>2, <1>3, CommandMoves

\* A key that lands goes to the first filing of those the command read, and to no other.
LEMMA KeysInsertKey ==
    ASSUME KeysInv, NEW b \in Commands, Keys!InsertKey(b)
    PROVE  KeysInv'
<1> DEFINE keyings == backfill[b].keyings
           First(c) == \A d \in keyings : c.item <= d.item
           k == CHOOSE c \in keyings : First(c)
           c1 == [backfill[b] EXCEPT !.keyings = keyings \ {k}]
<1>1. /\ backfill[b].at = "keying" /\ keyings # {}
      /\ subject' = IF Keys!Lands(k) THEN [subject EXCEPT ![k.item].key = k.key] ELSE subject
      /\ backfill' = [backfill EXCEPT ![b] = c1] /\ bridge' = bridge
      /\ backfill \in [Commands -> CommandStates] /\ CommandIs(b)
  BY DEF Keys!InsertKey, KeysInv, CommandsInv
<1>2. backfill[b] \in CommandStates /\ keyings \in SUBSET Keyings /\ keyings \subseteq backfill[b].plan
  BY <1>1 DEF CommandStates, CommandIs
<1>3. \E c \in keyings : First(c)
  <2> DEFINE T == {c.item : c \in keyings}
  <2>1. T \in SUBSET Nat /\ T # {}
    BY <1>1, <1>2, KeysNumbers DEF Keyings
  <2>2. PICK n \in T : \A m \in T : n <= m
    BY <2>1, LeastOf
  <2>3. PICK c \in keyings : c.item = n
    BY <2>2
  <2>4. QED
    BY <2>2, <2>3
<1> HIDE DEF First
<1>4. k \in keyings
  BY <1>3
<1> HIDE DEF k
<1>5. k \in Keyings /\ k.item \in Keys!Numbers /\ k.key \in KeyIris /\ k.key # NoKey
  BY <1>2, <1>4, KeysNumbers DEF Keyings
<1>6. /\ c1 \in CommandStates /\ c1.at = "keying" /\ c1.rows = backfill[b].rows
      /\ c1.keyings \subseteq backfill[b].plan /\ c1.plan = backfill[b].plan
      /\ c1.lost = backfill[b].lost
  BY <1>1, <1>2 DEF CommandStates
<1>7. backfill'[b] = c1 /\ \A a \in Commands : a # b => backfill'[a] = backfill[a]
  BY <1>1
<1> HIDE DEF c1, keyings
<1>8. ASSUME SubjectsGo
      PROVE  CommandsInv'
  <2>1. CommandIs(b)'
    <3>1. \A m \in Keys!Items' : m \in DOMAIN Older /\ subject'[m].key = NoKey =>
             m \in Keys!Items /\ subject'[m].about = subject[m].about /\ subject[m].key = NoKey
      BY <1>8 DEF Keys!Items, SubjectsGo
    <3>2. \A iri \in Keys!Held : iri \in Keys!Held'
      BY <1>8 DEF SubjectsGo
    <3>3. QED
      BY <1>1, <1>6, <1>7, <3>1, <3>2 DEF CommandIs
  <2>2. \A a \in Commands : CommandIs(a)'
    BY <1>7, <1>8, <2>1, CommandStays DEF KeysInv
  <2>3. backfill' \in [Commands -> CommandStates]
    BY <1>1, <1>6
  <2>4. QED
    BY <1>1, <2>2, <2>3 DEF KeysInv, CommandsInv
<1>9. CASE ~Keys!Lands(k)
  <2>1. subject' = subject
    BY <1>1, <1>9
  <2>2. SubjectsInv'
    BY <2>1 DEF KeysInv, SubjectsInv
  <2>3. Keys!FirstStands'
    BY <2>1 DEF KeysInv, Keys!FirstStands, Keys!Items
  <2>4. QED
    BY <1>8, <2>1, <2>2, <2>3, SubjectsStay DEF KeysInv
<1>10. CASE Keys!Lands(k)
  <2> DEFINE s1 == [subject[k.item] EXCEPT !.key = k.key]
  <2>1. /\ subject' = [subject EXCEPT ![k.item] = s1]
        /\ subject[k.item].is = "item" /\ subject[k.item].key = NoKey
        /\ Keys!Holder(k.key) = {}
    BY <1>1, <1>10 DEF Keys!Lands
  <2>2. subject \in [Keys!Numbers -> Subjects] /\ subject[k.item] \in Subjects
    BY <1>5 DEF KeysInv, SubjectsInv
  <2>3. /\ s1 \in Subjects /\ s1.is = "item" /\ s1.about = subject[k.item].about /\ s1.key = k.key
    BY <1>5, <2>1, <2>2 DEF Subjects
  <2>4. /\ subject' \in [Keys!Numbers -> Subjects] /\ subject'[k.item] = s1
        /\ \A n \in Keys!Numbers : n # k.item => subject'[n] = subject[n]
    BY <1>5, <2>1, <2>2, <2>3
  <2> HIDE DEF s1
  <2>5. \A n \in Keys!Numbers : subject'[n].is = subject[n].is
    BY <2>1, <2>3, <2>4
  <2>6. \A n \in Keys!Numbers : subject[n].key # k.key
    BY <2>1 DEF Keys!Holder
  <2>7. SubjectsInv'
    <3>1. \E p \in 0 .. MaxItems : \A n \in Keys!Numbers : subject'[n].is # "none" <=> n <= p
      BY <2>5 DEF KeysInv, SubjectsInv
    <3>2. \A n \in Keys!Numbers : subject'[n].is = "none" => subject'[n].key = NoKey
      BY <2>1, <2>4, <2>5 DEF KeysInv, SubjectsInv
    <3>3. \A n \in DOMAIN Older : n \in Keys!Numbers /\ subject'[n].is # "none"
      BY <2>5 DEF KeysInv, SubjectsInv
    <3>4. \A m, n \in Keys!Numbers :
             subject'[m].key = subject'[n].key /\ subject'[m].key # NoKey => m = n
      BY <2>3, <2>4, <2>6 DEF KeysInv, SubjectsInv
    <3>5. QED
      BY <2>4, <3>1, <3>2, <3>3, <3>4 DEF SubjectsInv
  <2>8. SubjectsGo
    <3>1. \A n \in Keys!Numbers : subject[n].key # NoKey => subject'[n].key = subject[n].key
      BY <2>1, <2>4
    <3>2. \A n \in Keys!Numbers : subject[n].is = "tombstone" => subject'[n] = subject[n]
      BY <2>1, <2>4
    <3>3. \A n \in Keys!Numbers : n \in DOMAIN Older /\ subject'[n].is = "item" =>
             subject[n].is = "item" /\ subject'[n].about = subject[n].about
      BY <2>1, <2>3, <2>4
    <3>4. QED
      BY <3>1, <3>2, <3>3, HeldStays DEF SubjectsGo
  <2>9. Keys!FirstStands'
    <3> SUFFICES ASSUME NEW n \in Keys!Items', subject'[n].key # NoKey, n \in DOMAIN Older,
                        NEW m \in Keys!Items', m < n, subject'[m].about = {subject'[n].key},
                        subject'[m].key = NoKey
                 PROVE  FALSE
      BY DEF Keys!FirstStands
    <3>1. n \in Keys!Numbers /\ m \in Keys!Numbers /\ m # k.item
      BY <1>5, <2>3, <2>4 DEF Keys!Items
    <3>2. n \in Keys!Items /\ m \in Keys!Items /\ subject'[m] = subject[m]
      BY <2>4, <2>5, <3>1 DEF Keys!Items
    <3>3. CASE n # k.item
      BY <2>4, <3>1, <3>2, <3>3 DEF KeysInv, Keys!FirstStands
    <3>4. CASE n = k.item
      <4>1. m \in DOMAIN Older
        <5>1. PICK j \in 0 .. MaxItems : DOMAIN Older = 1 .. j
          BY KeysNumbers
        <5>2. QED
          BY <3>1, <5>1, KeysNumbers
      <4>2. subject[m].about = {k.key} /\ subject[m].key = NoKey
        BY <2>3, <2>4, <3>2, <3>4
      <4> DEFINE r == [number |-> m, about |-> {k.key}, key |-> NoKey]
      <4>3. r \in backfill[b].rows
        BY <1>1, <3>2, <4>1, <4>2 DEF CommandIs
      <4>4. k.item <= r.number
        BY <1>1, <1>2, <1>4, <4>3 DEF CommandIs
      <4>5. QED
        BY <3>1, <3>4, <4>4, KeysNumbers
    <3>5. QED
      BY <3>3, <3>4
  <2>10. QED
    BY <1>8, <2>7, <2>8, <2>9 DEF KeysInv
<1>11. QED
  BY <1>9, <1>10

LEMMA KeysFile ==
    ASSUME KeysInv, NEW w \in {bridge1}, NEW iri \in KeyIris, Keys!File(w, iri)
    PROVE  KeysInv'
<1>1. /\ bridge' = [bridge EXCEPT ![w] = bridge[w] \ {iri}] /\ backfill' = backfill
      /\ bridge \in [{bridge1} -> SUBSET KeyIris] /\ backfill \in [Commands -> CommandStates]
  BY DEF Keys!File, KeysInv, CommandsInv
<1>2. bridge' \in [{bridge1} -> SUBSET KeyIris]
  BY <1>1
<1>3. ASSUME SubjectsGo
      PROVE  CommandsInv'
  BY <1>1, <1>2, <1>3, CommandStays DEF KeysInv, CommandsInv
<1>4. CASE iri \in Keys!Held
  <2>1. subject' = subject
    BY <1>4 DEF Keys!File
  <2>2. SubjectsInv'
    BY <2>1 DEF KeysInv, SubjectsInv
  <2>3. Keys!FirstStands'
    BY <2>1 DEF KeysInv, Keys!FirstStands, Keys!Items
  <2>4. QED
    BY <1>3, <2>1, <2>2, <2>3, SubjectsStay DEF KeysInv
<1>5. CASE iri \notin Keys!Held
  <2> DEFINE s1 == [is |-> "item", about |-> {iri}, key |-> iri]
             at1 == Keys!NextNumber
  <2>1. at1 \in Keys!Numbers /\ subject' = [subject EXCEPT ![at1] = s1]
    BY <1>5 DEF Keys!File
  <2>2. PICK p \in 0 .. MaxItems :
              /\ at1 = p + 1
              /\ \A n \in Keys!Numbers : subject[n].is # "none" <=> n <= p
    BY NextIsFree DEF KeysInv
  <2> HIDE DEF at1
  <2>3. s1 \in Subjects
    BY DEF Subjects
  <2>4. subject \in [Keys!Numbers -> Subjects] /\ subject[at1].is = "none" /\ subject[at1].key = NoKey
    BY <2>1, <2>2, KeysNumbers DEF KeysInv, SubjectsInv
  <2>5. /\ subject' \in [Keys!Numbers -> Subjects]
        /\ subject'[at1].is = "item" /\ subject'[at1].about = {iri} /\ subject'[at1].key = iri
        /\ \A n \in Keys!Numbers : n # at1 => subject'[n] = subject[n]
    BY <2>1, <2>3, <2>4
  <2> HIDE DEF s1
  <2>6. iri # NoKey /\ \A n \in Keys!Numbers : subject[n].key # iri
    BY <1>5, KeysNumbers DEF Keys!Held, Keys!Holder
  <2>7. at1 \notin DOMAIN Older
    BY <2>4 DEF KeysInv, SubjectsInv
  <2>8. SubjectsInv'
    <3>1. \E q \in 0 .. MaxItems : \A n \in Keys!Numbers : subject'[n].is # "none" <=> n <= q
      <4>1. p + 1 \in 0 .. MaxItems
        BY <2>1, <2>2, KeysNumbers
      <4>2. \A n \in Keys!Numbers : subject'[n].is # "none" <=> n <= p + 1
        <5>1. SUFFICES ASSUME NEW n \in Keys!Numbers
                       PROVE  subject'[n].is # "none" <=> n <= p + 1
          OBVIOUS
        <5>2. n \in Int /\ p \in Int
          BY KeysNumbers
        <5>3. CASE n = at1
          BY <2>2, <2>5, <5>2, <5>3
        <5>4. CASE n # at1
          BY <2>2, <2>5, <5>2, <5>4
        <5>5. QED
          BY <5>3, <5>4
      <4>3. QED
        BY <4>1, <4>2
    <3>2. \A n \in Keys!Numbers : subject'[n].is = "none" => subject'[n].key = NoKey
      BY <2>5 DEF KeysInv, SubjectsInv
    <3>3. \A n \in DOMAIN Older : n \in Keys!Numbers /\ subject'[n].is # "none"
      BY <2>5, <2>7 DEF KeysInv, SubjectsInv
    <3>4. \A m, n \in Keys!Numbers :
             subject'[m].key = subject'[n].key /\ subject'[m].key # NoKey => m = n
      BY <2>5, <2>6 DEF KeysInv, SubjectsInv
    <3>5. QED
      BY <2>5, <3>1, <3>2, <3>3, <3>4 DEF SubjectsInv
  <2>9. SubjectsGo
    <3>1. \A n \in Keys!Numbers : subject[n].key # NoKey => subject'[n].key = subject[n].key
      BY <2>4, <2>5
    <3>2. \A n \in Keys!Numbers : subject[n].is = "tombstone" => subject'[n] = subject[n]
      BY <2>4, <2>5
    <3>3. \A n \in Keys!Numbers : n \in DOMAIN Older /\ subject'[n].is = "item" =>
             subject[n].is = "item" /\ subject'[n].about = subject[n].about
      BY <2>5, <2>7
    <3>4. QED
      BY <3>1, <3>2, <3>3, HeldStays DEF SubjectsGo
  <2>10. Keys!FirstStands'
    <3>1. \A n \in DOMAIN Older : subject[n].key = NoKey => subject'[n].key = NoKey
      BY <2>5, <2>7 DEF KeysInv, SubjectsInv
    <3>2. QED
      BY <2>9, <3>1, FirstStay DEF KeysInv
  <2>11. QED
    BY <1>3, <2>8, <2>9, <2>10 DEF KeysInv
<1>6. QED
  BY <1>4, <1>5

LEMMA KeysDelete ==
    ASSUME KeysInv, NEW d \in Keys!Numbers, Keys!Delete(d)
    PROVE  KeysInv'
<1> DEFINE s1 == [subject[d] EXCEPT !.is = "tombstone", !.about = {}]
<1>1. /\ subject' = [subject EXCEPT ![d] = s1] /\ backfill' = backfill /\ bridge' = bridge
      /\ subject[d].is = "item"
  BY DEF Keys!Delete, Keys!Items
<1>2. subject \in [Keys!Numbers -> Subjects] /\ subject[d] \in Subjects
  BY DEF KeysInv, SubjectsInv
<1>3. s1 \in Subjects /\ s1.is = "tombstone" /\ s1.key = subject[d].key
  BY <1>2 DEF Subjects
<1>4. /\ subject' \in [Keys!Numbers -> Subjects] /\ subject'[d] = s1
      /\ \A n \in Keys!Numbers : n # d => subject'[n] = subject[n]
  BY <1>1, <1>2, <1>3
<1> HIDE DEF s1
<1>5. \A n \in Keys!Numbers : /\ subject'[n].is = "none" <=> subject[n].is = "none"
                              /\ subject'[n].key = subject[n].key
  BY <1>1, <1>3, <1>4
<1>6. SubjectsInv'
  <2>1. \E q \in 0 .. MaxItems : \A n \in Keys!Numbers : subject'[n].is # "none" <=> n <= q
    BY <1>5 DEF KeysInv, SubjectsInv
  <2>2. \A n \in Keys!Numbers : subject'[n].is = "none" => subject'[n].key = NoKey
    BY <1>5 DEF KeysInv, SubjectsInv
  <2>3. \A n \in DOMAIN Older : n \in Keys!Numbers /\ subject'[n].is # "none"
    BY <1>5 DEF KeysInv, SubjectsInv
  <2>4. \A m, n \in Keys!Numbers :
           subject'[m].key = subject'[n].key /\ subject'[m].key # NoKey => m = n
    BY <1>5 DEF KeysInv, SubjectsInv
  <2>5. QED
    BY <1>4, <2>1, <2>2, <2>3, <2>4 DEF SubjectsInv
<1>7. SubjectsGo
  <2>1. \A n \in Keys!Numbers : subject[n].is = "tombstone" => subject'[n] = subject[n]
    BY <1>1, <1>4
  <2>2. \A n \in Keys!Numbers : n \in DOMAIN Older /\ subject'[n].is = "item" =>
           subject[n].is = "item" /\ subject'[n].about = subject[n].about
    BY <1>3, <1>4
  <2>3. QED
    BY <1>5, <2>1, <2>2, HeldStays DEF SubjectsGo
<1>8. CommandsInv'
  BY <1>1, <1>7, CommandStays DEF KeysInv, CommandsInv
<1>9. Keys!FirstStands'
  BY <1>5, <1>7, FirstStay DEF KeysInv, SubjectsInv
<1>10. QED
  BY <1>6, <1>8, <1>9 DEF KeysInv

LEMMA KeysStep ==
    ASSUME KeysInv, Keys!Next
    PROVE  KeysInv'
<1>1. CASE \E b \in Commands : \/ Keys!ReadItems(b) \/ Keys!ReadKeys(b) \/ Keys!InsertKey(b)
                               \/ Keys!ReadBack(b) \/ Keys!Again(b)
  BY <1>1, KeysReadItems, KeysReadKeys, KeysInsertKey, KeysReadBack, KeysAgain
<1>2. CASE \E w \in {bridge1}, iri \in KeyIris : Keys!File(w, iri)
  BY <1>2, KeysFile
<1>3. CASE \E n \in Keys!Numbers : Keys!Delete(n)
  BY <1>3, KeysDelete
<1>4. QED
  BY <1>1, <1>2, <1>3 DEF Keys!Next, Commands

LEMMA KeysStays ==
    ASSUME KeysInv, UNCHANGED keysVars
    PROVE  KeysInv'
<1>1. subject' = subject /\ backfill' = backfill /\ bridge' = bridge
  BY DEF keysVars
<1>2. SubjectsInv'
  BY <1>1 DEF KeysInv, SubjectsInv
<1>3. CommandsInv'
  BY <1>1, <1>2, SubjectsStay, CommandStays DEF KeysInv, CommandsInv
<1>4. Keys!FirstStands'
  BY <1>1 DEF KeysInv, Keys!FirstStands, Keys!Items
<1>5. QED
  BY <1>2, <1>3, <1>4 DEF KeysInv

LEMMA KeysInitial ==
    ASSUME Keys!Init
    PROVE  KeysInv
<1>1. PICK p \in 0 .. MaxItems : Older \in [1 .. p -> SUBSET KeyIris]
  BY KeysNumbers
<1>2. /\ subject = [n \in Keys!Numbers |->
                      IF n \in DOMAIN Older
                      THEN [is |-> "item", about |-> Older[n], key |-> NoKey]
                      ELSE [is |-> "none", about |-> {}, key |-> NoKey]]
      /\ backfill = [b \in Commands |-> Keys!Idle]
      /\ bridge = [r \in {bridge1} |-> KeyIris]
  BY DEF Keys!Init, Keys!Free, Commands
<1>3. \A n \in Keys!Numbers : n \in DOMAIN Older => Older[n] \in SUBSET KeyIris
  BY <1>1
<1>4. subject \in [Keys!Numbers -> Subjects]
  BY <1>2, <1>3 DEF Subjects
<1>5. \A n \in Keys!Numbers : /\ subject[n].key = NoKey
                              /\ subject[n].is # "none" <=> n \in DOMAIN Older
  BY <1>2
<1>6. \A n \in Keys!Numbers : n \in DOMAIN Older <=> n <= p
  BY <1>1, KeysNumbers
<1>7. \A n \in DOMAIN Older : n \in Keys!Numbers
  BY <1>1, KeysNumbers
<1>8. SubjectsInv
  BY <1>4, <1>5, <1>6, <1>7 DEF SubjectsInv
<1>9. Keys!Idle \in CommandStates
  BY DEF Keys!Idle, CommandStates
<1>10. \A b \in Commands : CommandIs(b)
  BY <1>2 DEF CommandIs, Keys!Idle
<1>11. CommandsInv
  BY <1>2, <1>9, <1>10 DEF CommandsInv
<1>12. Keys!FirstStands
  BY <1>5 DEF Keys!FirstStands, Keys!Items
<1>13. QED
  BY <1>8, <1>11, <1>12 DEF KeysInv

\* What FiledOnce and PartsTypeOK ask of it.
LEMMA KeysTypes ==
    ASSUME KeysInv
    PROVE  Keys!TypeOK
<1>1. ASSUME NEW n \in Keys!Numbers
      PROVE  /\ subject[n].is \in {"none", "item", "tombstone"}
             /\ subject[n].key \in KeyIris \cup {NoKey} /\ subject[n].about \subseteq KeyIris
  BY DEF KeysInv, SubjectsInv, Subjects
<1>2. ASSUME NEW n \in Keys!Numbers
      PROVE  n \in Keys!Taken <=> n < Keys!NextNumber
  <2>1. PICK p \in 0 .. MaxItems : /\ Keys!NextNumber = p + 1
                                   /\ subject[n].is # "none" <=> n <= p
    BY NextIsFree DEF KeysInv
  <2>2. n \in Int /\ p \in Int
    BY KeysNumbers
  <2>3. n <= p <=> n < p + 1
    BY <2>2
  <2>4. QED
    BY <2>1, <2>3 DEF Keys!Taken
<1>3. ASSUME NEW b \in Commands
      PROVE  /\ backfill[b].at \in {"asked", "read", "keying", "done"}
             /\ backfill[b].keyings \subseteq backfill[b].plan
  <2>1. backfill[b] \in CommandStates /\ CommandIs(b)
    BY DEF KeysInv, CommandsInv
  <2>2. QED
    BY <2>1 DEF CommandStates, CommandIs
<1>4. \A r \in {bridge1} : bridge[r] \subseteq KeyIris
  BY DEF KeysInv, CommandsInv
<1>5. QED
  BY <1>1, <1>2, <1>3, <1>4 DEF Keys!TypeOK, Commands

LEMMA KeysGap ==
    ASSUME KeysInv
    PROVE  Keys!GapIsClosed
<1> SUFFICES ASSUME NEW b \in Commands, backfill[b].at = "done", backfill[b].lost = {},
                    NEW r \in backfill[b].rows, Cardinality(r.about) = 1, r.key = NoKey
             PROVE  r.about \subseteq Keys!Held
  BY KeysNumbers DEF Keys!GapIsClosed, Commands
<1>1. backfill[b] \in CommandStates /\ CommandIs(b)
  BY DEF KeysInv, CommandsInv
<1>2. r.about \in SUBSET KeyIris
  BY <1>1 DEF CommandStates, KeyRows
<1>3. IsFiniteSet(r.about)
  BY <1>2, KeysNumbers, FS_Subset
<1>4. PICK iri : r.about = {iri}
  BY <1>3, FS_Singleton
<1>5. iri \in KeyIris
  BY <1>2, <1>4
<1>6. iri \in Keys!Held \/ \E k \in backfill[b].plan : k.key = iri
  BY <1>1, <1>4, <1>5 DEF CommandIs
<1>7. iri \in Keys!Held
  BY <1>1, <1>6 DEF CommandIs
<1>8. QED
  BY <1>4, <1>7

LEMMA KeysOneHolder ==
    ASSUME KeysInv
    PROVE  \A iri \in KeyIris : Keys!Cardinality(Keys!Holder(iri)) <= 1
<1> SUFFICES ASSUME NEW iri \in KeyIris
             PROVE  Cardinality(Keys!Holder(iri)) <= 1
  BY KeysNumbers
<1>1. \A m, n \in Keys!Holder(iri) : m = n
  BY KeysNumbers DEF Keys!Holder, KeysInv, SubjectsInv
<1>2. CASE Keys!Holder(iri) = {}
  <2>1. Cardinality(Keys!Holder(iri)) = 0
    BY <1>2, FS_EmptySet
  <2>2. QED
    BY <2>1
<1>3. CASE Keys!Holder(iri) # {}
  <2>1. PICK n : n \in Keys!Holder(iri)
    BY <1>3
  <2>2. Keys!Holder(iri) = {n}
    BY <1>1, <2>1
  <2>3. Cardinality(Keys!Holder(iri)) = 1
    BY <2>2, FS_Singleton
  <2>4. QED
    BY <2>3
<1>4. QED
  BY <1>2, <1>3

\* A key stays where it was put, and a tombstone as it was.
LEMMA KeysStayPut ==
    ASSUME KeysInv, Keys!Next
    PROVE  /\ \A n \in Keys!Numbers : subject[n].key # NoKey => subject'[n].key = subject[n].key
           /\ \A n \in Keys!Numbers : subject[n].is = "tombstone" => subject'[n] = subject[n]
<1>0. subject \in [Keys!Numbers -> Subjects]
  BY DEF KeysInv, SubjectsInv
<1> DEFINE Put == /\ \A n \in Keys!Numbers : subject[n].key # NoKey => subject'[n].key = subject[n].key
                  /\ \A n \in Keys!Numbers : subject[n].is = "tombstone" => subject'[n] = subject[n]
<1>1. ASSUME NEW b \in Commands, Keys!InsertKey(b) PROVE Put
  <2> DEFINE k == CHOOSE c \in backfill[b].keyings : \A d \in backfill[b].keyings : c.item <= d.item
  <2>1. subject' = IF Keys!Lands(k) THEN [subject EXCEPT ![k.item].key = k.key] ELSE subject
    BY <1>1 DEF Keys!InsertKey
  <2> HIDE DEF k
  <2>2. CASE ~Keys!Lands(k)
    BY <2>1, <2>2
  <2>3. CASE Keys!Lands(k)
    <3>1. subject[k.item].is = "item" /\ subject[k.item].key = NoKey
      BY <2>3 DEF Keys!Lands
    <3>2. \A n \in Keys!Numbers : n # k.item => subject'[n] = subject[n]
      BY <1>0, <2>1, <2>3
    <3>3. QED
      BY <3>1, <3>2
  <2>4. QED
    BY <2>2, <2>3
<1>2. ASSUME NEW w \in {bridge1}, NEW iri \in KeyIris, Keys!File(w, iri) PROVE Put
  <2>1. CASE subject' = subject
    BY <2>1
  <2>2. CASE subject' # subject
    <3> DEFINE at1 == Keys!NextNumber
    <3>1. \A n \in Keys!Numbers : n # at1 => subject'[n] = subject[n]
      BY <1>0, <1>2, <2>2 DEF Keys!File
    <3>2. at1 \in Keys!Numbers
      BY <1>2, <2>2 DEF Keys!File
    <3>3. PICK p \in 0 .. MaxItems :
              /\ at1 = p + 1
              /\ \A n \in Keys!Numbers : subject[n].is # "none" <=> n <= p
      BY NextIsFree DEF KeysInv
    <3> HIDE DEF at1
    <3>4. subject[at1].is = "none" /\ subject[at1].key = NoKey
      BY <3>2, <3>3, KeysNumbers DEF KeysInv, SubjectsInv
    <3>5. QED
      BY <3>1, <3>4
  <2>3. QED
    BY <2>1, <2>2
<1>3. ASSUME NEW d \in Keys!Numbers, Keys!Delete(d) PROVE Put
  <2> DEFINE s1 == [subject[d] EXCEPT !.is = "tombstone", !.about = {}]
  <2>1. subject' = [subject EXCEPT ![d] = s1] /\ subject[d].is = "item" /\ subject[d] \in Subjects
    BY <1>0, <1>3 DEF Keys!Delete, Keys!Items
  <2>2. s1.key = subject[d].key
    BY <2>1 DEF Subjects
  <2> HIDE DEF s1
  <2>3. subject'[d] = s1 /\ \A n \in Keys!Numbers : n # d => subject'[n] = subject[n]
    BY <1>0, <2>1
  <2>4. QED
    BY <2>1, <2>2, <2>3
<1>4. subject' = subject => Put
  OBVIOUS
<1>5. \A b \in Commands : \/ Keys!ReadItems(b) \/ Keys!ReadKeys(b) \/ Keys!ReadBack(b) \/ Keys!Again(b)
                             => subject' = subject
  BY DEF Keys!ReadItems, Keys!ReadKeys, Keys!ReadBack, Keys!Again
<1> HIDE DEF Put
<1>6. Put
  BY <1>1, <1>2, <1>3, <1>4, <1>5 DEF Keys!Next, Commands
<1>7. QED
  BY <1>6 DEF Put
-----------------------------------------------------------------------------
(* The import: what a write does to an item, what is owed of an issue, and  *)
(* what a tally is to come to.                                              *)

KataComments == UNION {KataWrites[e].issues[i].comments : e \in DOMAIN KataWrites, i \in Import!Issues}
KataStates == {"filed", "advanced"} \cup
                 {KataWrites[e].issues[i].state : e \in DOMAIN KataWrites, i \in Import!Issues}
KataItems ==
    [is : {"none", "open", "closed", "deleted"},
     state : KataStates,
     claim : {"nobody", "mine", "someone"},
     comments : SUBSET KataComments,
     marked : BOOLEAN, deferred : BOOLEAN, links : SUBSET Import!Issues]

KataLedgers ==
    {its \in [Import!Issues -> KataItems] :
        \A i \in Import!Issues : its[i].is = "none" => its[i] = Import!Unfiled}

\* A write takes nothing from an item.
Grown(x, y) ==
    /\ x.is = "deleted" => y = x
    /\ x.is = "closed" => y.is = "closed"
    /\ x.is # "none" => y.is # "none"
    /\ x.is # "deleted" => y.is # "deleted"
    /\ x.claim # "nobody" => y.claim = x.claim
    /\ x.state # "filed" => y.state = x.state
    /\ x.comments \subseteq y.comments /\ x.links \subseteq y.links
    /\ x.marked => y.marked
    /\ x.deferred => y.deferred

LedgerGrown(its, its2) == \A i \in Import!Issues : Grown(its[i], its2[i])

InPlan(u, plan) == \E n \in DOMAIN plan : plan[n] = u

\* What the first pass sends for an issue has arrived, or is in the plan.
Owed(i, s, x, plan) ==
    \/ x.is = "deleted"
    \/ /\ x.is # "none"
       /\ \A c \in s.comments \ x.comments : InPlan([do |-> "comment", of |-> i, to |-> c], plan)
       /\ s.closed => x.is = "closed" \/ InPlan([do |-> "close", of |-> i], plan)
       /\ x.is = "open" /\ ~s.closed /\ s.owner = "mine" =>
             x.claim # "nobody" \/ InPlan([do |-> "claim", of |-> i], plan)
       /\ x.is = "open" /\ ~s.closed /\ s.owner = "other" =>
             /\ x.marked \/ InPlan([do |-> "mark", of |-> i], plan)
             /\ x.deferred \/ InPlan([do |-> "defer", of |-> i], plan)
       /\ x.is = "open" /\ s.state # "filed" =>
             x.state # "filed" \/ InPlan([do |-> "state", of |-> i, to |-> s.state], plan)

\* The issue is there, as the export has it.
There(i, s, x) == Owed(i, s, x, <<>>)

\* Its links have arrived, or are in the plan.
LinksOwed(export, its, i, plan) ==
    its[i].is # "deleted" =>
        \A l \in export.links :
            l[1] = i /\ ~export.issues[l[2]].deleted /\ its[l[2]].is # "deleted" =>
                l[2] \in its[i].links \/ InPlan([do |-> "link", of |-> i, to |-> l[2]], plan)

Complete(export, its, i) ==
    There(i, export.issues[i], its[i]) /\ LinksOwed(export, its, i, <<>>)

Undeleted(e) == {i \in Import!Issues : ~KataWrites[e].issues[i].deleted}
AtHand(r) == CHOOSE i \in r.left : \A j \in r.left : i <= j

\* A run's plan and what it has read, whatever anyone does beside it.
Ordered(r, its) ==
    /\ r.left \subseteq Undeleted(r.export) /\ DOMAIN r.here \subseteq Undeleted(r.export)
    /\ r.at \in {"read", "writes", "refused"} => r.left # {}
    /\ r.at = "read" => its[AtHand(r)].is # "none"
    /\ r.at \in {"writes", "refused"} =>
          /\ AtHand(r) \in DOMAIN r.here
          /\ \A n \in DOMAIN r.plan : r.plan[n].of = AtHand(r) /\ r.plan[n].do # "link"
    /\ r.at \in {"over", "issue", "read"} => r.plan = <<>>
    /\ r.at = "links" => r.left = {} /\ \A n \in DOMAIN r.plan : r.plan[n].do = "link"
    /\ r.dry => r.plan = <<>> /\ r.at \in {"over", "issue", "links"} /\ r.said = Import!Nothing
    /\ ~r.dry => \A i \in DOMAIN r.here : its[i].is # "none" /\ r.here[i].links \subseteq its[i].links
    /\ \A n \in DOMAIN r.plan : /\ its[r.plan[n].of].is # "none"
                                /\ r.plan[n].do = "state" => r.plan[n].to # "filed"
    /\ \A m, n \in DOMAIN r.plan : r.plan[m] = r.plan[n] => m = n
    /\ r.alone => r.calm
    /\ r.at = "over" => ~r.calm /\ ~r.alone

Sound(r, its) ==
    /\ Ordered(r, its)
    /\ r.at \in {"writes", "refused"} => r.plan # <<>>
    /\ r.at = "refused" => Head(r.plan).do = "state"

\* Nothing of the export is left out by a run that no person disturbs.
Owing(r, its) ==
    r.calm /\ ~r.dry =>
        /\ \A i \in Undeleted(r.export) \ r.left :
              There(i, KataWrites[r.export].issues[i], its[i])
              /\ (i \in DOMAIN r.here \/ its[i].is = "deleted")
        /\ \A i \in DOMAIN r.here : its[i].is # "deleted"
        /\ r.at \in {"writes", "refused"} =>
              Owed(AtHand(r), KataWrites[r.export].issues[AtHand(r)], its[AtHand(r)], r.plan)
        /\ r.at = "links" => \A i \in Undeleted(r.export) :
              LinksOwed(KataWrites[r.export], its, i, r.plan)

NoneDeleted(its) == \A i \in Import!Issues : its[i].is # "deleted"
OnlyAlready(t) == t = [Import!Nothing EXCEPT !.already = t.already]

\* A run of what was imported before finds nothing to do.
Repeating(r, its) ==
    r.again /\ r.calm =>
        /\ \A i \in Undeleted(r.export) : Complete(KataWrites[r.export], its, i)
        /\ (r.dry => NoneDeleted(its)) =>
              /\ r.plan = <<>> /\ OnlyAlready(r.tally)
              /\ \A i \in DOMAIN r.here : /\ its[i].is # "deleted"
                                          /\ \A l \in KataWrites[r.export].links :
                                                l[1] = i /\ ~KataWrites[r.export].issues[l[2]].deleted
                                                   /\ its[l[2]].is # "deleted" =>
                                                l[2] \in r.here[i].links

\* What a run has still to count of the issues in `left`: those in `ahead` are not appended.
ToFile(its, left) == {i \in left : its[i].is = "none"}
ToFind(its, ahead) == {i \in ahead : its[i].is \in {"open", "closed"}}
ToComment(e, its, left) ==
    {p \in left \X KataComments :
        p[2] \in KataWrites[e].issues[p[1]].comments \ its[p[1]].comments}
ToClose(e, its, left) ==
    {i \in left : KataWrites[e].issues[i].closed /\ its[i].is \in {"none", "open"}}
ToLink(e, its) ==
    {l \in KataWrites[e].links :
        l[1] \in Undeleted(e) /\ l[2] \in Undeleted(e) /\ l[2] \notin its[l[1]].links}

NoTombs(e, its) == \A i \in Undeleted(e) : its[i].is # "deleted"
Ahead(r) == IF r.at \in {"read", "writes", "refused"} THEN r.left \ {AtHand(r)} ELSE r.left

\* The tally comes to t.
ComesTo(r, its, t) ==
    /\ t.filed = r.tally.filed + Cardinality(ToFile(its, r.left))
    /\ t.already = r.tally.already + Cardinality(ToFind(its, Ahead(r)))
    /\ t.comments = r.tally.comments + Cardinality(ToComment(r.export, its, r.left))
    /\ t.closed = r.tally.closed + Cardinality(ToClose(r.export, its, r.left))

\* What a run by itself, of all that the export has, would count.
WholeOf(e, its) ==
    [filed |-> Cardinality(ToFile(its, Undeleted(e))),
     already |-> Cardinality(ToFind(its, Undeleted(e))),
     comments |-> Cardinality(ToComment(e, its, Undeleted(e))),
     closed |-> Cardinality(ToClose(e, its, Undeleted(e))),
     links |-> Cardinality(ToLink(e, its))]

\* A write of its plan is one that it was to count.
Lacks(e, i, u, its) ==
    /\ u.do = "comment" => u.to \in KataWrites[e].issues[i].comments \ its[i].comments
    /\ u.do = "close" => KataWrites[e].issues[i].closed /\ its[i].is = "open"
    /\ u.do = "link" =>
          /\ <<u.of, u.to>> \in KataWrites[e].links
          /\ u.of \in Undeleted(e) /\ u.to \in Undeleted(e) /\ u.to \notin its[u.of].links

PlanLacks(r, its) == \A n \in DOMAIN r.plan : Lacks(r.export, AtHand(r), r.plan[n], its)

\* A dry run counts the whole of it.
Counting(r, its) ==
    /\ Undeleted(r.export) \ r.left \subseteq DOMAIN r.here
    /\ \A i \in DOMAIN r.here : r.here[i].links = its[i].links
    /\ r.tally.links = IF r.at = "links" THEN Cardinality(ToLink(r.export, its)) ELSE 0
    /\ ComesTo(r, its, WholeOf(r.export, its))

\* A run that was promised it comes to the promise.
Promised(r, its) ==
    /\ NoTombs(r.export, its) /\ ComesTo(r, its, r.said)
    /\ r.said.links = r.tally.links + Cardinality(ToLink(r.export, its))
    /\ r.at # "links" => \A i \in DOMAIN r.here : r.here[i].links = its[i].links
    /\ PlanLacks(r, its)

Foretelling(r, its) ==
    /\ r.alone /\ r.dry /\ NoTombs(r.export, its) => Counting(r, its)
    /\ r.alone /\ ~r.dry /\ r.said # Import!Nothing => Promised(r, its)

Tallies == [filed : Nat, already : Nat, comments : Nat, closed : Nat, links : Nat]

KataSends ==
    [do : {"claim", "mark", "defer", "close"}, of : Import!Issues]
       \cup [do : {"comment"}, of : Import!Issues, to : KataComments]
       \cup [do : {"state"}, of : Import!Issues, to : KataStates]
       \cup [do : {"link"}, of : Import!Issues, to : Import!Issues]

KataRuns ==
    [at : {"over", "issue", "read", "writes", "refused", "links"}, export : DOMAIN KataWrites,
     dry : BOOLEAN, left : SUBSET Import!Issues,
     here : UNION {[D -> KataItems] : D \in SUBSET Import!Issues}, plan : Seq(KataSends),
     tally : Tallies, calm : BOOLEAN, alone : BOOLEAN, again : BOOLEAN, said : Tallies]

KataPromises == [export : {0} \cup DOMAIN KataWrites, tally : Tallies]

\* What the history keeps is so still.
Kept(its, done, word) ==
    /\ \A e \in done : \A i \in Undeleted(e) : Complete(KataWrites[e], its, i)
    /\ word.export # 0 => NoTombs(word.export, its) /\ word.tally = WholeOf(word.export, its)

Importers == {import1, import2}

RunStands(r, its) == Sound(r, its) /\ Owing(r, its) /\ Repeating(r, its) /\ Foretelling(r, its)

KataInv ==
    /\ kata \in DOMAIN KataWrites /\ begun \in 0 .. MaxRuns /\ acts \in 0 .. MaxActs
    /\ items \in KataLedgers /\ run \in [Importers -> KataRuns]
    /\ settled \subseteq DOMAIN KataWrites /\ promise \in KataPromises
    /\ \A w \in Importers : RunStands(run[w], items)
    /\ Kept(items, settled, promise)

LEMMA ImportNumbers ==
    /\ MaxRuns \in Nat /\ MaxActs \in Nat
    /\ Len(KataWrites) \in Nat \ {0} /\ DOMAIN KataWrites = 1 .. Len(KataWrites)
    /\ 1 \in DOMAIN KataWrites
    /\ Import!Issues \subseteq Nat /\ IsFiniteSet(Import!Issues)
    /\ \A e \in DOMAIN KataWrites :
          /\ DOMAIN KataWrites[e].issues = Import!Issues
          /\ IsFiniteSet(KataWrites[e].links)
          /\ KataWrites[e].links \subseteq Import!Issues \X Import!Issues
    /\ \A e \in DOMAIN KataWrites : \A i \in Import!Issues :
          /\ KataWrites[e].issues[i].closed \in BOOLEAN
          /\ KataWrites[e].issues[i].deleted \in BOOLEAN
          /\ IsFiniteSet(KataWrites[e].issues[i].comments)
          /\ KataWrites[e].issues[i].comments \subseteq KataComments
          /\ KataWrites[e].issues[i].state \in KataStates
    /\ \A S : Import!Cardinality(S) = Cardinality(S)
<1>1. \A S : Import!IsFiniteSet(S) <=> IsFiniteSet(S)
  BY Zenon DEF Import!IsFiniteSet, IsFiniteSet
<1>2. \A S : Import!Cardinality(S) = Cardinality(S)
  BY Zenon DEF Import!Cardinality, Cardinality, Import!IsFiniteSet, IsFiniteSet
<1>3. Len(KataWrites) \in Nat \ {0} /\ DOMAIN KataWrites = 1 .. Len(KataWrites)
  BY ImportBounds DEF Import!ImportConstants
<1>4. 1 \in DOMAIN KataWrites
  BY <1>3
<1>5. /\ MaxRuns \in Nat /\ MaxActs \in Nat
      /\ Import!Issues \subseteq Nat /\ IsFiniteSet(Import!Issues)
  BY <1>1, ImportBounds DEF Import!ImportConstants
<1>6. \A e \in DOMAIN KataWrites :
          /\ DOMAIN KataWrites[e].issues = Import!Issues
          /\ IsFiniteSet(KataWrites[e].links)
          /\ KataWrites[e].links \subseteq Import!Issues \X Import!Issues
  BY <1>1, ImportBounds DEF Import!ImportConstants
<1>7. ASSUME NEW e \in DOMAIN KataWrites, NEW i \in Import!Issues
      PROVE  /\ KataWrites[e].issues[i].closed \in BOOLEAN
             /\ KataWrites[e].issues[i].deleted \in BOOLEAN
             /\ IsFiniteSet(KataWrites[e].issues[i].comments)
  BY <1>1, ImportBounds DEF Import!ImportConstants
<1>8. ASSUME NEW e \in DOMAIN KataWrites, NEW i \in Import!Issues
      PROVE  /\ KataWrites[e].issues[i].comments \subseteq KataComments
             /\ KataWrites[e].issues[i].state \in KataStates
  BY DEF KataComments, KataStates
<1>9. QED
  BY <1>2, <1>3, <1>4, <1>5, <1>6, <1>7, <1>8

\* A plan sends nothing twice.
Distinct(plan) == \A m, n \in DOMAIN plan : plan[m] = plan[n] => m = n

\* A set is sent in some order.
LEMMA SentInTurn ==
    ASSUME NEW S, IsFiniteSet(S)
    PROVE  /\ Import!InSomeOrder(S) \in Seq(S) /\ Distinct(Import!InSomeOrder(S))
           /\ \A u : InPlan(u, Import!InSomeOrder(S)) <=> u \in S
<1> DEFINE n == Cardinality(S)
           Good(f) == f \in [1 .. n -> S] /\ \A a, b \in DOMAIN f : f[a] = f[b] => a = b
<1>1. n \in Nat /\ ExistsBijection(1 .. n, S)
  BY FS_CardinalityType
<1>2. PICK g \in Bijection(1 .. n, S) : TRUE
  BY <1>1 DEF ExistsBijection
<1>3. g \in [1 .. n -> S] /\ \A a, b \in 1 .. n : g[a] = g[b] => a = b
  BY <1>2 DEF Bijection, Injection, IsInjective
<1>4. Good(g)
  BY <1>3
<1> DEFINE q == Import!InSomeOrder(S)
<1>5. q = CHOOSE f \in [1 .. n -> S] : \A a, b \in DOMAIN f : f[a] = f[b] => a = b
  BY ImportNumbers DEF Import!InSomeOrder
<1>6. Good(q)
  BY <1>4, <1>5
<1> HIDE DEF q
<1>7. q \in Seq(S) /\ DOMAIN q = 1 .. n
  BY <1>1, <1>6
<1>8. q \in Injection(1 .. n, S)
  BY <1>6, <1>7 DEF Injection, IsInjective
<1>9. IsFiniteSet(1 .. n) /\ Cardinality(1 .. n) = Cardinality(S)
  BY <1>1, FS_Interval
<1>10. q \in Surjection(1 .. n, S)
  BY <1>8, <1>9, FS_Injection
<1>11. \A u \in S : \E a \in 1 .. n : q[a] = u
  BY <1>10 DEF Surjection
<1>12. \A u : InPlan(u, q) <=> u \in S
  BY <1>6, <1>7, <1>11 DEF InPlan
<1>13. Distinct(q)
  BY <1>6 DEF Distinct
<1>14. QED
  BY <1>7, <1>12, <1>13 DEF q

\* One plan after another.
Sent(plan, S) == plan \in Seq(S) /\ Distinct(plan)

LEMMA SentAfter ==
    ASSUME NEW S, NEW p, NEW q, Sent(p, S), Sent(q, S), \A u : ~(InPlan(u, p) /\ InPlan(u, q))
    PROVE  /\ Sent(p \o q, S)
           /\ \A u : InPlan(u, p \o q) <=> InPlan(u, p) \/ InPlan(u, q)
<1>1. /\ p \in Seq(S) /\ q \in Seq(S) /\ Len(p) \in Nat /\ Len(q) \in Nat
      /\ DOMAIN p = 1 .. Len(p) /\ DOMAIN q = 1 .. Len(q)
  BY DEF Sent
<1> DEFINE r == p \o q
<1>2. /\ r \in Seq(S) /\ Len(r) = Len(p) + Len(q) /\ DOMAIN r = 1 .. Len(p) + Len(q)
      /\ \A n \in 1 .. Len(p) : r[n] = p[n]
      /\ \A n \in Len(p) + 1 .. Len(p) + Len(q) : r[n] = q[n - Len(p)]
  BY <1>1
<1> HIDE DEF r
<1>3. \A n \in DOMAIN r : \/ n \in DOMAIN p /\ r[n] = p[n]
                          \/ n - Len(p) \in DOMAIN q /\ n \notin DOMAIN p /\ r[n] = q[n - Len(p)]
  BY <1>1, <1>2
<1>4. \A n \in DOMAIN p : n \in DOMAIN r /\ r[n] = p[n]
  BY <1>1, <1>2
<1>5. \A n \in DOMAIN q : n + Len(p) \in DOMAIN r /\ r[n + Len(p)] = q[n]
  <2>1. TAKE n \in DOMAIN q
  <2>2. n + Len(p) \in Len(p) + 1 .. Len(p) + Len(q) /\ (n + Len(p)) - Len(p) = n
    BY <1>1
  <2>3. QED
    BY <1>1, <1>2, <2>2
<1>6. ASSUME NEW m \in DOMAIN r, NEW n \in DOMAIN r, r[m] = r[n]
      PROVE  m = n
  <2>1. m \in Int /\ n \in Int
    BY <1>2
  <2>2. CASE m \in DOMAIN p /\ r[m] = p[m] /\ n \in DOMAIN p /\ r[n] = p[n]
    BY <1>6, <2>2 DEF Sent, Distinct
  <2>3. CASE /\ m - Len(p) \in DOMAIN q /\ r[m] = q[m - Len(p)]
             /\ n - Len(p) \in DOMAIN q /\ r[n] = q[n - Len(p)]
    <3>1. m - Len(p) = n - Len(p)
      BY <1>6, <2>3 DEF Sent, Distinct
    <3>2. QED
      BY <1>1, <2>1, <3>1
  <2>4. CASE /\ m \in DOMAIN p /\ r[m] = p[m]
             /\ n - Len(p) \in DOMAIN q /\ r[n] = q[n - Len(p)]
    <3>1. InPlan(r[m], p) /\ InPlan(r[m], q)
      BY <1>6, <2>4 DEF InPlan
    <3>2. QED
      BY <3>1
  <2>5. CASE /\ n \in DOMAIN p /\ r[n] = p[n]
             /\ m - Len(p) \in DOMAIN q /\ r[m] = q[m - Len(p)]
    <3>1. InPlan(r[m], p) /\ InPlan(r[m], q)
      BY <1>6, <2>5 DEF InPlan
    <3>2. QED
      BY <3>1
  <2>6. QED
    BY <1>3, <2>2, <2>3, <2>4, <2>5
<1>7. Sent(r, S)
  BY <1>2, <1>6 DEF Sent, Distinct
<1>8. ASSUME NEW u, InPlan(u, r)
      PROVE  InPlan(u, p) \/ InPlan(u, q)
  BY <1>3, <1>8 DEF InPlan
<1>9. ASSUME NEW u, InPlan(u, p) \/ InPlan(u, q)
      PROVE  InPlan(u, r)
  BY <1>4, <1>5, <1>9 DEF InPlan
<1>10. QED
  BY <1>7, <1>8, <1>9 DEF r

LEMMA SentWhen ==
    ASSUME NEW S, NEW c \in BOOLEAN, NEW v \in S
    PROVE  /\ Sent(Import!When(c, v), S)
           /\ \A u : InPlan(u, Import!When(c, v)) <=> c /\ u = v
<1>1. CASE c
  <2> DEFINE q == <<v>>
  <2>1. Import!When(c, v) = q
    BY <1>1 DEF Import!When
  <2>2. DOMAIN q = {1} /\ q[1] = v /\ q \in Seq(S)
    OBVIOUS
  <2> HIDE DEF q
  <2>3. Sent(q, S)
    BY <2>2 DEF Sent, Distinct
  <2>4. \A u : InPlan(u, q) <=> u = v
    BY <2>2 DEF InPlan
  <2>5. QED
    BY <1>1, <2>1, <2>3, <2>4
<1>2. CASE ~c
  <2>1. Import!When(c, v) = <<>>
    BY <1>2 DEF Import!When
  <2>2. DOMAIN <<>> = {} /\ <<>> \in Seq(S)
    OBVIOUS
  <2>3. QED
    BY <1>2, <2>1, <2>2 DEF Sent, Distinct, InPlan
<1>3. QED
  BY <1>1, <1>2

LEMMA SentRest ==
    ASSUME NEW S, NEW plan, Sent(plan, S), plan # <<>>
    PROVE  /\ Head(plan) \in S /\ Sent(Tail(plan), S)
           /\ \A u : InPlan(u, Tail(plan)) => InPlan(u, plan) /\ u # Head(plan)
           /\ \A u : InPlan(u, plan) => u = Head(plan) \/ InPlan(u, Tail(plan))
           /\ InPlan(Head(plan), plan)
<1>1. /\ plan \in Seq(S) /\ Len(plan) \in Nat /\ Len(plan) # 0 /\ DOMAIN plan = 1 .. Len(plan)
      /\ 1 \in DOMAIN plan
  BY DEF Sent
<1> DEFINE t == Tail(plan)
<1>2. /\ t \in Seq(S) /\ DOMAIN t = 1 .. Len(plan) - 1 /\ \A n \in DOMAIN t : t[n] = plan[n + 1]
      /\ Head(plan) = plan[1] /\ Head(plan) \in S
  BY <1>1
<1> HIDE DEF t
<1>3. \A n \in DOMAIN t : n + 1 \in DOMAIN plan /\ n + 1 # 1 /\ n \in Int
  BY <1>1, <1>2
<1>4. \A m, n \in DOMAIN t : t[m] = t[n] => m = n
  <2>1. SUFFICES ASSUME NEW m \in DOMAIN t, NEW n \in DOMAIN t, t[m] = t[n]
                 PROVE  m = n
    OBVIOUS
  <2>2. m + 1 = n + 1
    BY <1>2, <1>3, <2>1 DEF Sent, Distinct
  <2>3. QED
    BY <1>3, <2>2
<1>5. \A n \in DOMAIN plan : n = 1 \/ (n - 1 \in DOMAIN t /\ (n - 1) + 1 = n)
  BY <1>1, <1>2
<1>6. \A u : InPlan(u, t) => InPlan(u, plan) /\ u # Head(plan)
  BY <1>1, <1>2, <1>3 DEF InPlan, Sent, Distinct
<1>7. \A u : InPlan(u, plan) => u = Head(plan) \/ InPlan(u, t)
  BY <1>2, <1>5 DEF InPlan
<1>8. InPlan(Head(plan), plan)
  BY <1>1, <1>2 DEF InPlan
<1>9. QED
  BY <1>2, <1>4, <1>6, <1>7, <1>8 DEF Sent, Distinct, t

\* What a plan for an issue asks of its item.
Asks(i, s, x, u) ==
    \/ u = [do |-> "claim", of |-> i] /\ ~s.closed /\ x.is = "open" /\ s.owner = "mine"
          /\ x.claim = "nobody"
    \/ u = [do |-> "mark", of |-> i] /\ ~s.closed /\ x.is = "open" /\ s.owner = "other" /\ ~x.marked
    \/ u = [do |-> "defer", of |-> i] /\ ~s.closed /\ x.is = "open" /\ s.owner = "other" /\ ~x.deferred
    \/ u = [do |-> "state", of |-> i, to |-> s.state] /\ s.state # "filed" /\ x.is = "open"
          /\ x.state = "filed"
    \/ \E c \in s.comments \ x.comments : u = [do |-> "comment", of |-> i, to |-> c]
    \/ u = [do |-> "close", of |-> i] /\ s.closed /\ x.is = "open"

LEMMA PlanSent ==
    ASSUME NEW e \in DOMAIN KataWrites, NEW i \in Import!Issues, NEW x \in KataItems,
           NEW s, s = KataWrites[e].issues[i]
    PROVE  /\ Sent(Import!Plan(i, s, x), KataSends)
           /\ \A u : InPlan(u, Import!Plan(i, s, x)) <=> Asks(i, s, x, u)
<1> DEFINE open == ~s.closed /\ x.is = "open"
           other == open /\ s.owner = "other"
           u1 == [do |-> "claim", of |-> i]
           u2 == [do |-> "mark", of |-> i]
           u3 == [do |-> "defer", of |-> i]
           u4 == [do |-> "state", of |-> i, to |-> s.state]
           u6 == [do |-> "close", of |-> i]
           c1 == open /\ s.owner = "mine" /\ x.claim = "nobody"
           c2 == other /\ ~x.marked
           c3 == other /\ ~x.deferred
           c4 == s.state # "filed" /\ x.is = "open" /\ x.state = "filed"
           c6 == s.closed /\ x.is = "open"
           w1 == Import!When(c1, u1)
           w2 == Import!When(c2, u2)
           w3 == Import!When(c3, u3)
           w4 == Import!When(c4, u4)
           C == {[do |-> "comment", of |-> i, to |-> c] : c \in s.comments \ x.comments}
           w5 == Import!InSomeOrder(C)
           w6 == Import!When(c6, u6)
<1>1. /\ u1 \in KataSends /\ u2 \in KataSends /\ u3 \in KataSends /\ u6 \in KataSends
      /\ u4 \in KataSends /\ C \subseteq KataSends
  <2>1. s.state \in KataStates /\ s.comments \subseteq KataComments
    BY ImportNumbers
  <2>2. QED
    BY <2>1 DEF KataSends
<1>2. IsFiniteSet(C)
  <2>1. IsFiniteSet(s.comments)
    BY ImportNumbers
  <2> DEFINE T == s.comments \ x.comments
             f == [c \in T |-> [do |-> "comment", of |-> i, to |-> c]]
  <2>2. IsFiniteSet(T)
    BY <2>1, FS_Subset
  <2>3. f \in Surjection(T, C)
    BY Zenon DEF Surjection
  <2>4. QED
    BY <2>2, <2>3, FS_Surjection
<1>3. c1 \in BOOLEAN /\ c2 \in BOOLEAN /\ c3 \in BOOLEAN /\ c4 \in BOOLEAN /\ c6 \in BOOLEAN
  OBVIOUS
<1>4. Import!Plan(i, s, x) = (((((w1 \o w2) \o w3) \o w4) \o w5) \o w6)
  BY DEF Import!Plan, Import!Restores, Import!Comments, Import!Closes
<1>5. /\ u1.do = "claim" /\ u2.do = "mark" /\ u3.do = "defer" /\ u4.do = "state"
      /\ u6.do = "close" /\ \A u \in C : u.do = "comment"
  OBVIOUS
<1> HIDE DEF c1, c2, c3, c4, c6, u1, u2, u3, u4, u6, C
<1>6. /\ Sent(w1, KataSends) /\ \A u : InPlan(u, w1) <=> c1 /\ u = u1
  BY <1>1, <1>3, SentWhen
<1>7. /\ Sent(w2, KataSends) /\ \A u : InPlan(u, w2) <=> c2 /\ u = u2
  BY <1>1, <1>3, SentWhen
<1>8. /\ Sent(w3, KataSends) /\ \A u : InPlan(u, w3) <=> c3 /\ u = u3
  BY <1>1, <1>3, SentWhen
<1>9. /\ Sent(w4, KataSends) /\ \A u : InPlan(u, w4) <=> c4 /\ u = u4
  BY <1>1, <1>3, SentWhen
<1>10. /\ Sent(w5, KataSends) /\ \A u : InPlan(u, w5) <=> u \in C
  <2>1. w5 \in Seq(C) /\ Distinct(w5) /\ \A u : InPlan(u, w5) <=> u \in C
    BY <1>2, SentInTurn
  <2>2. w5 \in Seq(KataSends)
    BY <1>1, <2>1
  <2>3. QED
    BY <2>1, <2>2 DEF Sent
<1>11. /\ Sent(w6, KataSends) /\ \A u : InPlan(u, w6) <=> c6 /\ u = u6
  BY <1>1, <1>3, SentWhen
<1> HIDE DEF w1, w2, w3, w4, w5, w6
<1>12. /\ Sent(w1 \o w2, KataSends)
       /\ \A u : InPlan(u, w1 \o w2) <=> InPlan(u, w1) \/ InPlan(u, w2)
  <2>1. \A u : ~(InPlan(u, w1) /\ InPlan(u, w2))
    BY <1>5, <1>6, <1>7
  <2>2. QED
    BY <1>6, <1>7, <2>1, SentAfter
<1> DEFINE v2 == w1 \o w2
<1> HIDE DEF v2
<1>13. /\ Sent(v2 \o w3, KataSends)
       /\ \A u : InPlan(u, v2 \o w3) <=> InPlan(u, v2) \/ InPlan(u, w3)
  <2>1. \A u : ~(InPlan(u, v2) /\ InPlan(u, w3))
    BY <1>5, <1>6, <1>7, <1>8, <1>12 DEF v2
  <2>2. QED
    BY <1>8, <1>12, <2>1, SentAfter DEF v2
<1> DEFINE v3 == v2 \o w3
<1> HIDE DEF v3
<1>14. /\ Sent(v3 \o w4, KataSends)
       /\ \A u : InPlan(u, v3 \o w4) <=> InPlan(u, v3) \/ InPlan(u, w4)
  <2>1. \A u : ~(InPlan(u, v3) /\ InPlan(u, w4))
    BY <1>5, <1>6, <1>7, <1>8, <1>9, <1>12, <1>13 DEF v2, v3
  <2>2. QED
    BY <1>9, <1>13, <2>1, SentAfter DEF v3
<1> DEFINE v4 == v3 \o w4
<1> HIDE DEF v4
<1>15. /\ Sent(v4 \o w5, KataSends)
       /\ \A u : InPlan(u, v4 \o w5) <=> InPlan(u, v4) \/ InPlan(u, w5)
  <2>1. \A u : ~(InPlan(u, v4) /\ InPlan(u, w5))
    BY <1>5, <1>6, <1>7, <1>8, <1>9, <1>10, <1>12, <1>13, <1>14 DEF v2, v3, v4
  <2>2. QED
    BY <1>10, <1>14, <2>1, SentAfter DEF v4
<1> DEFINE v5 == v4 \o w5
<1> HIDE DEF v5
<1>16. /\ Sent(v5 \o w6, KataSends)
       /\ \A u : InPlan(u, v5 \o w6) <=> InPlan(u, v5) \/ InPlan(u, w6)
  <2>1. \A u : ~(InPlan(u, v5) /\ InPlan(u, w6))
    BY <1>5, <1>6, <1>7, <1>8, <1>9, <1>10, <1>11, <1>12, <1>13, <1>14, <1>15 DEF v2, v3, v4, v5
  <2>2. QED
    BY <1>11, <1>15, <2>1, SentAfter DEF v5
<1>17. Import!Plan(i, s, x) = v5 \o w6
  BY <1>4 DEF v2, v3, v4, v5
<1>18. \A u : InPlan(u, v5 \o w6) <=>
         (c1 /\ u = u1) \/ (c2 /\ u = u2) \/ (c3 /\ u = u3)
             \/ (c4 /\ u = u4) \/ u \in C \/ (c6 /\ u = u6)
  BY <1>6, <1>7, <1>8, <1>9, <1>10, <1>11, <1>12, <1>13, <1>14, <1>15, <1>16 DEF v2, v3, v4, v5
<1>19. \A u : Asks(i, s, x, u) <=>
         (c1 /\ u = u1) \/ (c2 /\ u = u2) \/ (c3 /\ u = u3)
             \/ (c4 /\ u = u4) \/ u \in C \/ (c6 /\ u = u6)
  BY DEF Asks, c1, c2, c3, c4, c6, u1, u2, u3, u4, u6, C
<1>20. QED
  BY <1>16, <1>17, <1>18, <1>19

\* What the second pass asks.
AsksLink(e, here, u) ==
    \E l \in KataWrites[e].links :
        /\ l[1] \in DOMAIN here /\ l[2] \in DOMAIN here /\ l[2] \notin here[l[1]].links
        /\ u = [do |-> "link", of |-> l[1], to |-> l[2]]

LEMMA LinksSent ==
    ASSUME NEW e \in DOMAIN KataWrites, NEW here
    PROVE  /\ Sent(Import!Links(KataWrites[e], here), KataSends)
           /\ \A u : InPlan(u, Import!Links(KataWrites[e], here)) <=> AsksLink(e, here, u)
<1> DEFINE L == {k \in KataWrites[e].links : /\ k[1] \in DOMAIN here /\ k[2] \in DOMAIN here
                                              /\ k[2] \notin here[k[1]].links}
           C == {[do |-> "link", of |-> l[1], to |-> l[2]] : l \in L}
           f == [l \in L |-> [do |-> "link", of |-> l[1], to |-> l[2]]]
<1>1. Import!Links(KataWrites[e], here) = Import!InSomeOrder(C)
  BY DEF Import!Links
<1>2. IsFiniteSet(L)
  BY ImportNumbers, FS_Subset
<1>3. IsFiniteSet(C)
  <2>1. f \in Surjection(L, C)
    BY DEF Surjection
  <2>2. QED
    BY <1>2, <2>1, FS_Surjection
<1>4. C \subseteq KataSends
  <2>1. \A l \in L : l[1] \in Import!Issues /\ l[2] \in Import!Issues
    BY ImportNumbers
  <2>2. QED
    BY <2>1 DEF KataSends
<1>5. \A u : AsksLink(e, here, u) <=> u \in C
  BY DEF AsksLink
<1> HIDE DEF C
<1> DEFINE q == Import!InSomeOrder(C)
<1>6. q \in Seq(C) /\ Distinct(q) /\ \A u : InPlan(u, q) <=> u \in C
  BY <1>3, SentInTurn
<1>7. q \in Seq(KataSends)
  BY <1>4, <1>6
<1>8. QED
  BY <1>1, <1>5, <1>6, <1>7 DEF Sent

\* Two sets are as large when the elements of one name those of the other.
LEMMA AsMany ==
    ASSUME NEW D, NEW T, IsFiniteSet(T), NEW f \in [D -> T],
           \A a, b \in D : f[a] = f[b] => a = b, \A t \in T : \E a \in D : f[a] = t
    PROVE  IsFiniteSet(D) /\ Cardinality(D) = Cardinality(T)
<1>1. f \in Injection(D, T)
  BY DEF Injection, IsInjective
<1>2. f \in Surjection(D, T)
  BY DEF Surjection
<1>3. QED
  BY <1>1, <1>2, FS_Injection

LEMMA CountComments ==
    ASSUME NEW e \in DOMAIN KataWrites, NEW i \in Import!Issues, NEW x \in KataItems,
           NEW s, s = KataWrites[e].issues[i]
    PROVE  Import!Count(Import!Plan(i, s, x), "comment") = Cardinality(s.comments \ x.comments)
<1> DEFINE plan == Import!Plan(i, s, x)
           D == {n \in DOMAIN plan : plan[n].do = "comment"}
           T == s.comments \ x.comments
           f == [n \in D |-> plan[n].to]
<1>1. Sent(plan, KataSends) /\ \A u : InPlan(u, plan) <=> Asks(i, s, x, u)
  BY PlanSent
<1>2. Import!Count(plan, "comment") = Cardinality(D)
  BY ImportNumbers DEF Import!Count
<1>3. IsFiniteSet(T)
  <2>1. IsFiniteSet(s.comments)
    BY ImportNumbers
  <2>2. QED
    BY <2>1, FS_Subset
<1> HIDE DEF plan, T
<1>4. \A n \in D : Asks(i, s, x, plan[n]) /\ plan[n].do = "comment"
  BY <1>1 DEF InPlan
<1>5. \A n \in D : plan[n].to \in T /\ plan[n] = [do |-> "comment", of |-> i, to |-> plan[n].to]
  BY <1>4 DEF Asks, T
<1>6. \A a, b \in D : f[a] = f[b] => a = b
  <2>1. SUFFICES ASSUME NEW a \in D, NEW b \in D, plan[a].to = plan[b].to
                 PROVE  a = b
    OBVIOUS
  <2>2. plan[a] = plan[b]
    BY <1>5, <2>1
  <2>3. QED
    BY <1>1, <2>2 DEF Sent, Distinct
<1>7. \A t \in T : \E a \in D : f[a] = t
  <2>1. SUFFICES ASSUME NEW t \in T
                 PROVE  \E a \in D : plan[a].to = t
    OBVIOUS
  <2> DEFINE u == [do |-> "comment", of |-> i, to |-> t]
  <2>2. Asks(i, s, x, u)
    BY <2>1 DEF Asks, T
  <2>3. u.do = "comment" /\ u.to = t
    OBVIOUS
  <2> HIDE DEF u
  <2>4. PICK a \in DOMAIN plan : plan[a] = u
    BY <1>1, <2>2 DEF InPlan
  <2>5. QED
    BY <2>3, <2>4
<1>8. f \in [D -> T]
  BY <1>5
<1> HIDE DEF D, f
<1>9. Cardinality(D) = Cardinality(T)
  BY <1>3, <1>6, <1>7, <1>8, AsMany
<1>10. QED
  BY <1>2, <1>9 DEF T, plan

LEMMA CountCloses ==
    ASSUME NEW e \in DOMAIN KataWrites, NEW i \in Import!Issues, NEW x \in KataItems,
           NEW s, s = KataWrites[e].issues[i]
    PROVE  /\ Import!Count(Import!Plan(i, s, x), "close") =
                 IF s.closed /\ x.is = "open" THEN 1 ELSE 0
           /\ Import!Count(Import!Plan(i, s, x), "link") = 0
<1> DEFINE plan == Import!Plan(i, s, x)
           D == {n \in DOMAIN plan : plan[n].do = "close"}
           E == {n \in DOMAIN plan : plan[n].do = "link"}
           u == [do |-> "close", of |-> i]
<1>1. Sent(plan, KataSends) /\ \A v : InPlan(v, plan) <=> Asks(i, s, x, v)
  BY PlanSent
<1>2. /\ Import!Count(plan, "close") = Cardinality(D)
      /\ Import!Count(plan, "link") = Cardinality(E)
  BY ImportNumbers DEF Import!Count
<1> HIDE DEF plan
<1>3. \A n \in DOMAIN plan : Asks(i, s, x, plan[n])
  BY <1>1 DEF InPlan
<1>4. E = {}
  BY <1>3 DEF Asks
<1>5. Cardinality(E) = 0
  BY <1>4, FS_EmptySet
<1>6. \A n \in D : plan[n] = u /\ s.closed /\ x.is = "open"
  BY <1>3 DEF Asks
<1>7. CASE s.closed /\ x.is = "open"
  <2>1. Asks(i, s, x, u) /\ u.do = "close"
    BY <1>7 DEF Asks
  <2> HIDE DEF u
  <2>2. PICK a \in DOMAIN plan : plan[a] = u
    BY <1>1, <2>1 DEF InPlan
  <2>3. D = {a}
    BY <1>1, <1>6, <2>1, <2>2 DEF Sent, Distinct
  <2>4. Cardinality(D) = 1
    BY <2>3, FS_Singleton
  <2>5. QED
    BY <1>2, <1>5, <1>7, <2>4 DEF plan
<1>8. CASE ~(s.closed /\ x.is = "open")
  <2>1. D = {}
    BY <1>6, <1>8
  <2>2. Cardinality(D) = 0
    BY <2>1, FS_EmptySet
  <2>3. QED
    BY <1>2, <1>5, <1>8, <2>2 DEF plan
<1>9. QED
  BY <1>7, <1>8

LEMMA CountLinks ==
    ASSUME NEW e \in DOMAIN KataWrites, NEW here, NEW L,
           L = {k \in KataWrites[e].links : /\ k[1] \in DOMAIN here /\ k[2] \in DOMAIN here
                                             /\ k[2] \notin here[k[1]].links}
    PROVE  /\ Import!Count(Import!Links(KataWrites[e], here), "link") = Cardinality(L)
           /\ Import!Count(Import!Links(KataWrites[e], here), "comment") = 0
           /\ Import!Count(Import!Links(KataWrites[e], here), "close") = 0
<1> DEFINE plan == Import!Links(KataWrites[e], here)
           Only(do) == {n \in DOMAIN plan : plan[n].do = do}
           D == Only("link")
           f == [n \in D |-> <<plan[n].of, plan[n].to>>]
<1>1. Sent(plan, KataSends) /\ \A v : InPlan(v, plan) <=> AsksLink(e, here, v)
  BY LinksSent
<1>2. \A do : Import!Count(plan, do) = Cardinality(Only(do))
  BY ImportNumbers DEF Import!Count
<1> HIDE DEF plan
<1>3. \A n \in DOMAIN plan : AsksLink(e, here, plan[n])
  BY <1>1 DEF InPlan
<1>4. \A l \in L : l = <<l[1], l[2]>>
  BY ImportNumbers
<1>5. \A n \in DOMAIN plan : \E l \in L : plan[n] = [do |-> "link", of |-> l[1], to |-> l[2]]
  BY <1>3 DEF AsksLink
<1>6. \A n \in DOMAIN plan : /\ plan[n].do = "link"
                             /\ plan[n] = [do |-> "link", of |-> plan[n].of, to |-> plan[n].to]
                             /\ <<plan[n].of, plan[n].to>> \in L
  BY <1>4, <1>5
<1>7. Only("comment") = {} /\ Only("close") = {}
  BY <1>6
<1>8. IsFiniteSet(L)
  BY ImportNumbers, FS_Subset
<1>9. \A a, b \in D : f[a] = f[b] => a = b
  <2>1. SUFFICES ASSUME NEW a \in D, NEW b \in D, <<plan[a].of, plan[a].to>> = <<plan[b].of, plan[b].to>>
                 PROVE  a = b
    OBVIOUS
  <2>2. plan[a] = plan[b]
    BY <1>6, <2>1
  <2>3. QED
    BY <1>1, <2>2 DEF Sent, Distinct
<1>10. \A t \in L : \E a \in D : f[a] = t
  <2>1. SUFFICES ASSUME NEW t \in L
                 PROVE  \E a \in D : <<plan[a].of, plan[a].to>> = t
    OBVIOUS
  <2> DEFINE u == [do |-> "link", of |-> t[1], to |-> t[2]]
  <2>2. AsksLink(e, here, u)
    BY <2>1 DEF AsksLink
  <2>3. u.do = "link" /\ u.of = t[1] /\ u.to = t[2]
    OBVIOUS
  <2> HIDE DEF u
  <2>4. PICK a \in DOMAIN plan : plan[a] = u
    BY <1>1, <2>2 DEF InPlan
  <2>5. a \in D
    BY <2>3, <2>4
  <2>6. QED
    BY <1>4, <2>1, <2>3, <2>4, <2>5
<1>11. f \in [D -> L]
  BY <1>6
<1>12. Cardinality(Only("comment")) = 0 /\ Cardinality(Only("close")) = 0
  BY <1>7, FS_EmptySet
<1> HIDE DEF f
<1>13. Cardinality(D) = Cardinality(L)
  <2> HIDE DEF D
  <2>1. QED
    BY <1>8, <1>9, <1>10, <1>11, AsMany, ZenonT(30)
<1> HIDE DEF Only
<1>14. QED
  BY <1>2, <1>12, <1>13 DEF plan

LEMMA CountOne ==
    ASSUME NEW u, NEW do
    PROVE  Import!Count(<<u>>, do) = IF u.do = do THEN 1 ELSE 0
<1> DEFINE q == <<u>>
           D == {n \in DOMAIN q : q[n].do = do}
<1>1. Import!Count(q, do) = Cardinality(D)
  BY ImportNumbers DEF Import!Count
<1>2. DOMAIN q = {1} /\ q[1] = u
  OBVIOUS
<1> HIDE DEF q
<1>3. D = IF u.do = do THEN {1} ELSE {}
  BY <1>2
<1>4. Cardinality({1}) = 1 /\ Cardinality({}) = 0
  BY FS_Singleton, FS_EmptySet
<1>5. QED
  BY <1>1, <1>3, <1>4 DEF q

\* What a write leaves of an item.
LEMMA WrittenIs ==
    ASSUME NEW x \in KataItems, NEW u \in KataSends, Import!Accepts(x, u), x.is # "none",
           u.do = "state" => u.to # "filed", NEW y, y = Import!Written(x, u)
    PROVE  /\ y \in KataItems /\ Grown(x, y) /\ y.is # "none"
           /\ y.is # x.is => u.do = "close" /\ y.is = "closed"
           /\ u.do = "close" => y.is = "closed"
           /\ u.do # "comment" => y.comments = x.comments
           /\ u.do = "comment" => y.comments = x.comments \cup {u.to}
           /\ u.do # "link" => y.links = x.links
           /\ u.do = "link" => y.links = x.links \cup {u.to}
           /\ u.do = "claim" => y.claim # "nobody"
           /\ u.do = "mark" => y.marked
           /\ u.do = "defer" => y.deferred
           /\ u.do = "state" => y.state # "filed"
<1>1. x.is # "deleted" /\ u.do \in {"claim", "mark", "defer", "state", "comment", "close", "link"}
  BY DEF Import!Accepts, KataSends
<1>2. CASE u.do = "claim"
  <2>1. y = [x EXCEPT !.claim = "mine"] /\ x.claim \in {"nobody", "mine"}
    BY <1>2 DEF Import!Written, Import!Accepts
  <2>2. QED
    BY <1>1, <1>2, <2>1 DEF KataItems, Grown
<1>3. CASE u.do = "mark"
  <2>1. y = [x EXCEPT !.marked = TRUE]
    BY <1>3 DEF Import!Written
  <2>2. QED
    BY <1>1, <1>3, <2>1 DEF KataItems, Grown
<1>4. CASE u.do = "defer"
  <2>1. y = [x EXCEPT !.deferred = TRUE]
    BY <1>4 DEF Import!Written
  <2>2. QED
    BY <1>1, <1>4, <2>1 DEF KataItems, Grown
<1>5. CASE u.do = "state"
  <2>1. y = [x EXCEPT !.state = u.to] /\ x.state = "filed"
    BY <1>5 DEF Import!Written, Import!Accepts
  <2>2. u.to \in KataStates
    BY <1>5 DEF KataSends
  <2>3. QED
    BY <1>1, <1>5, <2>1, <2>2 DEF KataItems, Grown
<1>6. CASE u.do = "comment"
  <2>1. y = [x EXCEPT !.comments = x.comments \cup {u.to}]
    BY <1>6 DEF Import!Written
  <2>2. u.to \in KataComments
    BY <1>6 DEF KataSends
  <2>3. QED
    BY <1>1, <1>6, <2>1, <2>2 DEF KataItems, Grown
<1>7. CASE u.do = "close"
  <2>1. y = [x EXCEPT !.is = "closed"]
    BY <1>7 DEF Import!Written
  <2>2. QED
    BY <1>1, <1>7, <2>1 DEF KataItems, Grown
<1>8. CASE u.do = "link"
  <2>1. y = [x EXCEPT !.links = x.links \cup {u.to}]
    BY <1>8 DEF Import!Written
  <2>2. u.to \in Import!Issues
    BY <1>8 DEF KataSends
  <2>3. QED
    BY <1>1, <1>8, <2>1, <2>2 DEF KataItems, Grown
<1>9. QED
  BY <1>1, <1>2, <1>3, <1>4, <1>5, <1>6, <1>7, <1>8

LEMMA GrownSelf == \A x : Grown(x, x)
BY DEF Grown

LEMMA FiledIs ==
    /\ Import!Unfiled \in KataItems /\ Import!Filed \in KataItems
    /\ Import!Unfiled.is = "none" /\ Import!Filed.is = "open"
    /\ Import!Filed = [Import!Unfiled EXCEPT !.is = "open"]
    /\ Import!Filed.comments = {} /\ Import!Filed.links = {}
    /\ Import!Unfiled.comments = {} /\ Import!Unfiled.links = {}
    /\ Grown(Import!Unfiled, Import!Filed)
<1> DEFINE U == Import!Unfiled
           F == Import!Filed
<1>1. /\ U = [is |-> "none", state |-> "filed", claim |-> "nobody", comments |-> {},
              marked |-> FALSE, deferred |-> FALSE, links |-> {}]
      /\ F = [U EXCEPT !.is = "open"]
  BY DEF Import!Unfiled, Import!Filed
<1> HIDE DEF U, F
<1>2. F = [is |-> "open", state |-> "filed", claim |-> "nobody", comments |-> {},
           marked |-> FALSE, deferred |-> FALSE, links |-> {}]
  BY <1>1
<1>3. "filed" \in KataStates
  BY DEF KataStates
<1>4. U \in KataItems /\ F \in KataItems
  BY <1>1, <1>2, <1>3 DEF KataItems
<1>5. Grown(U, F)
  BY <1>1, <1>2 DEF Grown
<1>6. QED
  BY <1>1, <1>2, <1>4, <1>5 DEF U, F

LEMMA OwedGrows ==
    ASSUME NEW i, NEW s, NEW x \in KataItems, NEW y \in KataItems, NEW plan,
           Owed(i, s, x, plan), Grown(x, y)
    PROVE  Owed(i, s, y, plan)
<1>1. CASE x.is = "deleted"
  BY <1>1 DEF Owed, Grown
<1>2. CASE x.is # "deleted"
  <2>1. /\ x.is # "none"
        /\ \A c \in s.comments \ x.comments : InPlan([do |-> "comment", of |-> i, to |-> c], plan)
        /\ s.closed => x.is = "closed" \/ InPlan([do |-> "close", of |-> i], plan)
        /\ x.is = "open" /\ ~s.closed /\ s.owner = "mine" =>
              x.claim # "nobody" \/ InPlan([do |-> "claim", of |-> i], plan)
        /\ x.is = "open" /\ ~s.closed /\ s.owner = "other" =>
              /\ x.marked \/ InPlan([do |-> "mark", of |-> i], plan)
              /\ x.deferred \/ InPlan([do |-> "defer", of |-> i], plan)
        /\ x.is = "open" /\ s.state # "filed" =>
              x.state # "filed" \/ InPlan([do |-> "state", of |-> i, to |-> s.state], plan)
    BY <1>2 DEF Owed
  <2>2. x.is \in {"open", "closed"} /\ (y.is = "open" => x.is = "open")
    BY <1>2, <2>1 DEF KataItems, Grown
  <2>3. QED
    BY <2>1, <2>2 DEF Owed, Grown
<1>3. QED
  BY <1>1, <1>2

LEMMA OwedWritten ==
    ASSUME NEW i, NEW s, NEW x \in KataItems, NEW plan, Sent(plan, KataSends), plan # <<>>,
           Owed(i, s, x, plan), NEW u, u = Head(plan), Import!Accepts(x, u), x.is # "none",
           u.do = "state" => u.to # "filed", NEW y, y = Import!Written(x, u)
    PROVE  Owed(i, s, y, Tail(plan))
<1>1. /\ u \in KataSends
      /\ \A v : InPlan(v, plan) => v = u \/ InPlan(v, Tail(plan))
  BY SentRest
<1>2. /\ y \in KataItems /\ Grown(x, y) /\ y.is # "none"
      /\ u.do = "close" => y.is = "closed"
      /\ u.do = "comment" => y.comments = x.comments \cup {u.to}
      /\ u.do = "claim" => y.claim # "nobody"
      /\ u.do = "mark" => y.marked
      /\ u.do = "defer" => y.deferred
      /\ u.do = "state" => y.state # "filed"
  BY <1>1, WrittenIs
<1>3. x.is # "deleted"
  BY DEF Import!Accepts
<1>4. Owed(i, s, y, plan)
  BY <1>2, OwedGrows
<1>5. y.is # "deleted" /\ y.is # "none"
  BY <1>2, <1>3 DEF Grown
<1>6. \A c \in s.comments \ y.comments :
          InPlan([do |-> "comment", of |-> i, to |-> c], Tail(plan))
  <2>1. SUFFICES ASSUME NEW c \in s.comments \ y.comments
                 PROVE  InPlan([do |-> "comment", of |-> i, to |-> c], Tail(plan))
    OBVIOUS
  <2> DEFINE v == [do |-> "comment", of |-> i, to |-> c]
  <2>2. v.do = "comment" /\ v.to = c /\ InPlan(v, plan)
    BY <1>4, <1>5 DEF Owed
  <2> HIDE DEF v
  <2>3. v # u
    BY <1>2, <2>1, <2>2
  <2>4. QED
    BY <1>1, <2>2, <2>3 DEF v
<1>7. s.closed => y.is = "closed" \/ InPlan([do |-> "close", of |-> i], Tail(plan))
  <2> DEFINE v == [do |-> "close", of |-> i]
  <2>1. v.do = "close" /\ (s.closed => y.is = "closed" \/ InPlan(v, plan))
    BY <1>4, <1>5 DEF Owed
  <2> HIDE DEF v
  <2>2. QED
    BY <1>1, <1>2, <2>1 DEF v
<1>8. y.is = "open" /\ ~s.closed /\ s.owner = "mine" =>
         y.claim # "nobody" \/ InPlan([do |-> "claim", of |-> i], Tail(plan))
  <2> DEFINE v == [do |-> "claim", of |-> i]
  <2>1. v.do = "claim" /\ (y.is = "open" /\ ~s.closed /\ s.owner = "mine" =>
                              y.claim # "nobody" \/ InPlan(v, plan))
    BY <1>4, <1>5 DEF Owed
  <2> HIDE DEF v
  <2>2. QED
    BY <1>1, <1>2, <2>1 DEF v
<1>9. y.is = "open" /\ ~s.closed /\ s.owner = "other" =>
         y.marked \/ InPlan([do |-> "mark", of |-> i], Tail(plan))
  <2> DEFINE v == [do |-> "mark", of |-> i]
  <2>1. v.do = "mark" /\ (y.is = "open" /\ ~s.closed /\ s.owner = "other" =>
                             y.marked \/ InPlan(v, plan))
    BY <1>4, <1>5 DEF Owed
  <2> HIDE DEF v
  <2>2. QED
    BY <1>1, <1>2, <2>1 DEF v
<1>10. y.is = "open" /\ ~s.closed /\ s.owner = "other" =>
         y.deferred \/ InPlan([do |-> "defer", of |-> i], Tail(plan))
  <2> DEFINE v == [do |-> "defer", of |-> i]
  <2>1. v.do = "defer" /\ (y.is = "open" /\ ~s.closed /\ s.owner = "other" =>
                              y.deferred \/ InPlan(v, plan))
    BY <1>4, <1>5 DEF Owed
  <2> HIDE DEF v
  <2>2. QED
    BY <1>1, <1>2, <2>1 DEF v
<1>11. y.is = "open" /\ s.state # "filed" =>
         y.state # "filed" \/ InPlan([do |-> "state", of |-> i, to |-> s.state], Tail(plan))
  <2> DEFINE v == [do |-> "state", of |-> i, to |-> s.state]
  <2>1. v.do = "state" /\ (y.is = "open" /\ s.state # "filed" =>
                              y.state # "filed" \/ InPlan(v, plan))
    BY <1>4, <1>5 DEF Owed
  <2> HIDE DEF v
  <2>2. QED
    BY <1>1, <1>2, <2>1 DEF v
<1>12. QED
  BY <1>5, <1>6, <1>7, <1>8, <1>9, <1>10, <1>11 DEF Owed

\* A state that another brought there is not owed.
LEMMA OwedThere ==
    ASSUME NEW i, NEW s, NEW x \in KataItems, NEW plan, Sent(plan, KataSends), plan # <<>>,
           Owed(i, s, x, plan), Head(plan).do = "state", x.state # "filed"
    PROVE  Owed(i, s, x, Tail(plan))
<1>1. \A v : InPlan(v, plan) => v = Head(plan) \/ InPlan(v, Tail(plan))
  BY SentRest
<1>2. \A v : InPlan(v, plan) /\ v.do # "state" => InPlan(v, Tail(plan))
  BY <1>1
<1>3. \A c : InPlan([do |-> "comment", of |-> i, to |-> c], plan) =>
                InPlan([do |-> "comment", of |-> i, to |-> c], Tail(plan))
  BY <1>2
<1>4. /\ InPlan([do |-> "close", of |-> i], plan) => InPlan([do |-> "close", of |-> i], Tail(plan))
      /\ InPlan([do |-> "claim", of |-> i], plan) => InPlan([do |-> "claim", of |-> i], Tail(plan))
      /\ InPlan([do |-> "mark", of |-> i], plan) => InPlan([do |-> "mark", of |-> i], Tail(plan))
      /\ InPlan([do |-> "defer", of |-> i], plan) => InPlan([do |-> "defer", of |-> i], Tail(plan))
  BY <1>2
<1>5. QED
  BY <1>3, <1>4 DEF Owed

LEMMA OwedPlan ==
    ASSUME NEW e \in DOMAIN KataWrites, NEW i \in Import!Issues, NEW x \in KataItems,
           NEW s, s = KataWrites[e].issues[i], x.is # "none"
    PROVE  Owed(i, s, x, Import!Plan(i, s, x))
<1> DEFINE plan == Import!Plan(i, s, x)
<1>1. \A u : InPlan(u, plan) <=> Asks(i, s, x, u)
  BY PlanSent
<1> HIDE DEF plan
<1>2. x.is \in {"open", "closed", "deleted"} /\ x.marked \in BOOLEAN /\ x.deferred \in BOOLEAN
  BY DEF KataItems
<1>3. ASSUME NEW c \in s.comments \ x.comments
      PROVE  InPlan([do |-> "comment", of |-> i, to |-> c], plan)
  BY <1>1, <1>3 DEF Asks
<1>4. s.closed /\ x.is = "open" => InPlan([do |-> "close", of |-> i], plan)
  BY <1>1 DEF Asks
<1>5. x.is = "open" /\ ~s.closed /\ s.owner = "mine" =>
         x.claim # "nobody" \/ InPlan([do |-> "claim", of |-> i], plan)
  BY <1>1 DEF Asks
<1>6. x.is = "open" /\ ~s.closed /\ s.owner = "other" =>
         /\ x.marked \/ InPlan([do |-> "mark", of |-> i], plan)
         /\ x.deferred \/ InPlan([do |-> "defer", of |-> i], plan)
  BY <1>1 DEF Asks
<1>7. x.is = "open" /\ s.state # "filed" =>
         x.state # "filed" \/ InPlan([do |-> "state", of |-> i, to |-> s.state], plan)
  BY <1>1 DEF Asks
<1>8. QED
  BY <1>2, <1>3, <1>4, <1>5, <1>6, <1>7 DEF Owed, plan

LEMMA NoneInPlan == \A u : ~InPlan(u, <<>>)
BY DEF InPlan

\* What is there is asked nothing.
LEMMA NothingAsked ==
    ASSUME NEW e \in DOMAIN KataWrites, NEW i \in Import!Issues, NEW x \in KataItems,
           NEW s, s = KataWrites[e].issues[i], x.is # "deleted", There(i, s, x)
    PROVE  Import!Plan(i, s, x) = <<>>
<1> DEFINE plan == Import!Plan(i, s, x)
<1>1. Sent(plan, KataSends) /\ \A u : InPlan(u, plan) <=> Asks(i, s, x, u)
  BY PlanSent
<1> HIDE DEF plan
<1>2. /\ s.comments \subseteq x.comments
      /\ s.closed => x.is = "closed"
      /\ x.is = "open" /\ ~s.closed /\ s.owner = "mine" => x.claim # "nobody"
      /\ x.is = "open" /\ ~s.closed /\ s.owner = "other" => x.marked /\ x.deferred
      /\ x.is = "open" /\ s.state # "filed" => x.state # "filed"
  BY NoneInPlan DEF There, Owed
<1>3. \A u : ~Asks(i, s, x, u)
  BY <1>2 DEF Asks
<1>4. \A n \in DOMAIN plan : FALSE
  BY <1>1, <1>3 DEF InPlan
<1>5. plan = <<>>
  <2>1. plan \in Seq(KataSends)
    BY <1>1 DEF Sent
  <2>2. Len(plan) \in Nat /\ DOMAIN plan = 1 .. Len(plan)
    BY <2>1
  <2>3. 1 \notin DOMAIN plan
    BY <1>4
  <2>4. Len(plan) = 0
    BY <2>2, <2>3
  <2>5. QED
    BY <2>1, <2>4
<1>6. QED
  BY <1>5 DEF plan

LEMMA LinksGrow ==
    ASSUME NEW export, NEW its, NEW its2, NEW i \in Import!Issues, NEW plan,
           LinksOwed(export, its, i, plan), LedgerGrown(its, its2),
           \A l \in export.links : l[2] \in Import!Issues
    PROVE  LinksOwed(export, its2, i, plan)
BY DEF LinksOwed, LedgerGrown, Grown

LEMMA CompleteGrows ==
    ASSUME NEW e \in DOMAIN KataWrites, NEW its \in KataLedgers, NEW its2 \in KataLedgers,
           NEW i \in Import!Issues, LedgerGrown(its, its2), Complete(KataWrites[e], its, i)
    PROVE  Complete(KataWrites[e], its2, i)
<1>1. its[i] \in KataItems /\ its2[i] \in KataItems /\ Grown(its[i], its2[i])
  BY DEF KataLedgers, LedgerGrown
<1>2. There(i, KataWrites[e].issues[i], its2[i])
  BY <1>1, OwedGrows DEF There, Complete
<1>3. \A l \in KataWrites[e].links : l[2] \in Import!Issues
  BY ImportNumbers
<1>4. LinksOwed(KataWrites[e], its2, i, <<>>)
  BY <1>3, LinksGrow DEF Complete
<1>5. QED
  BY <1>2, <1>4 DEF Complete

-----------------------------------------------------------------------------
(* What others do takes nothing from a run, but that it is alone.           *)

Same(r, r2) == r2 = r \/ r2 = [r EXCEPT !.alone = FALSE]

LEMMA SameIs ==
    ASSUME NEW r \in KataRuns, NEW r2, Same(r, r2)
    PROVE  /\ r2 \in KataRuns
           /\ r2.at = r.at /\ r2.export = r.export /\ r2.dry = r.dry /\ r2.left = r.left
           /\ r2.here = r.here /\ r2.plan = r.plan /\ r2.tally = r.tally /\ r2.calm = r.calm
           /\ r2.again = r.again /\ r2.said = r.said
           /\ r2.alone => r2 = r
           /\ AtHand(r2) = AtHand(r)
<1>1. /\ r2 \in KataRuns
      /\ r2.at = r.at /\ r2.export = r.export /\ r2.dry = r.dry /\ r2.left = r.left
      /\ r2.here = r.here /\ r2.plan = r.plan /\ r2.tally = r.tally /\ r2.calm = r.calm
      /\ r2.again = r.again /\ r2.said = r.said
      /\ r2.alone => r2 = r
  BY DEF Same, KataRuns
<1>2. QED
  BY <1>1 DEF AtHand

LEMMA AtHandIs ==
    ASSUME NEW r \in KataRuns, r.left # {}
    PROVE  AtHand(r) \in r.left /\ AtHand(r) \in Import!Issues
<1>1. r.left \in SUBSET Nat /\ r.left \subseteq Import!Issues
  BY ImportNumbers DEF KataRuns
<1>2. \E i \in r.left : \A j \in r.left : i <= j
  BY <1>1, LeastOf
<1>3. AtHand(r) \in r.left
  BY <1>2 DEF AtHand
<1>4. QED
  BY <1>1, <1>3

\* What a typed run's parts are.
LEMMA RunParts ==
    ASSUME NEW r \in KataRuns
    PROVE  /\ r.export \in DOMAIN KataWrites /\ r.left \subseteq Import!Issues
           /\ DOMAIN r.here \subseteq Import!Issues /\ \A i \in DOMAIN r.here : r.here[i] \in KataItems
           /\ r.plan \in Seq(KataSends) /\ r.tally \in Tallies /\ r.said \in Tallies
           /\ r.dry \in BOOLEAN /\ r.calm \in BOOLEAN /\ r.alone \in BOOLEAN /\ r.again \in BOOLEAN
           /\ r.at \in {"over", "issue", "read", "writes", "refused", "links"}
           /\ \A n \in DOMAIN r.plan : /\ r.plan[n] \in KataSends /\ r.plan[n].of \in Import!Issues
                                       /\ r.plan[n].do = "link" => r.plan[n].to \in Import!Issues
<1>1. r.here \in UNION {[D -> KataItems] : D \in SUBSET Import!Issues}
  BY DEF KataRuns
<1>2. PICK D \in SUBSET Import!Issues : r.here \in [D -> KataItems]
  BY <1>1
<1>3. r.plan \in Seq(KataSends)
  BY DEF KataRuns
<1>4. \A n \in DOMAIN r.plan : r.plan[n] \in KataSends
  BY <1>3
<1>5. \A u \in KataSends : u.of \in Import!Issues /\ (u.do = "link" => u.to \in Import!Issues)
  BY DEF KataSends
<1>6. QED
  BY <1>2, <1>3, <1>4, <1>5 DEF KataRuns

LEMMA SoundStays ==
    ASSUME NEW r \in KataRuns, NEW r2, Same(r, r2), NEW its, NEW its2, LedgerGrown(its, its2),
           Sound(r, its)
    PROVE  Sound(r2, its2)
<1>1. /\ r2.at = r.at /\ r2.export = r.export /\ r2.dry = r.dry /\ r2.left = r.left
      /\ r2.here = r.here /\ r2.plan = r.plan /\ r2.calm = r.calm /\ AtHand(r2) = AtHand(r)
      /\ r2.said = r.said /\ (r2.alone => r.alone)
  BY SameIs
<1>2. r.at = "read" => its2[AtHand(r)].is # "none"
  <2>1. r.at = "read" => AtHand(r) \in Import!Issues /\ its[AtHand(r)].is # "none"
    BY AtHandIs DEF Sound, Ordered
  <2>2. QED
    BY <2>1 DEF LedgerGrown, Grown
<1>3. ~r.dry => \A i \in DOMAIN r.here :
         its2[i].is # "none" /\ r.here[i].links \subseteq its2[i].links
  <2>1. DOMAIN r.here \subseteq Import!Issues
    BY RunParts
  <2>2. QED
    BY <2>1 DEF Sound, Ordered, LedgerGrown, Grown
<1>4. \A n \in DOMAIN r.plan : /\ its2[r.plan[n].of].is # "none"
                               /\ r.plan[n].do = "state" => r.plan[n].to # "filed"
  <2>1. \A n \in DOMAIN r.plan : r.plan[n].of \in Import!Issues
    BY RunParts
  <2>2. QED
    BY <2>1 DEF Sound, Ordered, LedgerGrown, Grown
<1>5. QED
  BY <1>1, <1>2, <1>3, <1>4 DEF Sound, Ordered

LEMMA OwingStays ==
    ASSUME NEW r \in KataRuns, NEW r2, Same(r, r2), NEW its \in KataLedgers,
           NEW its2 \in KataLedgers, LedgerGrown(its, its2), Sound(r, its), Owing(r, its)
    PROVE  Owing(r2, its2)
<1>1. /\ r2.at = r.at /\ r2.export = r.export /\ r2.dry = r.dry /\ r2.left = r.left
      /\ r2.here = r.here /\ r2.plan = r.plan /\ r2.calm = r.calm /\ AtHand(r2) = AtHand(r)
  BY SameIs
<1> SUFFICES ASSUME r.calm, ~r.dry
             PROVE  Owing(r2, its2)
  BY <1>1 DEF Owing
<1>2. /\ r.export \in DOMAIN KataWrites /\ r.left \subseteq Import!Issues
      /\ DOMAIN r.here \subseteq Import!Issues
  BY RunParts
<1>3. \A i \in Import!Issues : /\ its[i] \in KataItems /\ its2[i] \in KataItems
                               /\ Grown(its[i], its2[i])
  BY DEF KataLedgers, LedgerGrown
<1>4. ASSUME NEW i \in Undeleted(r.export) \ r.left
      PROVE  /\ There(i, KataWrites[r.export].issues[i], its2[i])
             /\ i \in DOMAIN r.here \/ its2[i].is = "deleted"
  <2>1. i \in Import!Issues
    BY DEF Undeleted
  <2>2. /\ There(i, KataWrites[r.export].issues[i], its[i])
        /\ i \in DOMAIN r.here \/ its[i].is = "deleted"
    BY <1>4 DEF Owing
  <2>3. There(i, KataWrites[r.export].issues[i], its2[i])
    BY <1>3, <2>1, <2>2, OwedGrows DEF There
  <2>4. QED
    BY <1>3, <2>1, <2>2, <2>3 DEF Grown
<1>5. \A i \in DOMAIN r.here : its2[i].is # "deleted"
  BY <1>2, <1>3 DEF Owing, Grown
<1>6. r.at \in {"writes", "refused"} =>
         Owed(AtHand(r), KataWrites[r.export].issues[AtHand(r)], its2[AtHand(r)], r.plan)
  <2>1. SUFFICES ASSUME r.at \in {"writes", "refused"}
                 PROVE  Owed(AtHand(r), KataWrites[r.export].issues[AtHand(r)], its2[AtHand(r)], r.plan)
    OBVIOUS
  <2>2. AtHand(r) \in Import!Issues
    BY <2>1, AtHandIs DEF Sound, Ordered
  <2>3. Owed(AtHand(r), KataWrites[r.export].issues[AtHand(r)], its[AtHand(r)], r.plan)
    BY <2>1 DEF Owing
  <2>4. QED
    BY <1>3, <2>2, <2>3, OwedGrows
<1>7. r.at = "links" => \A i \in Undeleted(r.export) :
         LinksOwed(KataWrites[r.export], its2, i, r.plan)
  <2>1. SUFFICES ASSUME r.at = "links", NEW i \in Undeleted(r.export)
                 PROVE  LinksOwed(KataWrites[r.export], its2, i, r.plan)
    OBVIOUS
  <2>2. i \in Import!Issues /\ LinksOwed(KataWrites[r.export], its, i, r.plan)
    BY <2>1 DEF Undeleted, Owing
  <2>3. \A l \in KataWrites[r.export].links : l[2] \in Import!Issues
    BY <1>2, ImportNumbers
  <2>4. QED
    BY <2>2, <2>3, LinksGrow
<1>8. QED
  BY <1>1, <1>4, <1>5, <1>6, <1>7 DEF Owing

LEMMA RepeatingStays ==
    ASSUME NEW r \in KataRuns, NEW r2, Same(r, r2), NEW its \in KataLedgers,
           NEW its2 \in KataLedgers, LedgerGrown(its, its2), Repeating(r, its)
    PROVE  Repeating(r2, its2)
<1>1. /\ r2.export = r.export /\ r2.dry = r.dry /\ r2.here = r.here /\ r2.plan = r.plan
      /\ r2.calm = r.calm /\ r2.again = r.again /\ r2.tally = r.tally
  BY SameIs
<1> SUFFICES ASSUME r.again, r.calm
             PROVE  Repeating(r2, its2)
  BY <1>1 DEF Repeating
<1>2. r.export \in DOMAIN KataWrites /\ DOMAIN r.here \subseteq Import!Issues
  BY RunParts
<1>3. ASSUME NEW i \in Undeleted(r.export)
      PROVE  Complete(KataWrites[r.export], its2, i)
  <2>1. i \in Import!Issues
    BY DEF Undeleted
  <2>2. Complete(KataWrites[r.export], its, i)
    BY DEF Repeating
  <2>3. QED
    BY <1>2, <2>1, <2>2, CompleteGrows
<1>4. \A i \in Import!Issues : its[i].is = "deleted" <=> its2[i].is = "deleted"
  BY DEF LedgerGrown, Grown
<1>5. NoneDeleted(its) <=> NoneDeleted(its2)
  BY <1>4 DEF NoneDeleted
<1>6. \A l \in KataWrites[r.export].links : l[2] \in Import!Issues
  BY <1>2, ImportNumbers
<1>7. ASSUME r.dry => NoneDeleted(its)
      PROVE  /\ r.plan = <<>> /\ OnlyAlready(r.tally)
             /\ \A i \in DOMAIN r.here : /\ its2[i].is # "deleted"
                                         /\ \A l \in KataWrites[r.export].links :
                                               l[1] = i /\ ~KataWrites[r.export].issues[l[2]].deleted
                                                  /\ its2[l[2]].is # "deleted" =>
                                               l[2] \in r.here[i].links
  <2>1. /\ r.plan = <<>> /\ OnlyAlready(r.tally)
        /\ \A i \in DOMAIN r.here : /\ its[i].is # "deleted"
                                    /\ \A l \in KataWrites[r.export].links :
                                          l[1] = i /\ ~KataWrites[r.export].issues[l[2]].deleted
                                             /\ its[l[2]].is # "deleted" =>
                                          l[2] \in r.here[i].links
    BY <1>7 DEF Repeating
  <2>2. QED
    BY <1>2, <1>4, <1>6, <2>1
<1>8. QED
  BY <1>1, <1>3, <1>5, <1>7 DEF Repeating

LEMMA ForetellingStays ==
    ASSUME NEW r \in KataRuns, NEW r2, Same(r, r2), NEW its, NEW its2,
           its2 = its \/ ~r2.alone, Foretelling(r, its)
    PROVE  Foretelling(r2, its2)
<1>1. CASE r2 = r /\ its2 = its
  BY <1>1
<1>2. CASE ~r2.alone
  BY <1>2 DEF Foretelling
<1>3. CASE r2 # r /\ its2 = its
  <2>1. ~r2.alone
    BY <1>3, SameIs
  <2>2. QED
    BY <2>1 DEF Foretelling
<1>4. QED
  BY <1>1, <1>2, <1>3

LEMMA StandsStill ==
    ASSUME NEW r \in KataRuns, NEW r2, Same(r, r2), NEW its \in KataLedgers,
           NEW its2 \in KataLedgers, LedgerGrown(its, its2), its2 = its \/ ~r2.alone,
           RunStands(r, its)
    PROVE  r2 \in KataRuns /\ RunStands(r2, its2)
<1>1. Sound(r2, its2)
  BY SoundStays DEF RunStands
<1>2. Owing(r2, its2)
  BY OwingStays DEF RunStands
<1>3. Repeating(r2, its2)
  BY RepeatingStays DEF RunStands
<1>4. Foretelling(r2, its2)
  BY ForetellingStays DEF RunStands
<1>5. r2 \in KataRuns
  BY SameIs
<1>6. QED
  BY <1>1, <1>2, <1>3, <1>4, <1>5 DEF RunStands

\* A run that is stopped owes nothing.
LEMMA StoppedStands ==
    ASSUME NEW r \in KataRuns, NEW its
    PROVE  Import!Stopped(r) \in KataRuns /\ RunStands(Import!Stopped(r), its)
<1> DEFINE c == Import!Stopped(r)
<1>1. c = [at |-> "over", export |-> r.export, dry |-> FALSE, left |-> {}, here |-> <<>>,
           plan |-> <<>>, tally |-> Import!Nothing, calm |-> FALSE, alone |-> FALSE,
           again |-> FALSE, said |-> Import!Nothing]
  <2> DEFINE n == Import!NoRun
             nothing == Import!Nothing
  <2>1. n = [at |-> "over", export |-> 1, dry |-> FALSE, left |-> {}, here |-> <<>>,
             plan |-> <<>>, tally |-> nothing, calm |-> FALSE, alone |-> FALSE,
             again |-> FALSE, said |-> nothing]
    BY DEF Import!NoRun
  <2>2. c = [n EXCEPT !.export = r.export]
    BY DEF Import!Stopped
  <2> HIDE DEF n, c, nothing
  <2>3. c = [at |-> "over", export |-> r.export, dry |-> FALSE, left |-> {}, here |-> <<>>,
             plan |-> <<>>, tally |-> nothing, calm |-> FALSE, alone |-> FALSE,
             again |-> FALSE, said |-> nothing]
    BY <2>1, <2>2
  <2>4. QED
    BY <2>3 DEF nothing
<1> HIDE DEF c
<1>2. r.export \in DOMAIN KataWrites
  BY DEF KataRuns
<1>3. Import!Nothing \in Tallies
  BY DEF Import!Nothing, Tallies
<1>4. <<>> \in UNION {[D -> KataItems] : D \in SUBSET Import!Issues}
  <2>1. <<>> \in [{} -> KataItems]
    OBVIOUS
  <2>2. QED
    BY <2>1
<1>5. c \in KataRuns
  <2> DEFINE heres == UNION {[D -> KataItems] : D \in SUBSET Import!Issues}
             plans == Seq(KataSends)
             lefts == SUBSET Import!Issues
             nothing == Import!Nothing
  <2>1. <<>> \in heres /\ <<>> \in plans /\ {} \in lefts /\ nothing \in Tallies
    BY <1>3, <1>4
  <2>2. KataRuns = [at : {"over", "issue", "read", "writes", "refused", "links"},
                    export : DOMAIN KataWrites, dry : BOOLEAN, left : lefts, here : heres,
                    plan : plans, tally : Tallies, calm : BOOLEAN, alone : BOOLEAN,
                    again : BOOLEAN, said : Tallies]
    BY DEF KataRuns
  <2>3. c = [at |-> "over", export |-> r.export, dry |-> FALSE, left |-> {}, here |-> <<>>,
             plan |-> <<>>, tally |-> nothing, calm |-> FALSE, alone |-> FALSE,
             again |-> FALSE, said |-> nothing]
    BY <1>1
  <2> HIDE DEF heres, plans, lefts, nothing
  <2>4. QED
    BY <1>2, <2>1, <2>2, <2>3
<1>6. Sound(c, its)
  BY <1>1 DEF Sound, Ordered
<1>7. Owing(c, its) /\ Repeating(c, its) /\ Foretelling(c, its)
  BY <1>1 DEF Owing, Repeating, Foretelling
<1>8. QED
  BY <1>5, <1>6, <1>7 DEF RunStands, c

-----------------------------------------------------------------------------
(* What is counted, and what is still to count.                             *)

LEMMA CommentsAreFinite == IsFiniteSet(KataComments)
<1> DEFINE P == (DOMAIN KataWrites) \X Import!Issues
           S == {KataWrites[p[1]].issues[p[2]].comments : p \in P}
           f == [p \in P |-> KataWrites[p[1]].issues[p[2]].comments]
<1>1. IsFiniteSet(DOMAIN KataWrites) /\ IsFiniteSet(Import!Issues)
  BY ImportNumbers, FS_Interval
<1>2. IsFiniteSet(P)
  BY <1>1, FS_Product
<1>3. f \in Surjection(P, S)
  BY Zenon DEF Surjection
<1>4. IsFiniteSet(S)
  BY <1>2, <1>3, FS_Surjection
<1>5. \A T \in S : IsFiniteSet(T)
  <2>1. SUFFICES ASSUME NEW p \in P
                 PROVE  IsFiniteSet(KataWrites[p[1]].issues[p[2]].comments)
    OBVIOUS
  <2>2. p[1] \in DOMAIN KataWrites /\ p[2] \in Import!Issues
    OBVIOUS
  <2>3. QED
    BY <2>2, ImportNumbers
<1>6. IsFiniteSet(UNION S)
  BY <1>4, <1>5, FS_UNION
<1>7. KataComments \subseteq UNION S
  <2>1. SUFFICES ASSUME NEW c \in KataComments
                 PROVE  \E T \in S : c \in T
    OBVIOUS
  <2>2. PICK e \in DOMAIN KataWrites, i \in Import!Issues : c \in KataWrites[e].issues[i].comments
    BY <2>1 DEF KataComments
  <2>3. <<e, i>> \in P /\ <<e, i>>[1] = e /\ <<e, i>>[2] = i
    OBVIOUS
  <2>4. KataWrites[e].issues[i].comments \in S
    BY <2>3
  <2>5. QED
    BY <2>2, <2>4
<1>8. QED
  BY <1>6, <1>7, FS_Subset

LEMMA ToCount ==
    ASSUME NEW e \in DOMAIN KataWrites, NEW its, NEW left \in SUBSET Import!Issues
    PROVE  /\ IsFiniteSet(ToFile(its, left)) /\ Cardinality(ToFile(its, left)) \in Nat
           /\ IsFiniteSet(ToFind(its, left)) /\ Cardinality(ToFind(its, left)) \in Nat
           /\ IsFiniteSet(ToComment(e, its, left)) /\ Cardinality(ToComment(e, its, left)) \in Nat
           /\ IsFiniteSet(ToClose(e, its, left)) /\ Cardinality(ToClose(e, its, left)) \in Nat
           /\ IsFiniteSet(ToLink(e, its)) /\ Cardinality(ToLink(e, its)) \in Nat
<1>1. IsFiniteSet(left)
  BY ImportNumbers, FS_Subset
<1>2. IsFiniteSet(left \X KataComments)
  BY <1>1, CommentsAreFinite, FS_Product
<1>3. /\ ToFile(its, left) \in SUBSET left /\ ToFind(its, left) \in SUBSET left
      /\ ToClose(e, its, left) \in SUBSET left
      /\ ToComment(e, its, left) \in SUBSET (left \X KataComments)
      /\ ToLink(e, its) \in SUBSET KataWrites[e].links
  BY DEF ToFile, ToFind, ToClose, ToComment, ToLink
<1>4. /\ IsFiniteSet(ToFile(its, left)) /\ IsFiniteSet(ToFind(its, left))
      /\ IsFiniteSet(ToClose(e, its, left))
  BY <1>1, <1>3, FS_Subset
<1>5. IsFiniteSet(ToComment(e, its, left))
  BY <1>2, <1>3, FS_Subset
<1>6. IsFiniteSet(ToLink(e, its))
  BY <1>3, ImportNumbers, FS_Subset
<1>7. QED
  BY <1>4, <1>5, <1>6, FS_CardinalityType

\* Of no issues there is nothing to count.
LEMMA NoneToCount ==
    ASSUME NEW e, NEW its
    PROVE  /\ Cardinality(ToFile(its, {})) = 0 /\ Cardinality(ToFind(its, {})) = 0
           /\ Cardinality(ToComment(e, its, {})) = 0 /\ Cardinality(ToClose(e, its, {})) = 0
<1>1. /\ ToFile(its, {}) = {} /\ ToFind(its, {}) = {}
      /\ ToComment(e, its, {}) = {} /\ ToClose(e, its, {}) = {}
  BY DEF ToFile, ToFind, ToComment, ToClose
<1>2. QED
  BY <1>1, FS_EmptySet

LEMMA LessOne ==
    ASSUME NEW S, IsFiniteSet(S), NEW x \in S, NEW T, T = S \ {x}
    PROVE  Cardinality(S) \in Nat /\ Cardinality(T) \in Nat /\ Cardinality(S) = 1 + Cardinality(T)
<1>1. Cardinality(T) = Cardinality(S) - 1 /\ IsFiniteSet(T)
  BY FS_RemoveElement
<1>2. Cardinality(S) \in Nat /\ Cardinality(T) \in Nat
  BY <1>1, FS_CardinalityType
<1>3. QED
  BY <1>1, <1>2

\* Of an issue that is taken off the list, its comments are.
LEMMA LessComments ==
    ASSUME NEW e \in DOMAIN KataWrites, NEW its, NEW left \in SUBSET Import!Issues, NEW i \in left
    PROVE  Cardinality(ToComment(e, its, left)) =
              Cardinality(KataWrites[e].issues[i].comments \ its[i].comments)
              + Cardinality(ToComment(e, its, left \ {i}))
<1> DEFINE S == ToComment(e, its, left)
           T == ToComment(e, its, left \ {i})
           C == KataWrites[e].issues[i].comments \ its[i].comments
           D == {p \in S : p[1] = i}
           f == [p \in D |-> p[2]]
<1>1. IsFiniteSet(S) /\ IsFiniteSet(T)
  BY ToCount
<1>2. IsFiniteSet(C) /\ C \subseteq KataComments
  <2>1. /\ IsFiniteSet(KataWrites[e].issues[i].comments)
        /\ KataWrites[e].issues[i].comments \subseteq KataComments
    BY ImportNumbers
  <2>2. QED
    BY <2>1, FS_Subset
<1>3. \A p \in S : /\ p = <<p[1], p[2]>> /\ p[1] \in left
                   /\ p[2] \in KataComments
                   /\ p[2] \in KataWrites[e].issues[p[1]].comments \ its[p[1]].comments
  BY DEF ToComment
<1>4. T = S \ D
  BY DEF ToComment
<1>5. \A t \in C : <<i, t>> \in D /\ <<i, t>>[2] = t
  BY <1>2 DEF ToComment
<1> HIDE DEF S, T
<1>6. \A p \in D : p[2] \in C /\ p = <<i, p[2]>>
  BY <1>3
<1> HIDE DEF C
<1>7. f \in [D -> C]
  BY <1>6
<1>8. \A a, b \in D : f[a] = f[b] => a = b
  BY <1>6
<1>9. \A t \in C : \E a \in D : f[a] = t
  BY <1>5
<1> HIDE DEF f
<1>10. Cardinality(D) = Cardinality(C)
  <2> HIDE DEF D
  <2>1. QED
    BY <1>2, <1>7, <1>8, <1>9, AsMany
<1>11. Cardinality(S \ D) = Cardinality(S) - Cardinality(S \cap D)
  BY <1>1, FS_Difference
<1>12. S \cap D = D
  OBVIOUS
<1>13. Cardinality(S) \in Nat /\ Cardinality(T) \in Nat /\ Cardinality(C) \in Nat
  BY <1>1, <1>2, FS_CardinalityType
<1> HIDE DEF D
<1>14. Cardinality(S) = Cardinality(C) + Cardinality(T)
  <2>1. Cardinality(T) = Cardinality(S) - Cardinality(D)
    BY <1>4, <1>11, <1>12
  <2>2. Cardinality(T) = Cardinality(S) - Cardinality(C)
    BY <1>10, <2>1
  <2>3. QED
    BY <1>13, <2>2
<1>15. QED
  BY <1>14 DEF S, T, C

LEMMA KeptGrows ==
    ASSUME NEW its \in KataLedgers, NEW its2 \in KataLedgers, LedgerGrown(its, its2),
           NEW done \in SUBSET DOMAIN KataWrites, NEW word, NEW word2, Kept(its, done, word),
           word2 = Import!NoPromise \/ (word2 = word /\ its2 = its)
    PROVE  Kept(its2, done, word2)
<1>1. ASSUME NEW e \in done, NEW i \in Undeleted(e)
      PROVE  Complete(KataWrites[e], its2, i)
  <2>1. Complete(KataWrites[e], its, i) /\ i \in Import!Issues
    BY DEF Kept, Undeleted
  <2>2. QED
    BY <2>1, CompleteGrows
<1>2. word2.export # 0 => NoTombs(word2.export, its2) /\ word2.tally = WholeOf(word2.export, its2)
  <2>1. Import!NoPromise.export = 0
    BY DEF Import!NoPromise
  <2>2. QED
    BY <2>1 DEF Kept
<1>3. QED
  BY <1>1, <1>2 DEF Kept

-----------------------------------------------------------------------------
(* The steps of a run.                                                      *)

\* An issue is filed: its item is new, and as `filed` left it.
LEMMA FilesStands ==
    ASSUME NEW r \in KataRuns, NEW its \in KataLedgers, RunStands(r, its),
           r.at = "issue", r.left # {}, ~r.dry, NEW i, i = AtHand(r), its[i].is = "none",
           NEW its2, its2 = [its EXCEPT ![i] = Import!Filed],
           NEW r2, r2 = [r EXCEPT !.at = "read", !.tally.filed = r.tally.filed + 1]
    PROVE  /\ r2 \in KataRuns /\ its2 \in KataLedgers /\ LedgerGrown(its, its2)
           /\ RunStands(r2, its2)
<1> DEFINE t2 == [r.tally EXCEPT !.filed = r.tally.filed + 1]
           e == r.export
<1>1. i \in r.left /\ i \in Import!Issues
  BY AtHandIs
<1>2. its[i] = Import!Unfiled
  BY <1>1 DEF KataLedgers
<1>3. /\ its2 \in [Import!Issues -> KataItems] /\ its2[i] = Import!Filed
      /\ \A j \in Import!Issues : j # i => its2[j] = its[j]
  BY <1>1, FiledIs DEF KataLedgers
<1>4. its2 \in KataLedgers
  <2>1. \A j \in Import!Issues : its2[j].is = "none" => its2[j] = Import!Unfiled
    BY <1>3, FiledIs DEF KataLedgers
  <2>2. QED
    BY <1>3, <2>1 DEF KataLedgers
<1>5. LedgerGrown(its, its2)
  <2>1. SUFFICES ASSUME NEW j \in Import!Issues
                 PROVE  Grown(its[j], its2[j])
    BY DEF LedgerGrown
  <2>2. CASE j = i
    BY <1>2, <1>3, <2>2, FiledIs
  <2>3. CASE j # i
    BY <1>3, <2>3, GrownSelf
  <2>4. QED
    BY <2>2, <2>3
<1>6. /\ e \in DOMAIN KataWrites /\ r.left \subseteq Import!Issues /\ DOMAIN r.here \subseteq Import!Issues
      /\ r.tally \in Tallies /\ r.said \in Tallies
  BY RunParts
<1>7. t2 \in Tallies /\ t2.filed = r.tally.filed + 1 /\ t2.already = r.tally.already
      /\ t2.comments = r.tally.comments /\ t2.closed = r.tally.closed /\ t2.links = r.tally.links
  BY <1>6 DEF Tallies
<1>8. r2 = [r EXCEPT !.at = "read", !.tally = t2]
  BY DEF KataRuns
<1> HIDE DEF t2
<1>9. /\ r2 \in KataRuns /\ r2.at = "read" /\ r2.tally = t2
      /\ r2.export = r.export /\ r2.dry = r.dry /\ r2.left = r.left /\ r2.here = r.here
      /\ r2.plan = r.plan /\ r2.calm = r.calm /\ r2.alone = r.alone /\ r2.again = r.again
      /\ r2.said = r.said
  BY <1>7, <1>8 DEF KataRuns
<1>10. AtHand(r2) = i
  BY <1>9 DEF AtHand
<1>11. Same(r, r)
  BY DEF Same
<1>12. Sound(r, its2) /\ Owing(r, its2) /\ Repeating(r, its2)
  BY <1>4, <1>5, <1>11, SoundStays, OwingStays, RepeatingStays DEF RunStands
<1>13. r.plan = <<>>
  BY <1>12 DEF Sound, Ordered
<1>14. Sound(r2, its2)
  BY <1>3, <1>9, <1>10, <1>12, FiledIs DEF Sound, Ordered
<1>15. Owing(r2, its2)
  BY <1>9, <1>10, <1>12 DEF Owing
<1>16. Repeating(r2, its2)
  <2>1. r.again /\ r.calm => FALSE
    <3>1. SUFFICES ASSUME r.again, r.calm
                   PROVE  FALSE
      OBVIOUS
    <3>2. i \in Undeleted(e)
      BY <1>1, <1>12 DEF Sound, Ordered
    <3>3. There(i, KataWrites[e].issues[i], its[i])
      BY <3>1, <3>2 DEF RunStands, Repeating, Complete
    <3>4. QED
      BY <3>3 DEF There, Owed
  <2>2. QED
    BY <1>9, <2>1 DEF Repeating
<1>17. Foretelling(r2, its2)
  <2>1. SUFFICES ASSUME r.alone, r.said # Import!Nothing
                 PROVE  Promised(r2, its2)
    BY <1>9 DEF Foretelling
  <2>2. /\ NoTombs(e, its) /\ ComesTo(r, its, r.said)
        /\ r.said.links = r.tally.links + Cardinality(ToLink(e, its))
        /\ \A j \in DOMAIN r.here : r.here[j].links = its[j].links
    BY <2>1 DEF RunStands, Foretelling, Promised
  <2>3. \A j \in Import!Issues : /\ its2[j].links = its[j].links
                                 /\ its2[j].comments = its[j].comments
    BY <1>2, <1>3, FiledIs
  <2>4. NoTombs(e, its2)
    BY <1>3, <2>2, FiledIs DEF NoTombs, Undeleted
  <2>5. ToFile(its2, r.left) = ToFile(its, r.left) \ {i} /\ i \in ToFile(its, r.left)
    BY <1>1, <1>3, <1>6, FiledIs DEF ToFile
  <2>6. ToFind(its2, r.left \ {i}) = ToFind(its, r.left)
    BY <1>1, <1>3, <1>6 DEF ToFind
  <2>7. ToComment(e, its2, r.left) = ToComment(e, its, r.left)
    BY <1>6, <2>3 DEF ToComment
  <2>8. ToClose(e, its2, r.left) = ToClose(e, its, r.left)
    BY <1>1, <1>3, <1>6, FiledIs DEF ToClose
  <2>9. ToLink(e, its2) = ToLink(e, its)
    BY <2>3 DEF ToLink, Undeleted
  <2>10. Ahead(r) = r.left /\ Ahead(r2) = r.left \ {i}
    BY <1>9, <1>10 DEF Ahead
  <2>11. IsFiniteSet(ToFile(its, r.left))
    BY <1>6, ToCount
  <2>12. /\ Cardinality(ToFile(its, r.left)) \in Nat /\ Cardinality(ToFile(its2, r.left)) \in Nat
         /\ Cardinality(ToFile(its, r.left)) = 1 + Cardinality(ToFile(its2, r.left))
    <3> DEFINE S == ToFile(its, r.left)
               T == ToFile(its2, r.left)
    <3>1. IsFiniteSet(S) /\ i \in S /\ T = S \ {i}
      BY <2>5, <2>11
    <3> HIDE DEF S, T
    <3>2. Cardinality(S) \in Nat /\ Cardinality(T) \in Nat /\ Cardinality(S) = 1 + Cardinality(T)
      BY <3>1, LessOne
    <3>3. QED
      BY <3>2 DEF S, T
  <2>13. r.said.filed = t2.filed + Cardinality(ToFile(its2, r.left))
    <3>1. r.said.filed = r.tally.filed + Cardinality(ToFile(its, r.left))
      BY <2>2 DEF ComesTo
    <3>2. r.tally.filed \in Nat
      BY <1>6 DEF Tallies
    <3>3. QED
      BY <1>7, <2>12, <3>1, <3>2
  <2>14. ComesTo(r2, its2, r.said)
    <3>1. /\ r.said.already = r.tally.already + Cardinality(ToFind(its, r.left))
          /\ r.said.comments = r.tally.comments + Cardinality(ToComment(e, its, r.left))
          /\ r.said.closed = r.tally.closed + Cardinality(ToClose(e, its, r.left))
      BY <2>2, <2>10 DEF ComesTo
    <3>2. /\ r.said.already = t2.already + Cardinality(ToFind(its2, r.left \ {i}))
          /\ r.said.comments = t2.comments + Cardinality(ToComment(e, its2, r.left))
          /\ r.said.closed = t2.closed + Cardinality(ToClose(e, its2, r.left))
      BY <1>7, <2>6, <2>7, <2>8, <3>1
    <3>3. QED
      BY <1>9, <2>10, <2>13, <3>2 DEF ComesTo
  <2>15. \A j \in DOMAIN r.here : r.here[j].links = its2[j].links
    BY <1>6, <2>2, <2>3
  <2>16. QED
    BY <1>7, <1>9, <1>13, <2>2, <2>4, <2>9, <2>14, <2>15 DEF Promised, PlanLacks
<1>18. QED
  BY <1>4, <1>5, <1>9, <1>14, <1>15, <1>16, <1>17 DEF RunStands

\* The key is taken: by an item, which is read next, or by a tombstone, which is left alone.
LEMMA FindsStands ==
    ASSUME NEW r \in KataRuns, NEW its \in KataLedgers, RunStands(r, its),
           r.at = "issue", r.left # {}, ~r.dry, NEW i, i = AtHand(r),
           its[i].is # "none", its[i].is # "deleted",
           NEW r2, r2 = [r EXCEPT !.at = "read", !.tally.already = r.tally.already + 1]
    PROVE  r2 \in KataRuns /\ RunStands(r2, its)
<1> DEFINE t2 == [r.tally EXCEPT !.already = r.tally.already + 1]
           e == r.export
<1>1. i \in r.left /\ i \in Import!Issues /\ its[i] \in KataItems
  BY AtHandIs DEF KataLedgers
<1>6. /\ e \in DOMAIN KataWrites /\ r.left \subseteq Import!Issues
      /\ r.tally \in Tallies /\ r.said \in Tallies
  BY RunParts
<1>7. t2 \in Tallies /\ t2.filed = r.tally.filed /\ t2.already = r.tally.already + 1
      /\ t2.comments = r.tally.comments /\ t2.closed = r.tally.closed /\ t2.links = r.tally.links
  BY <1>6 DEF Tallies
<1>8. r2 = [r EXCEPT !.at = "read", !.tally = t2]
  BY DEF KataRuns
<1> HIDE DEF t2
<1>9. /\ r2 \in KataRuns /\ r2.at = "read" /\ r2.tally = t2
      /\ r2.export = r.export /\ r2.dry = r.dry /\ r2.left = r.left /\ r2.here = r.here
      /\ r2.plan = r.plan /\ r2.calm = r.calm /\ r2.alone = r.alone /\ r2.again = r.again
      /\ r2.said = r.said
  BY <1>7, <1>8 DEF KataRuns
<1>10. AtHand(r2) = i
  BY <1>9 DEF AtHand
<1>12. Sound(r, its) /\ Owing(r, its) /\ Repeating(r, its)
  BY DEF RunStands
<1>13. r.plan = <<>>
  BY <1>12 DEF Sound, Ordered
<1>14. Sound(r2, its)
  BY <1>9, <1>10, <1>12 DEF Sound, Ordered
<1>15. Owing(r2, its)
  BY <1>9, <1>10, <1>12 DEF Owing
<1>16. Repeating(r2, its)
  <2>1. OnlyAlready(r.tally) => OnlyAlready(t2)
    <3> DEFINE n == Import!Nothing
    <3>1. n = [filed |-> 0, already |-> 0, comments |-> 0, closed |-> 0, links |-> 0]
      BY DEF Import!Nothing
    <3> HIDE DEF n
    <3>2. SUFFICES ASSUME r.tally = [n EXCEPT !.already = r.tally.already]
                   PROVE  t2 = [n EXCEPT !.already = t2.already]
      BY DEF OnlyAlready, n
    <3>3. /\ r.tally.filed = 0 /\ r.tally.comments = 0 /\ r.tally.closed = 0 /\ r.tally.links = 0
      BY <3>1, <3>2
    <3>4. t2 = [filed |-> 0, already |-> t2.already, comments |-> 0, closed |-> 0, links |-> 0]
      BY <1>7, <3>3 DEF Tallies
    <3>5. QED
      BY <3>1, <3>4
  <2>2. QED
    BY <1>9, <1>12, <2>1 DEF Repeating
<1>17. Foretelling(r2, its)
  <2>1. SUFFICES ASSUME r.alone, r.said # Import!Nothing
                 PROVE  Promised(r2, its)
    BY <1>9 DEF Foretelling
  <2>2. /\ NoTombs(e, its) /\ ComesTo(r, its, r.said)
        /\ r.said.links = r.tally.links + Cardinality(ToLink(e, its))
        /\ \A j \in DOMAIN r.here : r.here[j].links = its[j].links
    BY <2>1 DEF RunStands, Foretelling, Promised
  <2>6. ToFind(its, r.left \ {i}) = ToFind(its, r.left) \ {i} /\ i \in ToFind(its, r.left)
    BY <1>1 DEF ToFind, KataItems
  <2>10. Ahead(r) = r.left /\ Ahead(r2) = r.left \ {i}
    BY <1>9, <1>10 DEF Ahead
  <2>11. IsFiniteSet(ToFind(its, r.left))
    BY <1>6, ToCount
  <2>12. /\ Cardinality(ToFind(its, r.left)) \in Nat /\ Cardinality(ToFind(its, r.left \ {i})) \in Nat
         /\ Cardinality(ToFind(its, r.left)) = 1 + Cardinality(ToFind(its, r.left \ {i}))
    <3> DEFINE S == ToFind(its, r.left)
               T == ToFind(its, r.left \ {i})
    <3>1. IsFiniteSet(S) /\ i \in S /\ T = S \ {i}
      BY <2>6, <2>11
    <3> HIDE DEF S, T
    <3>2. Cardinality(S) \in Nat /\ Cardinality(T) \in Nat /\ Cardinality(S) = 1 + Cardinality(T)
      BY <3>1, LessOne
    <3>3. QED
      BY <3>2 DEF S, T
  <2>13. r.said.already = t2.already + Cardinality(ToFind(its, r.left \ {i}))
    <3>1. r.said.already = r.tally.already + Cardinality(ToFind(its, r.left))
      BY <2>2, <2>10 DEF ComesTo
    <3>2. r.tally.already \in Nat
      BY <1>6 DEF Tallies
    <3>3. QED
      BY <1>7, <2>12, <3>1, <3>2
  <2>14. ComesTo(r2, its, r.said)
    BY <1>7, <1>9, <2>2, <2>10, <2>13 DEF ComesTo
  <2>16. QED
    BY <1>7, <1>9, <1>13, <2>2, <2>14 DEF Promised, PlanLacks
<1>18. QED
  BY <1>9, <1>14, <1>15, <1>16, <1>17 DEF RunStands

LEMMA LeavesStands ==
    ASSUME NEW r \in KataRuns, NEW its \in KataLedgers, RunStands(r, its),
           r.at = "issue", r.left # {}, ~r.dry, NEW i, i = AtHand(r), its[i].is = "deleted",
           NEW r2, r2 = [r EXCEPT !.left = r.left \ {i}]
    PROVE  r2 \in KataRuns /\ RunStands(r2, its)
<1> DEFINE e == r.export
<1>1. i \in r.left /\ i \in Import!Issues
  BY AtHandIs
<1>9. /\ r2 \in KataRuns /\ r2.at = "issue" /\ r2.tally = r.tally
      /\ r2.export = r.export /\ r2.dry = r.dry /\ r2.left = r.left \ {i} /\ r2.here = r.here
      /\ r2.plan = r.plan /\ r2.calm = r.calm /\ r2.alone = r.alone /\ r2.again = r.again
      /\ r2.said = r.said
  BY DEF KataRuns
<1>12. Sound(r, its) /\ Owing(r, its) /\ Repeating(r, its)
  BY DEF RunStands
<1>13. r.plan = <<>> /\ i \in Undeleted(e)
  BY <1>1, <1>12 DEF Sound, Ordered
<1>14. Sound(r2, its)
  BY <1>9, <1>12 DEF Sound, Ordered
<1>15. Owing(r2, its)
  <2>1. There(i, KataWrites[e].issues[i], its[i])
    BY DEF There, Owed
  <2>2. QED
    BY <1>9, <1>12, <2>1 DEF Owing
<1>16. Repeating(r2, its)
  BY <1>9, <1>12 DEF Repeating
<1>17. Foretelling(r2, its)
  <2>1. r.alone /\ r.said # Import!Nothing => NoTombs(e, its)
    BY DEF RunStands, Foretelling, Promised
  <2>2. ~NoTombs(e, its)
    BY <1>13 DEF NoTombs
  <2>3. QED
    BY <1>9, <2>1, <2>2 DEF Foretelling
<1>18. QED
  BY <1>9, <1>14, <1>15, <1>16, <1>17 DEF RunStands

\* An issue with nothing left to send is done, one way or another.
LEMMA DoneStands ==
    ASSUME NEW r \in KataRuns, NEW its \in KataLedgers, r.at = "writes", ~r.dry,
           Ordered(r, its), Owing(r, its), Repeating(r, its), Foretelling(r, its),
           NEW i, i = AtHand(r), its[i].is # "none", NEW r2, r2 = Import!Done(r, i)
    PROVE  r2 \in KataRuns /\ RunStands(r2, its)
<1> DEFINE e == r.export
           s == KataWrites[e].issues[i]
<1>1. i \in r.left /\ i \in Import!Issues /\ its[i] \in KataItems
  BY AtHandIs DEF KataLedgers, Ordered
<1>2. e \in DOMAIN KataWrites /\ r.left \subseteq Import!Issues
  BY RunParts
<1>3. CASE r.plan # <<>>
  <2>1. r2 = r
    BY <1>3 DEF Import!Done
  <2>2. QED
    BY <1>3, <2>1 DEF RunStands, Sound
<1>4. CASE r.plan = <<>>
  <2>1. r2 = [r EXCEPT !.at = "issue", !.left = r.left \ {i}]
    BY <1>4 DEF Import!Done
  <2>2. /\ r2 \in KataRuns /\ r2.at = "issue" /\ r2.tally = r.tally
        /\ r2.export = r.export /\ r2.dry = r.dry /\ r2.left = r.left \ {i} /\ r2.here = r.here
        /\ r2.plan = <<>> /\ r2.calm = r.calm /\ r2.alone = r.alone /\ r2.again = r.again
        /\ r2.said = r.said
    <3> DEFINE left2 == r.left \ {i}
    <3>1. left2 \in SUBSET Import!Issues /\ r2 = [r EXCEPT !.at = "issue", !.left = left2]
      BY <1>2, <2>1
    <3> HIDE DEF left2
    <3>2. /\ r2 \in KataRuns /\ r2.at = "issue" /\ r2.tally = r.tally
          /\ r2.export = r.export /\ r2.dry = r.dry /\ r2.left = left2 /\ r2.here = r.here
          /\ r2.plan = r.plan /\ r2.calm = r.calm /\ r2.alone = r.alone /\ r2.again = r.again
          /\ r2.said = r.said
      BY <3>1 DEF KataRuns
    <3>3. QED
      BY <1>4, <3>2 DEF left2
  <2>3. Sound(r2, its)
    BY <1>4, <2>2 DEF Sound, Ordered
  <2>4. r.calm => There(i, s, its[i]) /\ i \in DOMAIN r.here
    BY <1>4 DEF Owing, There, Ordered
  <2>5. Owing(r2, its)
    BY <2>2, <2>4 DEF Owing
  <2>6. Repeating(r2, its)
    BY <1>4, <2>2 DEF Repeating
  <2>7. Foretelling(r2, its)
    <3>1. SUFFICES ASSUME r.alone, r.said # Import!Nothing
                   PROVE  Promised(r2, its)
      BY <2>2 DEF Foretelling
    <3>2. /\ NoTombs(e, its) /\ ComesTo(r, its, r.said)
          /\ r.said.links = r.tally.links + Cardinality(ToLink(e, its))
          /\ \A j \in DOMAIN r.here : r.here[j].links = its[j].links
      BY <3>1 DEF Foretelling, Promised
    <3>3. r.calm /\ i \in Undeleted(e)
      BY <1>1, <3>1 DEF Ordered
    <3>4. its[i].is # "deleted"
      BY <3>2, <3>3 DEF NoTombs
    <3>5. s.comments \subseteq its[i].comments /\ (s.closed => its[i].is = "closed")
      BY <2>4, <3>3, <3>4, NoneInPlan DEF There, Owed
    <3>6. ToFile(its, r.left \ {i}) = ToFile(its, r.left)
      BY DEF ToFile
    <3>7. ToComment(e, its, r.left \ {i}) = ToComment(e, its, r.left)
      BY <3>5 DEF ToComment
    <3>8. ToClose(e, its, r.left \ {i}) = ToClose(e, its, r.left)
      BY <3>5 DEF ToClose
    <3>9. Ahead(r) = r.left \ {i} /\ Ahead(r2) = r.left \ {i}
      BY <2>2 DEF Ahead
    <3>10. ComesTo(r2, its, r.said)
      BY <2>2, <3>2, <3>6, <3>7, <3>8, <3>9 DEF ComesTo
    <3>11. QED
      BY <2>2, <3>2, <3>10 DEF Promised, PlanLacks
  <2>8. QED
    BY <2>2, <2>3, <2>5, <2>6, <2>7 DEF RunStands
<1>5. QED
  BY <1>3, <1>4

\* What a run has read of an item.
LearnedFrom(h, here, i, x) ==
    /\ h \in UNION {[D -> KataItems] : D \in SUBSET Import!Issues}
    /\ DOMAIN h = DOMAIN here \cup {i} /\ h[i] = x
    /\ \A j \in DOMAIN here : j # i => h[j] = here[j]

LEMMA LearnedIs ==
    ASSUME NEW r \in KataRuns, NEW i \in Import!Issues, NEW x \in KataItems
    PROVE  LearnedFrom(Import!Learned(r.here, i, x), r.here, i, x)
<1>1. DOMAIN r.here \subseteq Import!Issues /\ \A j \in DOMAIN r.here : r.here[j] \in KataItems
  BY RunParts
<1> DEFINE D == DOMAIN r.here \cup {i}
           h == Import!Learned(r.here, i, x)
<1>2. D \in SUBSET Import!Issues
  BY <1>1
<1>3. h = [j \in D |-> IF j = i THEN x ELSE r.here[j]]
  BY DEF Import!Learned
<1>4. h \in [D -> KataItems]
  BY <1>1, <1>3
<1> HIDE DEF h
<1>5. LearnedFrom(h, r.here, i, x)
  BY <1>2, <1>3, <1>4 DEF LearnedFrom
<1>6. QED
  BY <1>5 DEF h

\* A run puts what it read of an item beside the rest, and plans what to send.
Planned(r, i, its) ==
    [r EXCEPT !.at = "writes", !.here = Import!Learned(r.here, i, its[i]),
              !.plan = Import!Plan(i, KataWrites[r.export].issues[i], its[i])]

LEMMA ReadsStands ==
    ASSUME NEW r \in KataRuns, NEW its \in KataLedgers, RunStands(r, its), r.at = "read",
           NEW i, i = AtHand(r), its[i].is # "deleted",
           NEW r1, r1 = Planned(r, i, its),
           NEW r2, r2 = Import!Done(r1, i)
    PROVE  r2 \in KataRuns /\ RunStands(r2, its)
<1> DEFINE e == r.export
           s == KataWrites[e].issues[i]
           plan == Import!Plan(i, s, its[i])
           h == Import!Learned(r.here, i, its[i])
<1>0. Sound(r, its) /\ Ordered(r, its) /\ Owing(r, its) /\ Repeating(r, its) /\ Foretelling(r, its)
  BY DEF RunStands, Sound
<1>1. i \in r.left /\ i \in Import!Issues /\ its[i] \in KataItems /\ i \in Undeleted(e)
  BY <1>0, AtHandIs DEF KataLedgers, Ordered
<1>2. e \in DOMAIN KataWrites /\ r.left \subseteq Import!Issues /\ DOMAIN r.here \subseteq Import!Issues
  BY RunParts
<1>3. ~r.dry /\ its[i].is # "none" /\ r.plan = <<>>
  BY <1>0 DEF Ordered
<1>4. /\ h \in UNION {[D -> KataItems] : D \in SUBSET Import!Issues}
      /\ DOMAIN h = DOMAIN r.here \cup {i} /\ h[i] = its[i]
      /\ \A j \in DOMAIN r.here : j # i => h[j] = r.here[j]
  <2>1. LearnedFrom(h, r.here, i, its[i])
    BY <1>1, LearnedIs
  <2> HIDE DEF h
  <2>2. QED
    BY <2>1 DEF LearnedFrom
<1>5. /\ Sent(plan, KataSends) /\ \A u : InPlan(u, plan) <=> Asks(i, s, its[i], u)
  BY <1>1, <1>2, PlanSent
<1>6. Owed(i, s, its[i], plan)
  BY <1>1, <1>2, <1>3, OwedPlan
<1>7. There(i, s, its[i]) => plan = <<>>
  BY <1>1, <1>2, NothingAsked
<1> HIDE DEF h, plan
<1>8. r1 = [r EXCEPT !.at = "writes", !.here = h, !.plan = plan]
  BY DEF h, plan, Planned
<1>9. /\ r1 \in KataRuns /\ r1.at = "writes" /\ r1.tally = r.tally
      /\ r1.export = r.export /\ r1.dry = r.dry /\ r1.left = r.left /\ r1.here = h
      /\ r1.plan = plan /\ r1.calm = r.calm /\ r1.alone = r.alone /\ r1.again = r.again
      /\ r1.said = r.said
  BY <1>4, <1>5, <1>8 DEF KataRuns, Sent
<1>10. AtHand(r1) = i
  BY <1>9 DEF AtHand
<1>11. \A n \in DOMAIN plan : Asks(i, s, its[i], plan[n])
  BY <1>5 DEF InPlan
<1>12. \A n \in DOMAIN plan : /\ plan[n].of = i /\ plan[n].do # "link"
                              /\ plan[n].do = "state" => plan[n].to # "filed"
  BY <1>11 DEF Asks
<1>13. Ordered(r1, its)
  <2>1. \A j \in DOMAIN h : its[j].is # "none" /\ h[j].links \subseteq its[j].links
    <3>1. SUFFICES ASSUME NEW j \in DOMAIN h
                   PROVE  its[j].is # "none" /\ h[j].links \subseteq its[j].links
      OBVIOUS
    <3>2. CASE j = i
      BY <1>3, <1>4, <3>2
    <3>3. CASE j # i
      BY <1>0, <1>3, <1>4, <3>3 DEF Ordered
    <3>4. QED
      BY <3>2, <3>3
  <2>2. DOMAIN h \subseteq Undeleted(e)
    BY <1>0, <1>1, <1>4 DEF Ordered
  <2>3. \A m, n \in DOMAIN plan : plan[m] = plan[n] => m = n
    BY <1>5 DEF Sent, Distinct
  <2>4. i \in DOMAIN h
    BY <1>4
  <2>5. r.left \subseteq Undeleted(e) /\ (r.alone => r.calm)
    BY <1>0 DEF Ordered
  <2>6. \A n \in DOMAIN plan : /\ its[plan[n].of].is # "none"
                               /\ plan[n].do = "state" => plan[n].to # "filed"
    BY <1>3, <1>12
  <2>7. \A n \in DOMAIN plan : plan[n].of = i /\ plan[n].do # "link"
    BY <1>12
  <2>8. /\ \A n \in DOMAIN r1.plan : r1.plan[n].of = AtHand(r1) /\ r1.plan[n].do # "link"
        /\ AtHand(r1) \in DOMAIN r1.here /\ r1.left # {}
    BY <1>1, <1>9, <1>10, <2>4, <2>7
  <2>9. \A n \in DOMAIN r1.plan : /\ its[r1.plan[n].of].is # "none"
                                  /\ r1.plan[n].do = "state" => r1.plan[n].to # "filed"
    <3>1. r1.plan = plan
      BY <1>9
    <3>2. QED
      BY <2>6, <3>1
  <2>10. \A m, n \in DOMAIN r1.plan : r1.plan[m] = r1.plan[n] => m = n
    BY <1>9, <2>3
  <2>11. /\ r1.left \subseteq Undeleted(r1.export) /\ DOMAIN r1.here \subseteq Undeleted(r1.export)
         /\ r1.alone => r1.calm
         /\ \A j \in DOMAIN r1.here : its[j].is # "none" /\ r1.here[j].links \subseteq its[j].links
    BY <1>9, <2>1, <2>2, <2>5
  <2>12. r1.at = "writes" /\ ~r1.dry
    BY <1>3, <1>9
  <2>13. QED
    BY <2>8, <2>9, <2>10, <2>11, <2>12, Zenon DEF Ordered
<1>14. Owing(r1, its)
  <2>1. r.calm => \A j \in DOMAIN h : its[j].is # "deleted"
    BY <1>0, <1>3, <1>4 DEF Owing
  <2>2. r.calm => \A j \in Undeleted(e) \ r.left :
           There(j, KataWrites[e].issues[j], its[j]) /\ (j \in DOMAIN h \/ its[j].is = "deleted")
    BY <1>0, <1>3, <1>4 DEF Owing
  <2>3. QED
    BY <1>6, <1>9, <1>10, <2>1, <2>2 DEF Owing
<1>15. Repeating(r1, its)
  <2>1. SUFFICES ASSUME r.again, r.calm
                 PROVE  Repeating(r1, its)
    BY <1>9 DEF Repeating
  <2>2. /\ \A j \in Undeleted(e) : Complete(KataWrites[e], its, j)
        /\ OnlyAlready(r.tally)
        /\ \A j \in DOMAIN r.here : /\ its[j].is # "deleted"
                                    /\ \A l \in KataWrites[e].links :
                                          l[1] = j /\ ~KataWrites[e].issues[l[2]].deleted
                                             /\ its[l[2]].is # "deleted" =>
                                          l[2] \in r.here[j].links
    BY <1>0, <1>3, <2>1 DEF Repeating
  <2>3. plan = <<>>
    BY <1>1, <1>7, <2>2 DEF Complete
  <2>4. \A l \in KataWrites[e].links :
           l[1] = i /\ ~KataWrites[e].issues[l[2]].deleted /\ its[l[2]].is # "deleted" =>
           l[2] \in h[i].links
    BY <1>1, <1>4, <2>2, NoneInPlan DEF Complete, LinksOwed
  <2>5. ASSUME NEW j \in DOMAIN h
        PROVE  /\ its[j].is # "deleted"
               /\ \A l \in KataWrites[e].links :
                     l[1] = j /\ ~KataWrites[e].issues[l[2]].deleted
                        /\ its[l[2]].is # "deleted" =>
                     l[2] \in h[j].links
    <3>1. CASE j = i
      BY <2>4, <3>1
    <3>2. CASE j # i
      BY <1>4, <2>2, <3>2
    <3>3. QED
      BY <3>1, <3>2
  <2>6. QED
    BY <1>9, <2>2, <2>3, <2>5 DEF Repeating
<1>16. Foretelling(r1, its)
  <2>1. SUFFICES ASSUME r.alone, r.said # Import!Nothing
                 PROVE  Promised(r1, its)
    BY <1>3, <1>9 DEF Foretelling
  <2>2. /\ NoTombs(e, its) /\ ComesTo(r, its, r.said)
        /\ r.said.links = r.tally.links + Cardinality(ToLink(e, its))
        /\ \A j \in DOMAIN r.here : r.here[j].links = its[j].links
    BY <1>0, <1>3, <2>1 DEF Foretelling, Promised
  <2>3. Ahead(r) = Ahead(r1)
    BY <1>9, <1>10 DEF Ahead
  <2>4. ComesTo(r1, its, r.said)
    BY <1>9, <2>2, <2>3 DEF ComesTo
  <2>5. \A j \in DOMAIN h : h[j].links = its[j].links
    BY <1>4, <2>2
  <2>6. ASSUME NEW n \in DOMAIN plan
        PROVE  Lacks(e, i, plan[n], its)
    <3> DEFINE u == plan[n]
    <3>1. Asks(i, s, its[i], u) /\ u.do # "link"
      BY <1>11, <1>12
    <3> HIDE DEF u
    <3>2. QED
      BY <3>1 DEF Asks, Lacks, u
  <2>7. PlanLacks(r1, its)
    BY <1>9, <1>10, <2>6 DEF PlanLacks
  <2>8. QED
    BY <1>9, <2>2, <2>4, <2>5, <2>7 DEF Promised
<1>17. QED
  <2>1. r1.at = "writes" /\ ~r1.dry /\ i = AtHand(r1)
    BY <1>3, <1>9, <1>10
  <2>2. QED
    BY <1>3, <1>9, <1>13, <1>14, <1>15, <1>16, <2>1, DoneStands, Zenon

LEMMA SendIs ==
    ASSUME NEW u \in KataSends
    PROVE  /\ u.do = "comment" => u = [do |-> "comment", of |-> u.of, to |-> u.to]
           /\ u.do = "link" => u = [do |-> "link", of |-> u.of, to |-> u.to]
           /\ u.do = "close" => u = [do |-> "close", of |-> u.of]
           /\ u.do = "comment" => u.to \in KataComments
           /\ u.of \in Import!Issues
BY DEF KataSends

LEMMA AddOne ==
    ASSUME NEW t \in Tallies, NEW u
    PROVE  /\ Import!Add(t, <<u>>) \in Tallies
           /\ Import!Add(t, <<u>>).filed = t.filed /\ Import!Add(t, <<u>>).already = t.already
           /\ Import!Add(t, <<u>>).comments = t.comments + (IF u.do = "comment" THEN 1 ELSE 0)
           /\ Import!Add(t, <<u>>).closed = t.closed + (IF u.do = "close" THEN 1 ELSE 0)
           /\ Import!Add(t, <<u>>).links = t.links + (IF u.do = "link" THEN 1 ELSE 0)
<1> DEFINE a == IF u.do = "comment" THEN 1 ELSE 0
           b == IF u.do = "close" THEN 1 ELSE 0
           c == IF u.do = "link" THEN 1 ELSE 0
           d == Import!Add(t, <<u>>)
<1>1. d = [t EXCEPT !.comments = t.comments + a, !.closed = t.closed + b, !.links = t.links + c]
  <2>1. /\ Import!Count(<<u>>, "comment") = a /\ Import!Count(<<u>>, "close") = b
        /\ Import!Count(<<u>>, "link") = c
    BY CountOne
  <2> HIDE DEF a, b, c
  <2>2. QED
    BY <2>1 DEF Import!Add
<1>2. a \in Nat /\ b \in Nat /\ c \in Nat
  OBVIOUS
<1> HIDE DEF a, b, c, d
<1>3. /\ d \in Tallies /\ d.filed = t.filed /\ d.already = t.already /\ d.comments = t.comments + a
      /\ d.closed = t.closed + b /\ d.links = t.links + c
  <2>1. /\ t.filed \in Nat /\ t.already \in Nat /\ t.comments \in Nat /\ t.closed \in Nat /\ t.links \in Nat
    BY DEF Tallies
  <2>2. /\ t.comments + a \in Nat /\ t.closed + b \in Nat /\ t.links + c \in Nat
    BY <1>2, <2>1
  <2> DEFINE p == t.comments + a
             q == t.closed + b
             m == t.links + c
  <2>3. p \in Nat /\ q \in Nat /\ m \in Nat /\ d = [t EXCEPT !.comments = p, !.closed = q, !.links = m]
    BY <1>1, <2>2
  <2> HIDE DEF p, q, m
  <2>4. d \in Tallies /\ d.filed = t.filed /\ d.already = t.already /\ d.comments = p
        /\ d.closed = q /\ d.links = m
    BY <2>3 DEF Tallies
  <2>5. QED
    BY <2>4 DEF p, q, m
<1>4. QED
  BY <1>3 DEF a, b, c, d

\* The next write, and what is left of the plan.
LEMMA NextWrite ==
    ASSUME NEW r \in KataRuns, NEW its, Ordered(r, its), r.plan # <<>>, NEW u, u = Head(r.plan)
    PROVE  /\ Sent(r.plan, KataSends) /\ Sent(Tail(r.plan), KataSends) /\ u \in KataSends
           /\ \E n \in DOMAIN r.plan : r.plan[n] = u
           /\ \A n \in DOMAIN Tail(r.plan) : Tail(r.plan)[n] # u
           /\ \A n \in DOMAIN Tail(r.plan) : \E m \in DOMAIN r.plan : r.plan[m] = Tail(r.plan)[n]
<1> DEFINE plan == r.plan
           t == Tail(plan)
<1>1. Sent(plan, KataSends)
  BY RunParts DEF Ordered, Sent, Distinct
<1> HIDE DEF plan
<1>2. /\ Head(plan) \in KataSends /\ Sent(t, KataSends)
      /\ \A v : InPlan(v, t) => InPlan(v, plan) /\ v # Head(plan)
      /\ InPlan(Head(plan), plan)
  BY <1>1, SentRest DEF plan
<1> HIDE DEF t
<1>3. \A n \in DOMAIN t : InPlan(t[n], t)
  BY DEF InPlan
<1>4. \A n \in DOMAIN t : t[n] # Head(plan) /\ \E m \in DOMAIN plan : plan[m] = t[n]
  BY <1>2, <1>3 DEF InPlan
<1>5. \E n \in DOMAIN plan : plan[n] = Head(plan)
  BY <1>2 DEF InPlan
<1>6. QED
  BY <1>1, <1>2, <1>4, <1>5 DEF plan, t

\* What a run has after its next write, and the item that takes it.
WroteTo(r, its, i) == Import!Written(its[i], Head(r.plan))
Wrote(r, its, i) ==
    LET u == Head(r.plan)
        there == u.do = "comment" /\ WroteTo(r, its, i) = its[i]
    IN  [r EXCEPT !.plan = Tail(@), !.tally = IF there THEN @ ELSE Import!Add(@, <<u>>)]
Put(its, i, y) == [its EXCEPT ![i] = y]

LEMMA WroteIs ==
    ASSUME NEW r, NEW its, NEW i
    PROVE  LET u == Head(r.plan)
               y == WroteTo(r, its, i)
               t2 == IF u.do = "comment" /\ y = its[i] THEN r.tally ELSE Import!Add(r.tally, <<u>>)
           IN  Wrote(r, its, i) = [r EXCEPT !.plan = Tail(r.plan), !.tally = t2]
BY DEF Wrote

LEMMA WritesStands ==
    ASSUME NEW r \in KataRuns, NEW its \in KataLedgers, RunStands(r, its), r.at = "writes",
           Import!Accepts(its[AtHand(r)], Head(r.plan))
    PROVE  /\ Head(r.plan).of = AtHand(r)
           /\ Import!Done(Wrote(r, its, AtHand(r)), AtHand(r)) \in KataRuns
           /\ Put(its, AtHand(r), WroteTo(r, its, AtHand(r))) \in KataLedgers
           /\ LedgerGrown(its, Put(its, AtHand(r), WroteTo(r, its, AtHand(r))))
           /\ RunStands(Import!Done(Wrote(r, its, AtHand(r)), AtHand(r)),
                        Put(its, AtHand(r), WroteTo(r, its, AtHand(r))))
<1> DEFINE i == AtHand(r)
           u == Head(r.plan)
           y == WroteTo(r, its, i)
           its2 == Put(its, i, y)
           t2 == IF u.do = "comment" /\ y = its[i] THEN r.tally ELSE Import!Add(r.tally, <<u>>)
           r1 == Wrote(r, its, i)
           r2 == Import!Done(r1, i)
<1>a. r1 = [r EXCEPT !.plan = Tail(r.plan), !.tally = t2]
  BY WroteIs
<1>b. /\ i = AtHand(r) /\ u = Head(r.plan) /\ Import!Accepts(its[i], u)
      /\ y = Import!Written(its[i], u) /\ its2 = [its EXCEPT ![i] = y]
      /\ t2 = (IF u.do = "comment" /\ y = its[i] THEN r.tally ELSE Import!Add(r.tally, <<u>>))
      /\ r2 = Import!Done(r1, i)
  BY DEF WroteTo, Put
<1>c. i = AtHand(r) /\ r2 = Import!Done(r1, i)
  BY <1>b
<1> HIDE DEF i, u, y, its2, t2, r1, r2
<1> DEFINE e == r.export
           s == KataWrites[e].issues[i]
           x == its[i]
           tail == Tail(r.plan)
<1>0. Sound(r, its) /\ Ordered(r, its) /\ Owing(r, its) /\ Repeating(r, its) /\ Foretelling(r, its)
  BY DEF RunStands, Sound
<1>1. i \in r.left /\ i \in Import!Issues /\ x \in KataItems /\ i \in Undeleted(e)
  BY <1>0, <1>c, AtHandIs DEF KataLedgers, Ordered
<1>2. /\ e \in DOMAIN KataWrites /\ r.left \subseteq Import!Issues /\ DOMAIN r.here \subseteq Import!Issues
      /\ r.tally \in Tallies /\ r.said \in Tallies
  BY RunParts
<1>3. ~r.dry /\ r.plan # <<>>
  BY <1>0 DEF Ordered, Sound
<1>4. /\ Sent(r.plan, KataSends) /\ Sent(tail, KataSends) /\ u \in KataSends
      /\ \E n \in DOMAIN r.plan : r.plan[n] = u
      /\ \A n \in DOMAIN tail : tail[n] # u
      /\ \A n \in DOMAIN tail : \E m \in DOMAIN r.plan : r.plan[m] = tail[n]
  BY <1>0, <1>3, <1>b, NextWrite
<1>5. \A n \in DOMAIN r.plan : /\ r.plan[n] \in KataSends
                               /\ r.plan[n].of = i /\ r.plan[n].do # "link"
                               /\ its[r.plan[n].of].is # "none"
                               /\ r.plan[n].do = "state" => r.plan[n].to # "filed"
  BY <1>0, <1>c, RunParts DEF Ordered
<1>6. u.of = i /\ u.do # "link" /\ x.is # "none" /\ (u.do = "state" => u.to # "filed")
  BY <1>4, <1>5
<1>7. \A n \in DOMAIN tail : /\ tail[n] \in KataSends /\ tail[n] # u
                             /\ tail[n].of = i /\ tail[n].do # "link"
                             /\ tail[n].do = "state" => tail[n].to # "filed"
  BY <1>4, <1>5
<1> HIDE DEF tail
<1>8. /\ y \in KataItems /\ Grown(x, y) /\ y.is # "none"
      /\ y.is # x.is => u.do = "close" /\ y.is = "closed"
      /\ u.do = "close" => y.is = "closed"
      /\ u.do # "comment" => y.comments = x.comments
      /\ u.do = "comment" => y.comments = x.comments \cup {u.to}
      /\ y.links = x.links
  BY <1>1, <1>4, <1>6, <1>b, WrittenIs
<1>9. /\ its2 \in [Import!Issues -> KataItems] /\ its2[i] = y
      /\ \A j \in Import!Issues : j # i => its2[j] = its[j]
  BY <1>1, <1>8, <1>b DEF KataLedgers
<1>10. its2 \in KataLedgers
  BY <1>8, <1>9 DEF KataLedgers
<1>11. LedgerGrown(its, its2)
  <2>1. SUFFICES ASSUME NEW j \in Import!Issues
                 PROVE  Grown(its[j], its2[j])
    BY DEF LedgerGrown
  <2>2. QED
    BY <1>8, <1>9, GrownSelf
<1>12. /\ t2 \in Tallies /\ t2.filed = r.tally.filed /\ t2.already = r.tally.already
       /\ t2.links = r.tally.links
       /\ t2.comments = r.tally.comments + (IF u.do = "comment" /\ y # x THEN 1 ELSE 0)
       /\ t2.closed = r.tally.closed + (IF u.do = "close" THEN 1 ELSE 0)
  <2> DEFINE d == Import!Add(r.tally, <<u>>)
  <2>1. /\ d \in Tallies /\ d.filed = r.tally.filed /\ d.already = r.tally.already
        /\ d.comments = r.tally.comments + (IF u.do = "comment" THEN 1 ELSE 0)
        /\ d.closed = r.tally.closed + (IF u.do = "close" THEN 1 ELSE 0)
        /\ d.links = r.tally.links + (IF u.do = "link" THEN 1 ELSE 0)
    BY <1>2, AddOne
  <2>2. t2 = IF u.do = "comment" /\ y = x THEN r.tally ELSE d
    BY <1>b
  <2> HIDE DEF d
  <2>3. /\ r.tally.comments \in Nat /\ r.tally.closed \in Nat /\ r.tally.links \in Nat
    BY <1>2 DEF Tallies
  <2>4. CASE u.do = "comment" /\ y = x
    BY <1>2, <2>2, <2>3, <2>4
  <2>5. CASE ~(u.do = "comment" /\ y = x)
    BY <1>6, <2>1, <2>2, <2>3, <2>5
  <2>6. QED
    BY <2>4, <2>5
<1>13. /\ r1 \in KataRuns /\ r1.at = "writes" /\ r1.tally = t2
       /\ r1.export = r.export /\ r1.dry = r.dry /\ r1.left = r.left /\ r1.here = r.here
       /\ r1.plan = tail /\ r1.calm = r.calm /\ r1.alone = r.alone /\ r1.again = r.again
       /\ r1.said = r.said
  <2>1. tail \in Seq(KataSends) /\ r1 = [r EXCEPT !.plan = tail, !.tally = t2]
    BY <1>4, <1>a DEF Sent, tail
  <2>2. QED
    BY <1>12, <2>1 DEF KataRuns
<1>14. AtHand(r1) = i
  BY <1>13, <1>c DEF AtHand
<1>15. Same(r, r)
  BY DEF Same
<1>16. Sound(r, its2) /\ Ordered(r, its2) /\ Owing(r, its2) /\ Repeating(r, its2)
  BY <1>0, <1>10, <1>11, <1>15, SoundStays, OwingStays, RepeatingStays DEF Sound
<1>17. Ordered(r1, its2)
  <2>1. /\ \A n \in DOMAIN r1.plan : r1.plan[n].of = AtHand(r1) /\ r1.plan[n].do # "link"
        /\ AtHand(r1) \in DOMAIN r1.here /\ r1.left # {}
    <3>1. i \in DOMAIN r.here
      BY <1>0, <1>c DEF Ordered
    <3>2. QED
      BY <1>1, <1>7, <1>13, <1>14, <3>1
  <2>2. \A n \in DOMAIN r1.plan : /\ its2[r1.plan[n].of].is # "none"
                                  /\ r1.plan[n].do = "state" => r1.plan[n].to # "filed"
    BY <1>7, <1>8, <1>9, <1>13
  <2>3. \A m, n \in DOMAIN r1.plan : r1.plan[m] = r1.plan[n] => m = n
    BY <1>4, <1>13 DEF Sent, Distinct
  <2>4. /\ r1.left \subseteq Undeleted(r1.export) /\ DOMAIN r1.here \subseteq Undeleted(r1.export)
        /\ r1.alone => r1.calm
        /\ \A j \in DOMAIN r1.here : its2[j].is # "none" /\ r1.here[j].links \subseteq its2[j].links
    BY <1>3, <1>13, <1>16 DEF Ordered
  <2>5. r1.at = "writes" /\ ~r1.dry
    BY <1>3, <1>13
  <2>6. QED
    BY <2>1, <2>2, <2>3, <2>4, <2>5 DEF Ordered
<1>18. Owing(r1, its2)
  <2>1. r.calm => Owed(i, s, y, tail)
    <3>1. r.calm => Owed(i, s, x, r.plan)
      BY <1>0, <1>3, <1>c DEF Owing
    <3>2. QED
      BY <1>1, <1>3, <1>4, <1>6, <3>1, <1>b, OwedWritten DEF tail
  <2>2. QED
    BY <1>9, <1>13, <1>14, <1>16, <2>1 DEF Owing
<1>19. Repeating(r1, its2)
  BY <1>3, <1>13, <1>16 DEF Repeating
<1>20. Foretelling(r1, its2)
  <2>1. SUFFICES ASSUME r.alone, r.said # Import!Nothing
                 PROVE  Promised(r1, its2)
    BY <1>3, <1>13 DEF Foretelling
  <2>2. /\ NoTombs(e, its) /\ ComesTo(r, its, r.said)
        /\ r.said.links = r.tally.links + Cardinality(ToLink(e, its))
        /\ \A j \in DOMAIN r.here : r.here[j].links = its[j].links
        /\ PlanLacks(r, its)
    BY <1>0, <1>3, <2>1 DEF Foretelling, Promised
  <2>3. \A n \in DOMAIN r.plan : Lacks(e, i, r.plan[n], its)
    BY <2>2, <1>c DEF PlanLacks
  <2>4. Lacks(e, i, u, its) /\ \A n \in DOMAIN tail : Lacks(e, i, tail[n], its)
    BY <1>4, <2>3
  <2>5. \A j \in Import!Issues : its2[j].links = its[j].links
    BY <1>8, <1>9
  <2>6. NoTombs(e, its2)
    BY <1>11, <2>2 DEF NoTombs, Undeleted, LedgerGrown, Grown
  <2>7. ToFile(its2, r.left) = ToFile(its, r.left)
    BY <1>2, <1>6, <1>8, <1>9 DEF ToFile
  <2>8. ToFind(its2, r.left \ {i}) = ToFind(its, r.left \ {i})
    BY <1>2, <1>9 DEF ToFind
  <2>9. ToLink(e, its2) = ToLink(e, its)
    BY <2>5 DEF ToLink, Undeleted
  <2>10. Ahead(r) = r.left \ {i} /\ Ahead(r1) = r.left \ {i}
    BY <1>13, <1>14, <1>c DEF Ahead
  <2>11. /\ r.tally.comments \in Nat /\ r.tally.closed \in Nat
    BY <1>2 DEF Tallies
  <2>12. t2.comments + Cardinality(ToComment(e, its2, r.left)) =
            r.tally.comments + Cardinality(ToComment(e, its, r.left))
    <3>1. CASE u.do # "comment"
      <4>1. ToComment(e, its2, r.left) = ToComment(e, its, r.left)
        BY <1>2, <1>8, <1>9, <3>1 DEF ToComment
      <4>2. t2.comments = r.tally.comments
        BY <1>12, <2>11, <3>1
      <4>3. QED
        BY <4>1, <4>2
    <3>2. CASE u.do = "comment"
      <4> DEFINE S == ToComment(e, its, r.left)
                 T == ToComment(e, its2, r.left)
                 p == <<i, u.to>>
      <4>1. u.to \in KataComments /\ u.to \in s.comments \ x.comments
        BY <1>4, <2>4, <3>2, SendIs DEF Lacks
      <4>2. y.comments = x.comments \cup {u.to} /\ y # x
        BY <1>8, <3>2, <4>1
      <4>3. p \in S
        BY <1>1, <4>1 DEF ToComment
      <4>4. T = S \ {p}
        <5>1. \A q \in r.left \X KataComments :
                 q[2] \in KataWrites[e].issues[q[1]].comments \ its2[q[1]].comments
                    <=> q[2] \in KataWrites[e].issues[q[1]].comments \ its[q[1]].comments /\ q # p
          <6>1. SUFFICES ASSUME NEW j \in r.left, NEW c \in KataComments
                         PROVE  c \in KataWrites[e].issues[j].comments \ its2[j].comments
                    <=> c \in KataWrites[e].issues[j].comments \ its[j].comments /\ <<j, c>> # p
            OBVIOUS
          <6>2. CASE j = i
            BY <1>9, <4>2, <6>2, <1>1
          <6>3. CASE j # i
            BY <1>2, <1>9, <6>3
          <6>4. QED
            BY <6>2, <6>3
        <5>2. QED
          BY <5>1 DEF ToComment
      <4>5. IsFiniteSet(S)
        BY <1>2, ToCount
      <4> HIDE DEF S, T, p
      <4>6. /\ Cardinality(S) \in Nat /\ Cardinality(T) \in Nat
            /\ Cardinality(S) = 1 + Cardinality(T)
        BY <4>3, <4>4, <4>5, LessOne
      <4>7. t2.comments = r.tally.comments + 1
        BY <1>12, <3>2, <4>2
      <4>8. t2.comments + Cardinality(T) = r.tally.comments + Cardinality(S)
        BY <2>11, <4>6, <4>7
      <4>9. QED
        BY <4>8 DEF S, T
    <3>3. QED
      BY <3>1, <3>2
  <2>13. t2.closed + Cardinality(ToClose(e, its2, r.left)) =
            r.tally.closed + Cardinality(ToClose(e, its, r.left))
    <3>1. CASE u.do # "close"
      <4>1. y.is = x.is
        BY <1>8, <3>1
      <4>2. ToClose(e, its2, r.left) = ToClose(e, its, r.left)
        BY <1>2, <1>9, <4>1 DEF ToClose
      <4>3. t2.closed = r.tally.closed
        BY <1>12, <2>11, <3>1
      <4>4. QED
        BY <4>2, <4>3
    <3>2. CASE u.do = "close"
      <4> DEFINE S == ToClose(e, its, r.left)
                 T == ToClose(e, its2, r.left)
      <4>1. s.closed /\ x.is = "open" /\ y.is = "closed"
        BY <1>8, <2>4, <3>2 DEF Lacks
      <4>2. i \in S /\ T = S \ {i}
        BY <1>1, <1>2, <1>9, <4>1 DEF ToClose
      <4>3. IsFiniteSet(S)
        BY <1>2, ToCount
      <4> HIDE DEF S, T
      <4>4. /\ Cardinality(S) \in Nat /\ Cardinality(T) \in Nat
            /\ Cardinality(S) = 1 + Cardinality(T)
        BY <4>2, <4>3, LessOne
      <4>5. t2.closed = r.tally.closed + 1
        BY <1>12, <3>2
      <4>6. t2.closed + Cardinality(T) = r.tally.closed + Cardinality(S)
        BY <2>11, <4>4, <4>5
      <4>7. QED
        BY <4>6 DEF S, T
    <3>3. QED
      BY <3>1, <3>2
  <2>14. ComesTo(r1, its2, r.said)
    BY <1>12, <1>13, <2>2, <2>7, <2>8, <2>10, <2>12, <2>13 DEF ComesTo
  <2>15. \A j \in DOMAIN r.here : r.here[j].links = its2[j].links
    BY <1>2, <2>2, <2>5
  <2>16. ASSUME NEW n \in DOMAIN tail
         PROVE  Lacks(e, i, tail[n], its2)
    <3> DEFINE v == tail[n]
    <3>1. v \in KataSends /\ v # u /\ v.of = i /\ v.do # "link" /\ Lacks(e, i, v, its)
      BY <1>7, <2>4
    <3> HIDE DEF v
    <3>2. v.do = "comment" => v.to \in s.comments \ y.comments
      <4>1. SUFFICES ASSUME v.do = "comment"
                     PROVE  v.to \in s.comments \ y.comments
        OBVIOUS
      <4>2. v.to \in s.comments \ x.comments /\ v = [do |-> "comment", of |-> i, to |-> v.to]
        BY <3>1, <4>1, SendIs DEF Lacks
      <4>3. u.do = "comment" => u = [do |-> "comment", of |-> i, to |-> u.to]
        BY <1>4, <1>6, SendIs
      <4>4. u.do = "comment" => u.to # v.to
        BY <3>1, <4>2, <4>3
      <4>5. QED
        BY <1>8, <4>2, <4>4
    <3>3. v.do = "close" => s.closed /\ y.is = "open"
      <4>1. SUFFICES ASSUME v.do = "close"
                     PROVE  s.closed /\ y.is = "open"
        OBVIOUS
      <4>2. s.closed /\ x.is = "open" /\ v = [do |-> "close", of |-> i]
        BY <3>1, <4>1, SendIs DEF Lacks
      <4>3. u.do = "close" => u = [do |-> "close", of |-> i]
        BY <1>4, <1>6, SendIs
      <4>4. u.do # "close"
        BY <3>1, <4>2, <4>3
      <4>5. QED
        BY <1>8, <4>2, <4>4
    <3>4. QED
      BY <1>9, <3>1, <3>2, <3>3 DEF Lacks, v
  <2>17. PlanLacks(r1, its2)
    BY <1>13, <1>14, <2>16 DEF PlanLacks
  <2>18. QED
    BY <1>12, <1>13, <2>2, <2>6, <2>9, <2>14, <2>15, <2>17 DEF Promised
<1>21. its2[i].is # "none" /\ ~r1.dry
  BY <1>3, <1>8, <1>9, <1>13
<1>22. r2 \in KataRuns /\ RunStands(r2, its2)
  BY <1>13, <1>14, <1>17, <1>18, <1>19, <1>20, <1>21, <1>10,
     <1>c, DoneStands
<1>23. QED
  BY <1>6, <1>10, <1>11, <1>22 DEF i, u, y, its2, r1, r2

LEMMA LinkStands ==
    ASSUME NEW r \in KataRuns, NEW its \in KataLedgers, RunStands(r, its), r.at = "links",
           r.plan # <<>>, Import!Accepts(its[Head(r.plan).of], Head(r.plan))
    PROVE  /\ Wrote(r, its, Head(r.plan).of) \in KataRuns
           /\ Put(its, Head(r.plan).of, WroteTo(r, its, Head(r.plan).of)) \in KataLedgers
           /\ LedgerGrown(its, Put(its, Head(r.plan).of, WroteTo(r, its, Head(r.plan).of)))
           /\ RunStands(Wrote(r, its, Head(r.plan).of),
                        Put(its, Head(r.plan).of, WroteTo(r, its, Head(r.plan).of)))
<1> DEFINE u == Head(r.plan)
           i == u.of
           y == WroteTo(r, its, i)
           its2 == Put(its, i, y)
           t2 == IF u.do = "comment" /\ y = its[i] THEN r.tally ELSE Import!Add(r.tally, <<u>>)
           r2 == Wrote(r, its, i)
<1>a. r2 = [r EXCEPT !.plan = Tail(r.plan), !.tally = t2]
  BY WroteIs
<1>b. /\ i = u.of /\ u = Head(r.plan) /\ Import!Accepts(its[i], u)
      /\ y = Import!Written(its[i], u) /\ its2 = [its EXCEPT ![i] = y]
      /\ t2 = (IF u.do = "comment" /\ y = its[i] THEN r.tally ELSE Import!Add(r.tally, <<u>>))
  BY DEF WroteTo, Put
<1> HIDE DEF i, u, y, its2, t2, r2
<1> DEFINE e == r.export
           x == its[i]
           tail == Tail(r.plan)
<1>0. Sound(r, its) /\ Ordered(r, its) /\ Owing(r, its) /\ Repeating(r, its) /\ Foretelling(r, its)
  BY DEF RunStands, Sound
<1>1. e \in DOMAIN KataWrites /\ r.tally \in Tallies /\ r.said \in Tallies
  BY RunParts
<1>2. ~r.dry /\ r.left = {}
  BY <1>0 DEF Ordered
<1>3. /\ Sent(r.plan, KataSends) /\ Sent(tail, KataSends) /\ u \in KataSends
      /\ \E n \in DOMAIN r.plan : r.plan[n] = u
      /\ \A n \in DOMAIN tail : tail[n] # u
      /\ \A n \in DOMAIN tail : \E m \in DOMAIN r.plan : r.plan[m] = tail[n]
  BY <1>0, <1>b, NextWrite
<1>4. \A n \in DOMAIN r.plan : /\ r.plan[n] \in KataSends /\ r.plan[n].do = "link"
                               /\ its[r.plan[n].of].is # "none"
                               /\ r.plan[n].of \in Import!Issues
  BY <1>0, RunParts DEF Ordered
<1>5. u.do = "link" /\ x.is # "none" /\ i \in Import!Issues
  BY <1>3, <1>4, <1>b
<1>6. \A n \in DOMAIN tail : /\ tail[n] \in KataSends /\ tail[n] # u /\ tail[n].do = "link"
                             /\ its[tail[n].of].is # "none" /\ tail[n].of \in Import!Issues
  BY <1>3, <1>4
<1>7. \A v : InPlan(v, r.plan) => v = u \/ InPlan(v, tail)
  BY <1>3, <1>b, SentRest
<1> HIDE DEF tail
<1>8. x \in KataItems
  BY <1>5 DEF KataLedgers
<1>9. /\ y \in KataItems /\ Grown(x, y) /\ y.is # "none" /\ y.is = x.is
      /\ y.comments = x.comments /\ y.links = x.links \cup {u.to}
  <2>1. /\ y \in KataItems /\ Grown(x, y) /\ y.is # "none"
        /\ y.is # x.is => u.do = "close" /\ y.is = "closed"
        /\ u.do = "close" => y.is = "closed"
        /\ u.do # "comment" => y.comments = x.comments
        /\ u.do = "link" => y.links = x.links \cup {u.to}
    <3>1. u \in KataSends /\ x.is # "none" /\ (u.do = "state" => u.to # "filed")
      BY <1>3, <1>5
    <3>2. Import!Accepts(x, u) /\ y = Import!Written(x, u)
      BY <1>b
    <3> HIDE DEF x
    <3>3. QED
      BY <1>8, <3>1, <3>2, WrittenIs
  <2>2. QED
    BY <1>5, <2>1
<1>10. /\ its2 \in [Import!Issues -> KataItems] /\ its2[i] = y
       /\ \A j \in Import!Issues : j # i => its2[j] = its[j]
  BY <1>5, <1>9, <1>b DEF KataLedgers
<1>11. its2 \in KataLedgers
  BY <1>9, <1>10 DEF KataLedgers
<1>12. LedgerGrown(its, its2)
  <2>1. SUFFICES ASSUME NEW j \in Import!Issues
                 PROVE  Grown(its[j], its2[j])
    BY DEF LedgerGrown
  <2>2. QED
    BY <1>9, <1>10, GrownSelf
<1>13. /\ t2 \in Tallies /\ t2.filed = r.tally.filed /\ t2.already = r.tally.already
       /\ t2.links = r.tally.links + 1
       /\ t2.comments = r.tally.comments /\ t2.closed = r.tally.closed
  <2> DEFINE d == Import!Add(r.tally, <<u>>)
  <2>1. /\ d \in Tallies /\ d.filed = r.tally.filed /\ d.already = r.tally.already
        /\ d.comments = r.tally.comments + (IF u.do = "comment" THEN 1 ELSE 0)
        /\ d.closed = r.tally.closed + (IF u.do = "close" THEN 1 ELSE 0)
        /\ d.links = r.tally.links + (IF u.do = "link" THEN 1 ELSE 0)
    BY <1>1, AddOne
  <2>2. t2 = d
    BY <1>5, <1>b
  <2> HIDE DEF d
  <2>3. /\ r.tally.comments \in Nat /\ r.tally.closed \in Nat /\ r.tally.links \in Nat
    BY <1>1 DEF Tallies
  <2>4. QED
    BY <1>5, <2>1, <2>2, <2>3
<1>14. /\ r2 \in KataRuns /\ r2.at = "links" /\ r2.tally = t2
       /\ r2.export = r.export /\ r2.dry = r.dry /\ r2.left = {} /\ r2.here = r.here
       /\ r2.plan = tail /\ r2.calm = r.calm /\ r2.alone = r.alone /\ r2.again = r.again
       /\ r2.said = r.said
  <2>1. tail \in Seq(KataSends) /\ r2 = [r EXCEPT !.plan = tail, !.tally = t2]
    BY <1>3, <1>a DEF Sent, tail
  <2>2. QED
    BY <1>2, <1>13, <2>1 DEF KataRuns
<1>15. Same(r, r)
  BY DEF Same
<1>16. Sound(r, its2) /\ Ordered(r, its2) /\ Owing(r, its2) /\ Repeating(r, its2)
  BY <1>0, <1>11, <1>12, <1>15, SoundStays, OwingStays, RepeatingStays DEF Sound
<1>17. Sound(r2, its2)
  <2>1. \A n \in DOMAIN r2.plan : r2.plan[n].do = "link" /\ its2[r2.plan[n].of].is # "none"
    BY <1>6, <1>9, <1>10, <1>14
  <2>2. \A m, n \in DOMAIN r2.plan : r2.plan[m] = r2.plan[n] => m = n
    BY <1>3, <1>14 DEF Sent, Distinct
  <2>3. /\ r2.left \subseteq Undeleted(r2.export) /\ DOMAIN r2.here \subseteq Undeleted(r2.export)
        /\ r2.alone => r2.calm
        /\ \A j \in DOMAIN r2.here : its2[j].is # "none" /\ r2.here[j].links \subseteq its2[j].links
    BY <1>2, <1>14, <1>16 DEF Ordered
  <2>4. r2.at = "links" /\ ~r2.dry /\ r2.left = {}
    BY <1>2, <1>14
  <2>5. QED
    BY <2>1, <2>2, <2>3, <2>4 DEF Sound, Ordered
<1>18. Owing(r2, its2)
  <2>1. ASSUME r.calm, NEW j \in Undeleted(e)
        PROVE  LinksOwed(KataWrites[e], its2, j, tail)
    <3>1. LinksOwed(KataWrites[e], its2, j, r.plan)
      BY <1>2, <1>16, <2>1 DEF Owing
    <3>2. j \in Import!Issues
      BY DEF Undeleted
    <3>3. SUFFICES ASSUME its2[j].is # "deleted", NEW l \in KataWrites[e].links,
                          l[1] = j, ~KataWrites[e].issues[l[2]].deleted, its2[l[2]].is # "deleted"
                   PROVE  l[2] \in its2[j].links \/ InPlan([do |-> "link", of |-> j, to |-> l[2]], tail)
      BY DEF LinksOwed
    <3>4. l[2] \in its2[j].links \/ InPlan([do |-> "link", of |-> j, to |-> l[2]], r.plan)
      BY <3>1, <3>3 DEF LinksOwed
    <3>5. CASE [do |-> "link", of |-> j, to |-> l[2]] = u
      <4>1. u.of = j /\ u.to = l[2]
        BY <3>5
      <4>2. QED
        BY <1>9, <1>10, <1>b, <4>1
    <3>6. CASE [do |-> "link", of |-> j, to |-> l[2]] # u
      BY <1>7, <3>4, <3>6
    <3>7. QED
      BY <3>5, <3>6
  <2>2. QED
    BY <1>2, <1>14, <1>16, <2>1 DEF Owing
<1>19. Repeating(r2, its2)
  BY <1>2, <1>14, <1>16 DEF Repeating
<1>20. Foretelling(r2, its2)
  <2>1. SUFFICES ASSUME r.alone, r.said # Import!Nothing
                 PROVE  Promised(r2, its2)
    BY <1>2, <1>14 DEF Foretelling
  <2>2. /\ NoTombs(e, its) /\ ComesTo(r, its, r.said)
        /\ r.said.links = r.tally.links + Cardinality(ToLink(e, its))
        /\ PlanLacks(r, its)
    BY <1>0, <1>2, <2>1 DEF Foretelling, Promised
  <2>3. \A n \in DOMAIN r.plan : Lacks(e, AtHand(r), r.plan[n], its)
    BY <2>2 DEF PlanLacks
  <2>4. Lacks(e, AtHand(r), u, its) /\ \A n \in DOMAIN tail : Lacks(e, AtHand(r), tail[n], its)
    BY <1>3, <2>3
  <2>5. NoTombs(e, its2)
    BY <1>12, <2>2 DEF NoTombs, Undeleted, LedgerGrown, Grown
  <2>6. /\ ToFile(its, {}) = {} /\ ToFile(its2, {}) = {} /\ ToFind(its, {}) = {} /\ ToFind(its2, {}) = {}
        /\ ToComment(e, its, {}) = {} /\ ToComment(e, its2, {}) = {}
        /\ ToClose(e, its, {}) = {} /\ ToClose(e, its2, {}) = {}
    BY DEF ToFile, ToFind, ToComment, ToClose
  <2>7. Ahead(r) = {} /\ Ahead(r2) = {}
    BY <1>2, <1>14 DEF Ahead
  <2>8. ComesTo(r2, its2, r.said)
    <3>1. /\ r.said.filed = r.tally.filed + Cardinality({})
          /\ r.said.already = r.tally.already + Cardinality({})
          /\ r.said.comments = r.tally.comments + Cardinality({})
          /\ r.said.closed = r.tally.closed + Cardinality({})
      BY <1>2, <2>2, <2>6, <2>7 DEF ComesTo
    <3>2. /\ r.said.filed = t2.filed + Cardinality({})
          /\ r.said.already = t2.already + Cardinality({})
          /\ r.said.comments = t2.comments + Cardinality({})
          /\ r.said.closed = t2.closed + Cardinality({})
      BY <1>13, <3>1
    <3>3. QED
      BY <1>14, <2>6, <2>7, <3>2 DEF ComesTo
  <2>9. r.said.links = t2.links + Cardinality(ToLink(e, its2))
    <3> DEFINE S == ToLink(e, its)
               T == ToLink(e, its2)
               p == <<i, u.to>>
    <3>1. /\ p \in KataWrites[e].links /\ i \in Undeleted(e) /\ u.to \in Undeleted(e)
          /\ u.to \notin x.links
      BY <1>5, <1>b, <2>4 DEF Lacks
    <3>2. p \in S
      BY <3>1 DEF ToLink
    <3>3. T = S \ {p}
      <4>1. KataWrites[e].links \subseteq Import!Issues \X Import!Issues
        BY <1>1, ImportNumbers
      <4>2. ASSUME NEW l \in KataWrites[e].links
            PROVE  l[2] \notin its2[l[1]].links <=> l[2] \notin its[l[1]].links /\ l # p
        <5>1. l[1] \in Import!Issues /\ l = <<l[1], l[2]>>
          BY <4>1
        <5>2. CASE l[1] = i
          <6>1. its2[l[1]].links = x.links \cup {u.to} /\ its[l[1]].links = x.links
            BY <1>9, <1>10, <5>2
          <6>2. l = p <=> l[2] = u.to
            BY <5>1, <5>2
          <6>3. QED
            BY <6>1, <6>2
        <5>3. CASE l[1] # i
          <6>1. its2[l[1]] = its[l[1]] /\ l # p
            BY <1>10, <5>1, <5>3
          <6>2. QED
            BY <6>1
        <5>4. QED
          BY <5>2, <5>3
      <4> HIDE DEF p
      <4>3. QED
        BY <4>2 DEF ToLink
    <3>4. IsFiniteSet(S)
      BY <1>1, ToCount
    <3> HIDE DEF S, T, p
    <3>5. /\ Cardinality(S) \in Nat /\ Cardinality(T) \in Nat
          /\ Cardinality(S) = 1 + Cardinality(T)
      BY <3>2, <3>3, <3>4, LessOne
    <3>6. r.tally.links \in Nat
      BY <1>1 DEF Tallies
    <3>7. r.said.links = r.tally.links + Cardinality(S)
      BY <2>2 DEF S
    <3>8. r.said.links = t2.links + Cardinality(T)
      BY <1>13, <3>5, <3>6, <3>7
    <3>9. QED
      BY <3>8 DEF T
  <2>10. ASSUME NEW n \in DOMAIN tail
         PROVE  Lacks(e, AtHand(r2), tail[n], its2)
    <3> DEFINE v == tail[n]
    <3>1. /\ v \in KataSends /\ v # u /\ v.do = "link" /\ v.of \in Import!Issues
          /\ Lacks(e, AtHand(r), v, its)
      BY <1>6, <2>4
    <3> HIDE DEF v
    <3>2. v = [do |-> "link", of |-> v.of, to |-> v.to] /\ u = [do |-> "link", of |-> u.of, to |-> u.to]
      BY <1>3, <1>5, <3>1, SendIs
    <3>3. ~(v.of = i /\ v.to = u.to)
      BY <3>1, <3>2, <1>b
    <3>4. v.to \notin its2[v.of].links
      <4>1. v.to \notin its[v.of].links
        BY <3>1 DEF Lacks
      <4>2. CASE v.of = i
        BY <1>9, <1>10, <3>3, <4>1, <4>2
      <4>3. CASE v.of # i
        BY <1>10, <3>1, <4>1, <4>3
      <4>4. QED
        BY <4>2, <4>3
    <3>5. QED
      BY <3>1, <3>4 DEF Lacks, v
  <2>11. PlanLacks(r2, its2)
    BY <1>14, <2>10 DEF PlanLacks
  <2>12. QED
    BY <1>13, <1>14, <2>5, <2>8, <2>9, <2>11 DEF Promised
<1>21. QED
  BY <1>11, <1>12, <1>14, <1>17, <1>18, <1>19, <1>20 DEF RunStands, u, i, y, its2, r2

\* A state that was refused.
LEMMA RefusedStands ==
    ASSUME NEW r \in KataRuns, NEW its \in KataLedgers, RunStands(r, its), r.at = "writes",
           Head(r.plan).do = "state", NEW r2, r2 = [r EXCEPT !.at = "refused"]
    PROVE  r2 \in KataRuns /\ RunStands(r2, its)
<1>0. Sound(r, its) /\ Ordered(r, its) /\ Owing(r, its) /\ Repeating(r, its) /\ Foretelling(r, its)
  BY DEF RunStands, Sound
<1>1. /\ r2 \in KataRuns /\ r2.at = "refused" /\ r2.tally = r.tally
      /\ r2.export = r.export /\ r2.dry = r.dry /\ r2.left = r.left /\ r2.here = r.here
      /\ r2.plan = r.plan /\ r2.calm = r.calm /\ r2.alone = r.alone /\ r2.again = r.again
      /\ r2.said = r.said
  BY DEF KataRuns
<1>2. ~r.dry /\ AtHand(r2) = AtHand(r)
  BY <1>0, <1>1 DEF Ordered, AtHand
<1>3. Sound(r2, its)
  BY <1>0, <1>1, <1>2 DEF Sound, Ordered
<1>4. Owing(r2, its)
  BY <1>0, <1>1, <1>2 DEF Owing
<1>5. Repeating(r2, its)
  BY <1>0, <1>1, <1>2 DEF Repeating
<1>6. Foretelling(r2, its)
  <2>1. SUFFICES ASSUME r.alone, r.said # Import!Nothing
                 PROVE  Promised(r2, its)
    BY <1>1, <1>2 DEF Foretelling
  <2>2. Promised(r, its)
    BY <1>0, <1>2, <2>1 DEF Foretelling
  <2>3. Ahead(r2) = Ahead(r)
    BY <1>1, <1>2 DEF Ahead
  <2>4. ComesTo(r2, its, r.said)
    BY <1>1, <2>2, <2>3 DEF ComesTo, Promised
  <2>5. PlanLacks(r2, its)
    BY <1>1, <1>2, <2>2 DEF PlanLacks, Promised
  <2>6. QED
    BY <1>1, <2>2, <2>4, <2>5 DEF Promised
<1>7. QED
  BY <1>1, <1>3, <1>4, <1>5, <1>6 DEF RunStands

\* A run leaves out the first of its plan.
Skipped(r) == [r EXCEPT !.at = "writes", !.plan = Tail(r.plan)]

LEMMA RereadStands ==
    ASSUME NEW r \in KataRuns, NEW its \in KataLedgers, RunStands(r, its), r.at = "refused",
           NEW u, u = Head(r.plan), NEW i, i = u.of, its[i].is # "deleted", its[i].state = u.to,
           NEW r1, r1 = Skipped(r),
           NEW r2, r2 = Import!Done(r1, i)
    PROVE  r2 \in KataRuns /\ RunStands(r2, its)
<1> DEFINE e == r.export
           tail == Tail(r.plan)
<1>0. Sound(r, its) /\ Ordered(r, its) /\ Owing(r, its) /\ Repeating(r, its) /\ Foretelling(r, its)
  BY DEF RunStands, Sound
<1>1. r.plan # <<>> /\ u.do = "state" /\ ~r.dry
  BY <1>0 DEF Sound, Ordered
<1>2. /\ Sent(r.plan, KataSends) /\ Sent(tail, KataSends)
      /\ \E n \in DOMAIN r.plan : r.plan[n] = u
      /\ \A n \in DOMAIN tail : \E m \in DOMAIN r.plan : r.plan[m] = tail[n]
  BY <1>0, <1>1, NextWrite
<1>a. tail = Tail(r.plan)
  OBVIOUS
<1> HIDE DEF tail
<1>3. \A n \in DOMAIN r.plan : /\ r.plan[n].of = AtHand(r) /\ r.plan[n].do # "link"
                               /\ its[r.plan[n].of].is # "none"
                               /\ r.plan[n].do = "state" => r.plan[n].to # "filed"
  BY <1>0 DEF Ordered
<1>4. i = AtHand(r) /\ its[i].is # "none" /\ its[i].state # "filed"
  BY <1>1, <1>2, <1>3
<1>5. \A n \in DOMAIN tail : /\ tail[n].of = i /\ tail[n].do # "link"
                             /\ its[tail[n].of].is # "none"
                             /\ tail[n].do = "state" => tail[n].to # "filed"
  BY <1>2, <1>3, <1>4
<1>6. i \in r.left /\ i \in Import!Issues /\ its[i] \in KataItems
  BY <1>0, <1>4, AtHandIs DEF KataLedgers, Ordered
<1>7. r.calm => Owed(i, KataWrites[e].issues[i], its[i], tail)
  <2>1. r.calm => Owed(i, KataWrites[e].issues[i], its[i], r.plan)
    BY <1>0, <1>1, <1>4 DEF Owing
  <2>2. QED
    BY <1>1, <1>2, <1>4, <1>6, <1>a, <2>1, OwedThere, Zenon
<1>8. /\ r1 \in KataRuns /\ r1.at = "writes" /\ r1.tally = r.tally
      /\ r1.export = r.export /\ r1.dry = r.dry /\ r1.left = r.left /\ r1.here = r.here
      /\ r1.plan = tail /\ r1.calm = r.calm /\ r1.alone = r.alone /\ r1.again = r.again
      /\ r1.said = r.said
  <2>1. tail \in Seq(KataSends) /\ r1 = [r EXCEPT !.at = "writes", !.plan = tail]
    BY <1>2 DEF Sent, Skipped, tail
  <2>2. QED
    BY <2>1 DEF KataRuns
<1>9. AtHand(r1) = i
  BY <1>4, <1>8 DEF AtHand
<1>10. Ordered(r1, its)
  <2>1. /\ \A n \in DOMAIN r1.plan : r1.plan[n].of = AtHand(r1) /\ r1.plan[n].do # "link"
        /\ AtHand(r1) \in DOMAIN r1.here /\ r1.left # {}
    <3>1. i \in DOMAIN r.here
      BY <1>0, <1>4 DEF Ordered
    <3>2. QED
      BY <1>5, <1>6, <1>8, <1>9, <3>1
  <2>2. \A n \in DOMAIN r1.plan : /\ its[r1.plan[n].of].is # "none"
                                  /\ r1.plan[n].do = "state" => r1.plan[n].to # "filed"
    BY <1>5, <1>8
  <2>3. \A m, n \in DOMAIN r1.plan : r1.plan[m] = r1.plan[n] => m = n
    BY <1>2, <1>8 DEF Sent, Distinct
  <2>4. /\ r1.left \subseteq Undeleted(r1.export) /\ DOMAIN r1.here \subseteq Undeleted(r1.export)
        /\ r1.alone => r1.calm
        /\ \A j \in DOMAIN r1.here : its[j].is # "none" /\ r1.here[j].links \subseteq its[j].links
    BY <1>0, <1>1, <1>8 DEF Ordered
  <2>5. r1.at = "writes" /\ ~r1.dry
    BY <1>1, <1>8
  <2>6. QED
    BY <2>1, <2>2, <2>3, <2>4, <2>5 DEF Ordered
<1>11. Owing(r1, its)
  BY <1>0, <1>7, <1>8, <1>9 DEF Owing
<1>12. Repeating(r1, its)
  BY <1>0, <1>1, <1>8 DEF Repeating
<1>13. Foretelling(r1, its)
  <2>1. SUFFICES ASSUME r.alone, r.said # Import!Nothing
                 PROVE  Promised(r1, its)
    BY <1>1, <1>8 DEF Foretelling
  <2>2. Promised(r, its)
    BY <1>0, <1>1, <2>1 DEF Foretelling
  <2>3. Ahead(r1) = Ahead(r)
    BY <1>4, <1>8, <1>9 DEF Ahead
  <2>4. ComesTo(r1, its, r.said)
    BY <1>8, <2>2, <2>3 DEF ComesTo, Promised
  <2>5. PlanLacks(r1, its)
    BY <1>2, <1>4, <1>8, <1>9, <2>2 DEF PlanLacks, Promised
  <2>6. QED
    BY <1>8, <2>2, <2>4, <2>5 DEF Promised
<1>14. r1.at = "writes" /\ ~r1.dry /\ i = AtHand(r1)
  BY <1>1, <1>8, <1>9
<1>15. QED
  BY <1>4, <1>8, <1>10, <1>11, <1>12, <1>13, <1>14, DoneStands

LEMMA AddMany ==
    ASSUME NEW t \in Tallies, NEW plan, NEW a \in Nat, NEW b \in Nat, NEW c \in Nat,
           Import!Count(plan, "comment") = a, Import!Count(plan, "close") = b,
           Import!Count(plan, "link") = c, NEW d, d = Import!Add(t, plan)
    PROVE  /\ d \in Tallies /\ d.filed = t.filed /\ d.already = t.already
           /\ d.comments = t.comments + a /\ d.closed = t.closed + b /\ d.links = t.links + c
<1>1. /\ t.filed \in Nat /\ t.already \in Nat /\ t.comments \in Nat /\ t.closed \in Nat /\ t.links \in Nat
  BY DEF Tallies
<1>2. /\ t.comments + a \in Nat /\ t.closed + b \in Nat /\ t.links + c \in Nat
  BY <1>1
<1> DEFINE p == t.comments + a
           q == t.closed + b
           m == t.links + c
<1>3. p \in Nat /\ q \in Nat /\ m \in Nat /\ d = [t EXCEPT !.comments = p, !.closed = q, !.links = m]
  BY <1>2 DEF Import!Add
<1> HIDE DEF p, q, m
<1>4. d \in Tallies /\ d.filed = t.filed /\ d.already = t.already /\ d.comments = p
      /\ d.closed = q /\ d.links = m
  BY <1>3 DEF Tallies
<1>5. QED
  BY <1>4 DEF p, q, m

\* The second pass has what the first one read.
LEMMA PassesStands ==
    ASSUME NEW r \in KataRuns, NEW its \in KataLedgers, RunStands(r, its), r.at = "issue",
           r.left = {}, ~r.dry, NEW plan, plan = Import!Links(KataWrites[r.export], r.here),
           NEW r2, r2 = [r EXCEPT !.at = "links", !.plan = plan]
    PROVE  r2 \in KataRuns /\ RunStands(r2, its)
<1> DEFINE e == r.export
<1>0. Sound(r, its) /\ Ordered(r, its) /\ Owing(r, its) /\ Repeating(r, its) /\ Foretelling(r, its)
  BY DEF RunStands, Sound
<1>1. e \in DOMAIN KataWrites
  BY RunParts
<1>2. KataWrites[e].links \subseteq Import!Issues \X Import!Issues
  BY <1>1, ImportNumbers
<1>3. Sent(plan, KataSends) /\ \A u : InPlan(u, plan) <=> AsksLink(e, r.here, u)
  BY <1>1, LinksSent
<1>4. \A n \in DOMAIN plan : AsksLink(e, r.here, plan[n])
  BY <1>3 DEF InPlan
<1>5. /\ r2 \in KataRuns /\ r2.at = "links" /\ r2.tally = r.tally
      /\ r2.export = r.export /\ r2.dry = r.dry /\ r2.left = {} /\ r2.here = r.here
      /\ r2.plan = plan /\ r2.calm = r.calm /\ r2.alone = r.alone /\ r2.again = r.again
      /\ r2.said = r.said
  BY <1>3 DEF KataRuns, Sent
<1>6. Sound(r2, its)
  <2>1. \A n \in DOMAIN plan : plan[n].do = "link" /\ plan[n].of \in DOMAIN r.here
    <3>1. SUFFICES ASSUME NEW n \in DOMAIN plan
                   PROVE  plan[n].do = "link" /\ plan[n].of \in DOMAIN r.here
      OBVIOUS
    <3> DEFINE u == plan[n]
    <3>2. AsksLink(e, r.here, u)
      BY <1>4
    <3> HIDE DEF u
    <3>3. u.do = "link" /\ u.of \in DOMAIN r.here
      BY <3>2 DEF AsksLink
    <3>4. QED
      BY <3>3 DEF u
  <2>2. \A n \in DOMAIN r2.plan : r2.plan[n].do = "link" /\ its[r2.plan[n].of].is # "none"
    BY <1>0, <1>5, <2>1 DEF Ordered
  <2>3. \A m, n \in DOMAIN r2.plan : r2.plan[m] = r2.plan[n] => m = n
    BY <1>3, <1>5 DEF Sent, Distinct
  <2>4. /\ r2.left \subseteq Undeleted(r2.export) /\ DOMAIN r2.here \subseteq Undeleted(r2.export)
        /\ r2.alone => r2.calm
        /\ \A j \in DOMAIN r2.here : its[j].is # "none" /\ r2.here[j].links \subseteq its[j].links
    BY <1>0, <1>5 DEF Ordered
  <2>5. r2.at = "links" /\ ~r2.dry /\ r2.left = {}
    BY <1>5
  <2>6. QED
    BY <2>2, <2>3, <2>4, <2>5 DEF Sound, Ordered
<1>7. Owing(r2, its)
  <2>1. ASSUME r.calm, NEW i \in Undeleted(e)
        PROVE  LinksOwed(KataWrites[e], its, i, plan)
    <3>1. SUFFICES ASSUME its[i].is # "deleted", NEW l \in KataWrites[e].links,
                          l[1] = i, ~KataWrites[e].issues[l[2]].deleted, its[l[2]].is # "deleted"
                   PROVE  l[2] \in its[i].links \/ InPlan([do |-> "link", of |-> i, to |-> l[2]], plan)
      BY DEF LinksOwed
    <3>2. l[2] \in Undeleted(e)
      BY <1>2, <3>1 DEF Undeleted
    <3>3. \A j \in Undeleted(e) : j \in DOMAIN r.here \/ its[j].is = "deleted"
      BY <1>0, <2>1 DEF Owing
    <3>4. i \in DOMAIN r.here /\ l[2] \in DOMAIN r.here
      BY <2>1, <3>1, <3>2, <3>3
    <3>5. CASE l[2] \in r.here[i].links
      BY <1>0, <3>4, <3>5 DEF Ordered
    <3>6. CASE l[2] \notin r.here[i].links
      <4>1. AsksLink(e, r.here, [do |-> "link", of |-> i, to |-> l[2]])
        BY <3>1, <3>4, <3>6 DEF AsksLink
      <4>2. QED
        BY <1>3, <4>1
    <3>7. QED
      BY <3>5, <3>6
  <2>2. r.calm => \A i \in Undeleted(e) : There(i, KataWrites[e].issues[i], its[i])
                                          /\ (i \in DOMAIN r.here \/ its[i].is = "deleted")
    BY <1>0 DEF Owing
  <2>3. r.calm => \A i \in DOMAIN r.here : its[i].is # "deleted"
    BY <1>0 DEF Owing
  <2>4. QED
    BY <1>5, <2>1, <2>2, <2>3 DEF Owing
<1>8. Repeating(r2, its)
  <2>1. SUFFICES ASSUME r.again, r.calm
                 PROVE  Repeating(r2, its)
    BY <1>5 DEF Repeating
  <2>2. /\ \A j \in Undeleted(e) : Complete(KataWrites[e], its, j)
        /\ OnlyAlready(r.tally)
        /\ \A j \in DOMAIN r.here : /\ its[j].is # "deleted"
                                    /\ \A l \in KataWrites[e].links :
                                          l[1] = j /\ ~KataWrites[e].issues[l[2]].deleted
                                             /\ its[l[2]].is # "deleted" =>
                                          l[2] \in r.here[j].links
    BY <1>0, <2>1 DEF Repeating
  <2>3. ASSUME NEW u
        PROVE  ~AsksLink(e, r.here, u)
    <3>1. SUFFICES ASSUME NEW l \in KataWrites[e].links, l[1] \in DOMAIN r.here, l[2] \in DOMAIN r.here,
                          l[2] \notin r.here[l[1]].links
                   PROVE  FALSE
      BY DEF AsksLink
    <3>2. ~KataWrites[e].issues[l[2]].deleted
      BY <1>0, <3>1 DEF Ordered, Undeleted
    <3>3. QED
      BY <2>2, <3>1, <3>2
  <2>4. ~InPlan(Head(plan), plan)
    BY <1>3, <2>3
  <2>5. plan = <<>>
    BY <1>3, <2>4, SentRest
  <2>6. QED
    BY <1>5, <2>2, <2>5 DEF Repeating
<1>9. Foretelling(r2, its)
  <2>1. SUFFICES ASSUME r.alone, r.said # Import!Nothing
                 PROVE  Promised(r2, its)
    BY <1>5 DEF Foretelling
  <2>2. /\ NoTombs(e, its) /\ ComesTo(r, its, r.said)
        /\ r.said.links = r.tally.links + Cardinality(ToLink(e, its))
        /\ \A j \in DOMAIN r.here : r.here[j].links = its[j].links
    BY <1>0, <2>1 DEF Foretelling, Promised
  <2>3. Ahead(r2) = {} /\ Ahead(r) = {}
    BY <1>5 DEF Ahead
  <2>4. ComesTo(r2, its, r.said)
    BY <1>5, <2>2, <2>3 DEF ComesTo
  <2>5. ASSUME NEW n \in DOMAIN plan
        PROVE  Lacks(e, AtHand(r2), plan[n], its)
    <3> DEFINE u == plan[n]
    <3>1. AsksLink(e, r.here, u)
      BY <1>4
    <3> HIDE DEF u
    <3>2. PICK l \in KataWrites[e].links :
             /\ l[1] \in DOMAIN r.here /\ l[2] \in DOMAIN r.here /\ l[2] \notin r.here[l[1]].links
             /\ u = [do |-> "link", of |-> l[1], to |-> l[2]]
      BY <3>1 DEF AsksLink
    <3>3. u.do = "link" /\ u.of = l[1] /\ u.to = l[2] /\ <<u.of, u.to>> = l
      BY <1>2, <3>2
    <3>4. u.of \in Undeleted(e) /\ u.to \in Undeleted(e) /\ u.to \notin its[u.of].links
      BY <1>0, <2>2, <3>2, <3>3 DEF Ordered
    <3>5. QED
      BY <3>3, <3>4 DEF Lacks, u
  <2>6. PlanLacks(r2, its)
    BY <1>5, <2>5 DEF PlanLacks
  <2>7. QED
    BY <1>5, <2>2, <2>4, <2>6 DEF Promised
<1>10. QED
  BY <1>5, <1>6, <1>7, <1>8, <1>9 DEF RunStands

LEMMA CountsStands ==
    ASSUME NEW r \in KataRuns, NEW its \in KataLedgers, RunStands(r, its), r.at = "issue",
           r.left = {}, r.dry,
           NEW r2, r2 = [r EXCEPT !.at = "links", !.plan = <<>>,
                          !.tally = Import!Add(r.tally, Import!Links(KataWrites[r.export], r.here))]
    PROVE  r2 \in KataRuns /\ RunStands(r2, its)
<1> DEFINE e == r.export
           plan == Import!Links(KataWrites[e], r.here)
           L == {k \in KataWrites[e].links : /\ k[1] \in DOMAIN r.here /\ k[2] \in DOMAIN r.here
                                             /\ k[2] \notin r.here[k[1]].links}
           t == Import!Add(r.tally, plan)
<1>0. Sound(r, its) /\ Ordered(r, its) /\ Owing(r, its) /\ Repeating(r, its) /\ Foretelling(r, its)
  BY DEF RunStands, Sound
<1>1. e \in DOMAIN KataWrites /\ r.tally \in Tallies
  BY RunParts
<1>2. KataWrites[e].links \subseteq Import!Issues \X Import!Issues /\ IsFiniteSet(KataWrites[e].links)
  BY <1>1, ImportNumbers
<1>3. IsFiniteSet(L)
  BY <1>2, FS_Subset
<1>4. Cardinality(L) \in Nat
  BY <1>3, FS_CardinalityType
<1>5. /\ Import!Count(plan, "link") = Cardinality(L)
      /\ Import!Count(plan, "comment") = 0 /\ Import!Count(plan, "close") = 0
  BY <1>1, CountLinks
<1>6. r2 = [r EXCEPT !.at = "links", !.plan = <<>>, !.tally = t]
  OBVIOUS
<1> HIDE DEF plan
<1>7. t = Import!Add(r.tally, plan)
  OBVIOUS
<1> HIDE DEF t
<1>8. LET c == Cardinality(L) IN
      /\ t \in Tallies /\ t.filed = r.tally.filed /\ t.already = r.tally.already
      /\ t.comments = r.tally.comments + 0 /\ t.closed = r.tally.closed + 0
      /\ t.links = r.tally.links + c
  <2> DEFINE c == Cardinality(L)
  <2>1. /\ 0 \in Nat /\ c \in Nat /\ Import!Count(plan, "comment") = 0
        /\ Import!Count(plan, "close") = 0 /\ Import!Count(plan, "link") = c
    BY <1>4, <1>5
  <2> HIDE DEF c, L
  <2>2. /\ t \in Tallies /\ t.filed = r.tally.filed /\ t.already = r.tally.already
        /\ t.comments = r.tally.comments + 0 /\ t.closed = r.tally.closed + 0
        /\ t.links = r.tally.links + c
    BY <1>1, <1>7, <2>1, AddMany
  <2>3. QED
    BY <2>2 DEF c
<1>9. /\ t \in Tallies /\ t.filed = r.tally.filed /\ t.already = r.tally.already
      /\ t.comments = r.tally.comments /\ t.closed = r.tally.closed
      /\ t.links = r.tally.links + Cardinality(L)
  BY <1>1, <1>8 DEF Tallies
<1>10. /\ r2 \in KataRuns /\ r2.at = "links" /\ r2.tally = t
       /\ r2.export = r.export /\ r2.dry /\ r2.left = {} /\ r2.here = r.here
       /\ r2.plan = <<>> /\ r2.calm = r.calm /\ r2.alone = r.alone /\ r2.again = r.again
       /\ r2.said = r.said
  <2>1. <<>> \in Seq(KataSends)
    OBVIOUS
  <2>2. QED
    BY <1>6, <1>9, <2>1 DEF KataRuns
<1>11. Sound(r2, its)
  BY <1>0, <1>10 DEF Sound, Ordered
<1>12. Owing(r2, its)
  BY <1>10 DEF Owing
<1>13. Repeating(r2, its)
  <2>1. SUFFICES ASSUME r.again, r.calm
                 PROVE  Repeating(r2, its)
    BY <1>10 DEF Repeating
  <2>2. /\ \A j \in Undeleted(e) : Complete(KataWrites[e], its, j)
        /\ NoneDeleted(its) =>
             /\ OnlyAlready(r.tally)
             /\ \A j \in DOMAIN r.here : /\ its[j].is # "deleted"
                                         /\ \A l \in KataWrites[e].links :
                                               l[1] = j /\ ~KataWrites[e].issues[l[2]].deleted
                                                  /\ its[l[2]].is # "deleted" =>
                                               l[2] \in r.here[j].links
    BY <1>0, <2>1 DEF Repeating
  <2>3. NoneDeleted(its) => OnlyAlready(t)
    <3>1. SUFFICES ASSUME NoneDeleted(its)
                   PROVE  OnlyAlready(t)
      OBVIOUS
    <3>2. ASSUME NEW l \in L
          PROVE  FALSE
      <4>1. /\ l \in KataWrites[e].links /\ l[1] \in DOMAIN r.here /\ l[2] \in DOMAIN r.here
            /\ l[2] \notin r.here[l[1]].links
        OBVIOUS
      <4>2. ~KataWrites[e].issues[l[2]].deleted /\ l[2] \in Import!Issues
        BY <1>0, <4>1 DEF Ordered, Undeleted
      <4>3. its[l[2]].is # "deleted"
        BY <3>1, <4>2 DEF NoneDeleted
      <4>4. QED
        BY <2>2, <3>1, <4>1, <4>2, <4>3
    <3>3. L = {}
      <4> HIDE DEF L
      <4>1. QED
        BY <3>2
    <3>4. Cardinality(L) = 0
      BY <3>3, FS_EmptySet
    <3> HIDE DEF L
    <3>5. OnlyAlready(r.tally)
      BY <2>2, <3>1
    <3>6. /\ r.tally.filed = 0 /\ r.tally.comments = 0 /\ r.tally.closed = 0 /\ r.tally.links = 0
      BY <3>5 DEF OnlyAlready, Import!Nothing
    <3>7. t.filed = 0 /\ t.comments = 0 /\ t.closed = 0 /\ t.links = 0
      BY <1>9, <3>4, <3>6
    <3>8. QED
      BY <1>9, <3>7 DEF OnlyAlready, Import!Nothing, Tallies
  <2>4. QED
    BY <1>10, <2>2, <2>3 DEF Repeating
<1>14. Foretelling(r2, its)
  <2>1. SUFFICES ASSUME r.alone, NoTombs(e, its)
                 PROVE  Counting(r2, its)
    BY <1>10 DEF Foretelling
  <2>2. /\ Undeleted(e) \ r.left \subseteq DOMAIN r.here
        /\ \A i \in DOMAIN r.here : r.here[i].links = its[i].links
        /\ r.tally.links = 0
        /\ ComesTo(r, its, WholeOf(e, its))
    BY <1>0, <2>1 DEF Foretelling, Counting
  <2>3. DOMAIN r.here = Undeleted(e)
    BY <1>0, <2>2 DEF Ordered
  <2>4. L = ToLink(e, its)
    BY <2>2, <2>3 DEF ToLink
  <2> HIDE DEF L
  <2>5. t.links = Cardinality(ToLink(e, its))
    BY <1>4, <1>9, <2>2, <2>4
  <2>6. Ahead(r2) = {} /\ Ahead(r) = {}
    BY <1>10 DEF Ahead
  <2> DEFINE W == WholeOf(e, its)
  <2>7. ComesTo(r, its, W)
    BY <2>2
  <2> HIDE DEF W
  <2>8. ComesTo(r2, its, W)
    BY <1>9, <1>10, <2>6, <2>7 DEF ComesTo
  <2>9. QED
    BY <1>10, <2>2, <2>5, <2>8 DEF Counting, W
<1>15. QED
  BY <1>10, <1>11, <1>12, <1>13, <1>14 DEF RunStands

Tallied(d, t, a, b, c) ==
    /\ d \in Tallies /\ d.filed = t.filed /\ d.already = t.already
    /\ d.comments = t.comments + a /\ d.closed = t.closed + b /\ d.links = t.links + c

LEMMA AddsUp ==
    ASSUME NEW t \in Tallies, NEW plan, NEW a \in Nat, NEW b \in Nat, NEW c \in Nat,
           Import!Count(plan, "comment") = a, Import!Count(plan, "close") = b,
           Import!Count(plan, "link") = c
    PROVE  Tallied(Import!Add(t, plan), t, a, b, c)
<1> DEFINE d == Import!Add(t, plan)
<1>1. d = Import!Add(t, plan)
  OBVIOUS
<1> HIDE DEF d
<1>2. /\ d \in Tallies /\ d.filed = t.filed /\ d.already = t.already
      /\ d.comments = t.comments + a /\ d.closed = t.closed + b /\ d.links = t.links + c
  BY <1>1, AddMany
<1>3. QED
  BY <1>2 DEF Tallied, d

\* A dry run looks at the next issue, and counts what it would send.
Looked(r, its) ==
    LET i == AtHand(r)
        there == its[i].is \in {"open", "closed"}
        x == IF there THEN its[i] ELSE Import!WouldFile
        plan == Import!Plan(i, KataWrites[r.export].issues[i], IF there THEN x ELSE Import!Filed)
        tally == IF there THEN [r.tally EXCEPT !.already = @ + 1]
                          ELSE [r.tally EXCEPT !.filed = @ + 1]
    IN  [r EXCEPT !.left = @ \ {i}, !.here = Import!Learned(@, i, x),
                  !.tally = Import!Add(tally, plan)]

LEMMA LooksStands ==
    ASSUME NEW r \in KataRuns, NEW its \in KataLedgers, RunStands(r, its), r.at = "issue",
           r.left # {}, r.dry
    PROVE  Looked(r, its) \in KataRuns /\ RunStands(Looked(r, its), its)
<1> DEFINE i == AtHand(r)
           there == its[i].is \in {"open", "closed"}
           x == IF there THEN its[i] ELSE Import!WouldFile
           z == IF there THEN x ELSE Import!Filed
           plan == Import!Plan(i, KataWrites[r.export].issues[i], z)
           t1 == IF there THEN [r.tally EXCEPT !.already = @ + 1]
                          ELSE [r.tally EXCEPT !.filed = @ + 1]
           r2 == Looked(r, its)
<1>a. r2 = [r EXCEPT !.left = r.left \ {i}, !.here = Import!Learned(r.here, i, x),
                     !.tally = Import!Add(t1, plan)]
  BY DEF Looked
<1>b. /\ i = AtHand(r) /\ there \in BOOLEAN /\ (there <=> its[i].is \in {"open", "closed"})
      /\ x = (IF there THEN its[i] ELSE Import!WouldFile)
      /\ z = (IF there THEN its[i] ELSE Import!Filed)
      /\ plan = Import!Plan(i, KataWrites[r.export].issues[i], z)
      /\ t1 = (IF there THEN [r.tally EXCEPT !.already = r.tally.already + 1]
                        ELSE [r.tally EXCEPT !.filed = r.tally.filed + 1])
  OBVIOUS
<1> HIDE DEF i, there, x, z, plan, t1, r2
<1>c. /\ there \in BOOLEAN /\ (there <=> its[i].is \in {"open", "closed"})
      /\ x = (IF there THEN its[i] ELSE Import!WouldFile)
      /\ z = (IF there THEN its[i] ELSE Import!Filed)
  BY <1>b
<1> DEFINE e == r.export
           s == KataWrites[e].issues[i]
           h == Import!Learned(r.here, i, x)
           t == Import!Add(t1, plan)
           left2 == r.left \ {i}
           a == Cardinality(s.comments \ z.comments)
           b == IF s.closed /\ z.is = "open" THEN 1 ELSE 0
<1>0. Sound(r, its) /\ Ordered(r, its) /\ Owing(r, its) /\ Repeating(r, its) /\ Foretelling(r, its)
  BY DEF RunStands, Sound
<1>1. i \in r.left /\ i \in Import!Issues /\ its[i] \in KataItems /\ i \in Undeleted(e)
  BY <1>0, <1>b, AtHandIs DEF KataLedgers, Ordered
<1>2. /\ e \in DOMAIN KataWrites /\ r.left \subseteq Import!Issues /\ DOMAIN r.here \subseteq Import!Issues
      /\ r.tally \in Tallies
  BY RunParts
<1>3. /\ r.tally.filed \in Nat /\ r.tally.already \in Nat /\ r.tally.comments \in Nat
      /\ r.tally.closed \in Nat /\ r.tally.links \in Nat
  BY <1>2 DEF Tallies
<1>4. x \in KataItems /\ z \in KataItems
  BY <1>1, <1>c, FiledIs DEF Import!WouldFile
<1>5. /\ h \in UNION {[D -> KataItems] : D \in SUBSET Import!Issues}
      /\ DOMAIN h = DOMAIN r.here \cup {i} /\ h[i] = x
      /\ \A j \in DOMAIN r.here : j # i => h[j] = r.here[j]
  <2>1. LearnedFrom(h, r.here, i, x)
    BY <1>1, <1>4, LearnedIs
  <2> HIDE DEF h
  <2>2. QED
    BY <2>1 DEF LearnedFrom
<1>6. /\ Import!Count(plan, "comment") = a /\ Import!Count(plan, "close") = b
      /\ Import!Count(plan, "link") = 0
  BY <1>1, <1>2, <1>4, <1>b, CountComments, CountCloses
<1>7. a \in Nat /\ b \in Nat /\ IsFiniteSet(s.comments \ z.comments)
  <2>1. IsFiniteSet(s.comments)
    BY <1>1, <1>2, ImportNumbers
  <2>2. IsFiniteSet(s.comments \ z.comments)
    BY <2>1, FS_Subset
  <2>3. QED
    BY <2>2, FS_CardinalityType
<1>8. /\ t1 \in Tallies /\ t1.comments = r.tally.comments /\ t1.closed = r.tally.closed
      /\ t1.links = r.tally.links
      /\ t1.filed = r.tally.filed + (IF there THEN 0 ELSE 1)
      /\ t1.already = r.tally.already + (IF there THEN 1 ELSE 0)
  <2>1. CASE there
    <3> DEFINE n == r.tally.already + 1
    <3>1. n \in Nat /\ t1 = [r.tally EXCEPT !.already = n]
      BY <1>3, <1>b, <2>1
    <3> HIDE DEF n
    <3>2. /\ t1 \in Tallies /\ t1.comments = r.tally.comments /\ t1.closed = r.tally.closed
          /\ t1.links = r.tally.links /\ t1.filed = r.tally.filed /\ t1.already = n
      BY <1>2, <3>1 DEF Tallies
    <3>3. r.tally.filed + 0 = r.tally.filed
      BY <1>3
    <3>4. QED
      BY <2>1, <3>2, <3>3 DEF n
  <2>2. CASE ~there
    <3> DEFINE n == r.tally.filed + 1
    <3>1. n \in Nat /\ t1 = [r.tally EXCEPT !.filed = n]
      BY <1>3, <1>b, <2>2
    <3> HIDE DEF n
    <3>2. /\ t1 \in Tallies /\ t1.comments = r.tally.comments /\ t1.closed = r.tally.closed
          /\ t1.links = r.tally.links /\ t1.filed = n /\ t1.already = r.tally.already
      BY <1>2, <3>1 DEF Tallies
    <3>3. r.tally.already + 0 = r.tally.already
      BY <1>3
    <3>4. QED
      BY <2>2, <3>2, <3>3 DEF n
  <2>3. QED
    BY <2>1, <2>2
<1>9. r2 = [r EXCEPT !.left = left2, !.here = h, !.tally = t]
  BY <1>a
<1> HIDE DEF h, a, b
<1>10. /\ t \in Tallies /\ t.filed = t1.filed /\ t.already = t1.already
       /\ t.comments = t1.comments + a /\ t.closed = t1.closed + b /\ t.links = t1.links + 0
  <2>1. Tallied(t, t1, a, b, 0)
    BY <1>6, <1>7, <1>8, AddsUp
  <2> HIDE DEF t
  <2>2. QED
    BY <2>1 DEF Tallied
<1>11. t.links = r.tally.links /\ left2 \in SUBSET Import!Issues
  BY <1>2, <1>3, <1>8, <1>10
<1> HIDE DEF t, left2
<1>12. /\ r2 \in KataRuns /\ r2.at = "issue" /\ r2.tally = t
       /\ r2.export = r.export /\ r2.dry /\ r2.left = left2 /\ r2.here = h
       /\ r2.plan = r.plan /\ r2.calm = r.calm /\ r2.alone = r.alone /\ r2.again = r.again
       /\ r2.said = r.said
  BY <1>5, <1>9, <1>10, <1>11 DEF KataRuns
<1>13. Sound(r2, its)
  <2>1. left2 \subseteq Undeleted(e) /\ DOMAIN h \subseteq Undeleted(e)
    BY <1>0, <1>1, <1>5 DEF Ordered, left2
  <2>2. r2.plan = <<>>
    BY <1>0, <1>12 DEF Ordered
  <2>3. r2.alone => r2.calm
    BY <1>0, <1>12 DEF Ordered
  <2>4. r2.said = Import!Nothing
    BY <1>0, <1>12 DEF Ordered
  <2>5. QED
    BY <1>12, <2>1, <2>2, <2>3, <2>4 DEF Sound, Ordered
<1>14. Owing(r2, its)
  BY <1>12 DEF Owing
<1>15. Repeating(r2, its)
  <2>1. SUFFICES ASSUME r.again, r.calm
                 PROVE  Repeating(r2, its)
    BY <1>12 DEF Repeating
  <2>2. /\ \A j \in Undeleted(e) : Complete(KataWrites[e], its, j)
        /\ NoneDeleted(its) =>
             /\ r.plan = <<>> /\ OnlyAlready(r.tally)
             /\ \A j \in DOMAIN r.here :
                   /\ its[j].is # "deleted"
                   /\ \A l \in KataWrites[e].links :
                         l[1] = j /\ ~KataWrites[e].issues[l[2]].deleted
                            /\ its[l[2]].is # "deleted" =>
                         l[2] \in r.here[j].links
    BY <1>0, <2>1 DEF Repeating
  <2>3. SUFFICES ASSUME NoneDeleted(its)
                 PROVE  /\ OnlyAlready(t)
                        /\ \A j \in DOMAIN h :
                             /\ its[j].is # "deleted"
                             /\ \A l \in KataWrites[e].links :
                                   l[1] = j /\ ~KataWrites[e].issues[l[2]].deleted
                                      /\ its[l[2]].is # "deleted" =>
                                   l[2] \in h[j].links
    BY <1>12, <2>2 DEF Repeating
  <2>4. Complete(KataWrites[e], its, i) /\ its[i].is # "deleted"
    BY <1>1, <2>2, <2>3 DEF NoneDeleted
  <2>5. There(i, s, its[i]) /\ its[i].is # "none"
    BY <2>4 DEF Complete, There, Owed
  <2>6. its[i].is \in {"none", "open", "closed", "deleted"}
    BY <1>1 DEF KataItems
  <2>7. there
    BY <1>c, <2>4, <2>5, <2>6
  <2>8. z = its[i] /\ x = its[i]
    BY <1>c, <2>7
  <2>9. a = 0 /\ b = 0
    <3>1. s.comments \subseteq its[i].comments /\ (s.closed => its[i].is = "closed")
      BY <2>4, <2>5, NoneInPlan DEF There, Owed
    <3>2. s.comments \ z.comments = {} /\ ~(s.closed /\ z.is = "open")
      BY <2>8, <3>1
    <3>3. QED
      BY <3>2, FS_EmptySet DEF a, b
  <2>10. OnlyAlready(t)
    <3>1. OnlyAlready(r.tally)
      BY <2>2, <2>3
    <3>2. /\ r.tally.filed = 0 /\ r.tally.comments = 0 /\ r.tally.closed = 0 /\ r.tally.links = 0
      BY <3>1 DEF OnlyAlready, Import!Nothing
    <3>3. t.filed = 0 /\ t.comments = 0 /\ t.closed = 0 /\ t.links = 0
      BY <1>8, <1>10, <2>7, <2>9, <3>2
    <3>4. QED
      BY <1>10, <3>3 DEF OnlyAlready, Import!Nothing, Tallies
  <2>11. \A l \in KataWrites[e].links :
            l[1] = i /\ ~KataWrites[e].issues[l[2]].deleted /\ its[l[2]].is # "deleted" =>
            l[2] \in h[i].links
    BY <1>5, <2>4, <2>8, NoneInPlan DEF Complete, LinksOwed
  <2>12. ASSUME NEW j \in DOMAIN h
         PROVE  /\ its[j].is # "deleted"
                /\ \A l \in KataWrites[e].links :
                      l[1] = j /\ ~KataWrites[e].issues[l[2]].deleted
                         /\ its[l[2]].is # "deleted" =>
                      l[2] \in h[j].links
    <3>1. CASE j = i
      BY <2>4, <2>11, <3>1
    <3>2. CASE j # i
      BY <1>5, <2>2, <2>3, <3>2
    <3>3. QED
      BY <3>1, <3>2
  <2>13. QED
    BY <2>10, <2>12
<1>16. Foretelling(r2, its)
  <2>1. SUFFICES ASSUME r.alone, NoTombs(e, its)
                 PROVE  Counting(r2, its)
    BY <1>12 DEF Foretelling
  <2> DEFINE W == WholeOf(e, its)
  <2>2. /\ Undeleted(e) \ r.left \subseteq DOMAIN r.here
        /\ \A j \in DOMAIN r.here : r.here[j].links = its[j].links
        /\ r.tally.links = 0
        /\ ComesTo(r, its, W)
    BY <1>0, <2>1 DEF Foretelling, Counting
  <2> HIDE DEF W
  <2>3. its[i].is # "deleted" /\ its[i].is \in {"none", "open", "closed", "deleted"}
    BY <1>1, <2>1 DEF NoTombs, KataItems
  <2>4. there <=> its[i].is # "none"
    BY <1>c, <2>3
  <2>5. ~there => its[i] = Import!Unfiled
    BY <1>1, <2>4 DEF KataLedgers
  <2>6. x = its[i] /\ z.comments = its[i].comments
    BY <1>c, <2>5, FiledIs DEF Import!WouldFile
  <2>7. s.closed /\ z.is = "open" <=> s.closed /\ its[i].is \in {"none", "open"}
    BY <1>c, <2>3, <2>4, FiledIs
  <2>8. Undeleted(e) \ left2 \subseteq DOMAIN h
    BY <1>5, <2>2 DEF left2
  <2>9. \A j \in DOMAIN h : h[j].links = its[j].links
    <3>1. SUFFICES ASSUME NEW j \in DOMAIN h
                   PROVE  h[j].links = its[j].links
      OBVIOUS
    <3>2. CASE j = i
      BY <1>5, <2>6, <3>2
    <3>3. CASE j # i
      BY <1>5, <2>2, <3>3
    <3>4. QED
      BY <3>2, <3>3
  <2>10. Ahead(r) = r.left /\ Ahead(r2) = left2
    BY <1>12 DEF Ahead
  <2>11. t.filed + Cardinality(ToFile(its, left2)) = r.tally.filed + Cardinality(ToFile(its, r.left))
    <3> DEFINE S == ToFile(its, r.left)
               T == ToFile(its, left2)
    <3>1. IsFiniteSet(S)
      BY <1>2, ToCount
    <3>2. CASE there
      <4>1. S = T
        BY <2>4, <3>2 DEF ToFile, left2
      <4>2. t.filed = r.tally.filed
        BY <1>3, <1>8, <1>10, <3>2
      <4> HIDE DEF S, T
      <4>3. QED
        BY <4>1, <4>2 DEF S, T
    <3>3. CASE ~there
      <4>1. i \in S /\ T = S \ {i}
        BY <1>1, <2>4, <3>3 DEF ToFile, left2
      <4>2. t.filed = r.tally.filed + 1
        BY <1>8, <1>10, <3>3
      <4> HIDE DEF S, T
      <4>3. Cardinality(S) \in Nat /\ Cardinality(T) \in Nat /\ Cardinality(S) = 1 + Cardinality(T)
        BY <3>1, <4>1, LessOne
      <4>4. t.filed + Cardinality(T) = r.tally.filed + Cardinality(S)
        BY <1>3, <4>2, <4>3
      <4>5. QED
        BY <4>4 DEF S, T
    <3>4. QED
      BY <3>2, <3>3
  <2>12. t.already + Cardinality(ToFind(its, left2)) = r.tally.already + Cardinality(ToFind(its, r.left))
    <3> DEFINE S == ToFind(its, r.left)
               T == ToFind(its, left2)
    <3>1. IsFiniteSet(S)
      BY <1>2, ToCount
    <3>2. CASE ~there
      <4>1. S = T
        BY <1>c, <3>2 DEF ToFind, left2
      <4>2. t.already = r.tally.already
        BY <1>3, <1>8, <1>10, <3>2
      <4> HIDE DEF S, T
      <4>3. QED
        BY <4>1, <4>2 DEF S, T
    <3>3. CASE there
      <4>1. i \in S /\ T = S \ {i}
        BY <1>1, <1>c, <3>3 DEF ToFind, left2
      <4>2. t.already = r.tally.already + 1
        BY <1>8, <1>10, <3>3
      <4> HIDE DEF S, T
      <4>3. Cardinality(S) \in Nat /\ Cardinality(T) \in Nat /\ Cardinality(S) = 1 + Cardinality(T)
        BY <3>1, <4>1, LessOne
      <4>4. t.already + Cardinality(T) = r.tally.already + Cardinality(S)
        BY <1>3, <4>2, <4>3
      <4>5. QED
        BY <4>4 DEF S, T
    <3>4. QED
      BY <3>2, <3>3
  <2>13. t.comments + Cardinality(ToComment(e, its, left2)) =
            r.tally.comments + Cardinality(ToComment(e, its, r.left))
    <3> DEFINE m == Cardinality(ToComment(e, its, left2))
               n == Cardinality(ToComment(e, its, r.left))
    <3>1. n = a + m
      BY <1>1, <1>2, <2>6, LessComments DEF a, left2
    <3>2. m \in Nat
      BY <1>2, <1>11, ToCount
    <3> HIDE DEF m, n
    <3>3. t.comments = r.tally.comments + a
      BY <1>8, <1>10
    <3>4. t.comments + m = r.tally.comments + n
      BY <1>3, <1>7, <3>1, <3>2, <3>3
    <3>5. QED
      BY <3>4 DEF m, n
  <2>14. t.closed + Cardinality(ToClose(e, its, left2)) =
            r.tally.closed + Cardinality(ToClose(e, its, r.left))
    <3> DEFINE S == ToClose(e, its, r.left)
               T == ToClose(e, its, left2)
    <3>1. IsFiniteSet(S)
      BY <1>2, ToCount
    <3>2. CASE ~(s.closed /\ z.is = "open")
      <4>1. S = T
        BY <2>7, <3>2 DEF ToClose, left2
      <4>2. b = 0
        BY <3>2 DEF b
      <4>3. t.closed = r.tally.closed
        BY <1>3, <1>8, <1>10, <4>2
      <4> HIDE DEF S, T
      <4>4. QED
        BY <4>1, <4>3 DEF S, T
    <3>3. CASE s.closed /\ z.is = "open"
      <4>1. i \in S /\ T = S \ {i}
        BY <1>1, <2>7, <3>3 DEF ToClose, left2
      <4>2. b = 1
        BY <3>3 DEF b
      <4>3. t.closed = r.tally.closed + 1
        BY <1>8, <1>10, <4>2
      <4> HIDE DEF S, T
      <4>4. Cardinality(S) \in Nat /\ Cardinality(T) \in Nat /\ Cardinality(S) = 1 + Cardinality(T)
        BY <3>1, <4>1, LessOne
      <4>5. t.closed + Cardinality(T) = r.tally.closed + Cardinality(S)
        BY <1>3, <4>3, <4>4
      <4>6. QED
        BY <4>5 DEF S, T
    <3>4. QED
      BY <3>2, <3>3
  <2>15. ComesTo(r2, its, W)
    BY <1>12, <2>2, <2>10, <2>11, <2>12, <2>13, <2>14 DEF ComesTo
  <2>16. QED
    BY <1>11, <1>12, <2>2, <2>8, <2>9, <2>15 DEF Counting, W
<1>17. QED
  BY <1>12, <1>13, <1>14, <1>15, <1>16 DEF RunStands, r2

LEMMA RunIs ==
    ASSUME NEW k \in DOMAIN KataWrites, NEW dry \in BOOLEAN, NEW left \in SUBSET Import!Issues,
           NEW again \in BOOLEAN, NEW said \in Tallies, NEW here, NEW plan \in Seq(KataSends),
           here \in UNION {[D -> KataItems] : D \in SUBSET Import!Issues}, NEW t \in Tallies
    PROVE  [at |-> "issue", export |-> k, dry |-> dry, left |-> left, here |-> here,
            plan |-> plan, tally |-> t, calm |-> TRUE, alone |-> TRUE, again |-> again,
            said |-> said] \in KataRuns
BY DEF KataRuns

LEMMA StartsStand ==
    ASSUME NEW its \in KataLedgers, NEW k \in DOMAIN KataWrites, NEW dry \in BOOLEAN,
           NEW done \in SUBSET DOMAIN KataWrites, NEW word \in KataPromises, Kept(its, done, word),
           NEW r2, r2 = [at |-> "issue", export |-> k, dry |-> dry,
                         left |-> {i \in Import!Issues : ~KataWrites[k].issues[i].deleted},
                         here |-> <<>>, plan |-> <<>>, tally |-> Import!Nothing, calm |-> TRUE,
                         alone |-> TRUE, again |-> k \in done,
                         said |-> IF ~dry /\ word.export = k THEN word.tally ELSE Import!Nothing]
    PROVE  r2 \in KataRuns /\ RunStands(r2, its)
<1> DEFINE said == IF ~dry /\ word.export = k THEN word.tally ELSE Import!Nothing
           again == k \in done
<1>1. Import!Nothing \in Tallies /\ word.tally \in Tallies
  BY DEF Import!Nothing, Tallies, KataPromises
<1>2. said \in Tallies /\ again \in BOOLEAN /\ Undeleted(k) \in SUBSET Import!Issues
  BY <1>1 DEF Undeleted
<1>3. <<>> \in UNION {[D -> KataItems] : D \in SUBSET Import!Issues}
  <2>1. <<>> \in [{} -> KataItems]
    OBVIOUS
  <2>2. QED
    BY <2>1
<1>4. <<>> \in Seq(KataSends) /\ DOMAIN <<>> = {}
  OBVIOUS
<1>5. r2 = [at |-> "issue", export |-> k, dry |-> dry, left |-> Undeleted(k), here |-> <<>>,
            plan |-> <<>>, tally |-> Import!Nothing, calm |-> TRUE, alone |-> TRUE,
            again |-> again, said |-> said]
  BY DEF Undeleted
<1> HIDE DEF said, again
<1>6. /\ r2.at = "issue" /\ r2.export = k /\ r2.dry = dry /\ r2.left = Undeleted(k)
      /\ r2.here = <<>> /\ r2.plan = <<>> /\ r2.tally = Import!Nothing /\ r2.calm /\ r2.alone
      /\ r2.again = again /\ r2.said = said
  BY <1>5
<1>7. r2 \in KataRuns
  <2> DEFINE left2 == Undeleted(k)
             none == <<>>
             t == Import!Nothing
  <2>1. /\ left2 \in SUBSET Import!Issues /\ none \in Seq(KataSends) /\ t \in Tallies
        /\ none \in UNION {[D -> KataItems] : D \in SUBSET Import!Issues}
    BY <1>1, <1>2, <1>3, <1>4
  <2>2. r2 = [at |-> "issue", export |-> k, dry |-> dry, left |-> left2, here |-> none,
              plan |-> none, tally |-> t, calm |-> TRUE, alone |-> TRUE,
              again |-> again, said |-> said]
    BY <1>5
  <2> HIDE DEF left2, none, t
  <2>3. QED
    BY <1>2, <2>1, <2>2, RunIs
<1>8. Sound(r2, its)
  BY <1>4, <1>6 DEF Sound, Ordered
<1>9. Owing(r2, its)
  BY <1>4, <1>6 DEF Owing
<1>10. Repeating(r2, its)
  <2>1. again => \A i \in Undeleted(k) : Complete(KataWrites[k], its, i)
    BY DEF again, Kept
  <2>2. OnlyAlready(Import!Nothing)
    BY DEF OnlyAlready, Import!Nothing
  <2>3. QED
    BY <1>4, <1>6, <2>1, <2>2 DEF Repeating
<1>11. Foretelling(r2, its)
  <2> DEFINE W == WholeOf(k, its)
             U == Undeleted(k)
  <2>1. /\ Cardinality(ToFile(its, U)) \in Nat /\ Cardinality(ToFind(its, U)) \in Nat
        /\ Cardinality(ToComment(k, its, U)) \in Nat /\ Cardinality(ToClose(k, its, U)) \in Nat
        /\ Cardinality(ToLink(k, its)) \in Nat
    BY <1>2, ToCount
  <2>2. Ahead(r2) = U
    BY <1>6 DEF Ahead
  <2>3. /\ W.filed = Cardinality(ToFile(its, U)) /\ W.already = Cardinality(ToFind(its, U))
        /\ W.comments = Cardinality(ToComment(k, its, U))
        /\ W.closed = Cardinality(ToClose(k, its, U)) /\ W.links = Cardinality(ToLink(k, its))
    BY DEF WholeOf
  <2>4. /\ Import!Nothing.filed = 0 /\ Import!Nothing.already = 0 /\ Import!Nothing.comments = 0
        /\ Import!Nothing.closed = 0 /\ Import!Nothing.links = 0
    BY DEF Import!Nothing
  <2> HIDE DEF W, U
  <2>5. /\ W.filed = 0 + Cardinality(ToFile(its, U)) /\ W.already = 0 + Cardinality(ToFind(its, U))
        /\ W.comments = 0 + Cardinality(ToComment(k, its, U))
        /\ W.closed = 0 + Cardinality(ToClose(k, its, U)) /\ W.links = 0 + Cardinality(ToLink(k, its))
    BY <2>1, <2>3
  <2>6. ComesTo(r2, its, W)
    BY <1>6, <2>2, <2>4, <2>5 DEF ComesTo, U
  <2>7. dry => Counting(r2, its)
    BY <1>4, <1>6, <2>4, <2>6 DEF Counting, W
  <2>8. ~dry /\ said # Import!Nothing => Promised(r2, its)
    <3>1. SUFFICES ASSUME ~dry, said # Import!Nothing
                   PROVE  Promised(r2, its)
      OBVIOUS
    <3>2. word.export = k /\ said = word.tally
      BY <3>1 DEF said
    <3>3. word.export # 0
      BY <3>2, ImportNumbers
    <3>4. NoTombs(k, its) /\ said = W
      BY <3>2, <3>3 DEF Kept, W
    <3>5. said.links = r2.tally.links + Cardinality(ToLink(k, its))
      BY <1>6, <2>4, <2>5, <3>4
    <3>6. QED
      BY <1>4, <1>6, <2>6, <3>4, <3>5 DEF Promised, PlanLacks
  <2>9. QED
    BY <1>6, <2>7, <2>8 DEF Foretelling
<1>12. QED
  BY <1>7, <1>8, <1>9, <1>10, <1>11 DEF RunStands

\* What a run that ends adds to the history.
DoneBy(r, done) == IF r.calm /\ ~r.dry THEN done \cup {r.export} ELSE done
WordBy(r, its, word) ==
    IF /\ r.dry /\ r.alone /\ r.calm
       /\ \A i \in Import!Issues : its[i].is = "deleted" => KataWrites[r.export].issues[i].deleted
    THEN [export |-> r.export, tally |-> r.tally] ELSE word

LEMMA FinishKeeps ==
    ASSUME NEW r \in KataRuns, NEW its \in KataLedgers, RunStands(r, its), r.at = "links",
           r.plan = <<>>, NEW done \in SUBSET DOMAIN KataWrites, NEW word \in KataPromises,
           Kept(its, done, word)
    PROVE  /\ DoneBy(r, done) \in SUBSET DOMAIN KataWrites /\ WordBy(r, its, word) \in KataPromises
           /\ Kept(its, DoneBy(r, done), WordBy(r, its, word))
<1> DEFINE done2 == DoneBy(r, done)
           word2 == WordBy(r, its, word)
<1>a. done2 = (IF r.calm /\ ~r.dry THEN done \cup {r.export} ELSE done)
  BY DEF DoneBy
<1>b. word2 = (IF r.dry /\ r.alone /\ r.calm
                  /\ \A i \in Import!Issues : its[i].is = "deleted" =>
                        KataWrites[r.export].issues[i].deleted
               THEN [export |-> r.export, tally |-> r.tally] ELSE word)
  BY DEF WordBy
<1> HIDE DEF done2, word2
<1> DEFINE e == r.export
<1>1. e \in DOMAIN KataWrites /\ r.tally \in Tallies
  BY RunParts
<1>2. r.left = {}
  BY DEF RunStands, Sound, Ordered
<1>3. done2 \in SUBSET DOMAIN KataWrites /\ word2 \in KataPromises
  BY <1>1, <1>a, <1>b DEF KataPromises
<1>4. r.calm /\ ~r.dry => \A i \in Undeleted(e) : Complete(KataWrites[e], its, i)
  BY <1>2 DEF RunStands, Owing, Complete
<1>5. ASSUME NEW d \in done2
      PROVE  \A i \in Undeleted(d) : Complete(KataWrites[d], its, i)
  BY <1>4, <1>a DEF Kept
<1>6. word2.export # 0 => NoTombs(word2.export, its) /\ word2.tally = WholeOf(word2.export, its)
  <2>1. CASE word2 = word
    BY <2>1 DEF Kept
  <2>2. CASE word2 # word
    <3>1. /\ r.dry /\ r.alone /\ word2.export = e /\ word2.tally = r.tally
          /\ \A i \in Import!Issues : its[i].is = "deleted" => KataWrites[e].issues[i].deleted
      BY <1>b, <2>2
    <3>2. NoTombs(e, its)
      BY <3>1 DEF NoTombs, Undeleted
    <3> DEFINE W == WholeOf(e, its)
               t == r.tally
    <3>3. /\ ComesTo(r, its, W) /\ t.links = Cardinality(ToLink(e, its))
      BY <3>1, <3>2 DEF RunStands, Foretelling, Counting
    <3>4. /\ Cardinality(ToFile(its, {})) = 0 /\ Cardinality(ToFind(its, {})) = 0
          /\ Cardinality(ToComment(e, its, {})) = 0 /\ Cardinality(ToClose(e, its, {})) = 0
      BY NoneToCount
    <3>5. Ahead(r) = {}
      BY <1>2 DEF Ahead
    <3>6. W = [filed |-> W.filed, already |-> W.already, comments |-> W.comments,
               closed |-> W.closed, links |-> W.links]
          /\ W.links = Cardinality(ToLink(e, its))
      BY DEF WholeOf
    <3> HIDE DEF W
    <3>7. /\ W.filed = t.filed + 0 /\ W.already = t.already + 0 /\ W.comments = t.comments + 0
          /\ W.closed = t.closed + 0
      BY <1>2, <3>3, <3>4, <3>5 DEF ComesTo
    <3>8. /\ t.filed \in Nat /\ t.already \in Nat /\ t.comments \in Nat /\ t.closed \in Nat
          /\ t = [filed |-> t.filed, already |-> t.already, comments |-> t.comments,
                  closed |-> t.closed, links |-> t.links]
      BY <1>1 DEF Tallies
    <3> HIDE DEF t
    <3>9. /\ W.filed = t.filed /\ W.already = t.already /\ W.comments = t.comments
          /\ W.closed = t.closed /\ W.links = t.links
      BY <3>3, <3>6, <3>7, <3>8
    <3>10. W = t
      BY <3>6, <3>8, <3>9
    <3>11. QED
      BY <3>1, <3>2, <3>10 DEF W, t
  <2>3. QED
    BY <2>1, <2>2
<1>7. QED
  BY <1>3, <1>5, <1>6 DEF Kept, done2, word2

\* A person takes from an item what no import does; the runs are disturbed.
LEMMA ActsStand ==
    ASSUME NEW r \in KataRuns, NEW its \in KataLedgers, RunStands(r, its), NEW i \in Import!Issues,
           its[i].is \in {"open", "closed"}, NEW y \in Import!Acts(its[i]),
           NEW its2, its2 = [its EXCEPT ![i] = y],
           NEW r2, r2 = [r EXCEPT !.calm = FALSE, !.alone = FALSE]
    PROVE  r2 \in KataRuns /\ its2 \in KataLedgers /\ RunStands(r2, its2)
<1> DEFINE x == its[i]
<1>0. Sound(r, its) /\ Ordered(r, its)
  BY DEF RunStands, Sound
<1>1. x \in KataItems /\ x.is # "none"
  BY DEF KataLedgers
<1>2. y \in KataItems /\ y.is # "none" /\ y.links = x.links
  <2> HIDE DEF x
  <2>1. y \in Import!Acts(x)
    BY DEF x
  <2>2. "advanced" \in KataStates
    BY DEF KataStates
  <2>4. \/ y = [x EXCEPT !.claim = "someone"] \/ y = [x EXCEPT !.claim = "nobody"]
        \/ y = [x EXCEPT !.state = "advanced"] \/ y = [x EXCEPT !.deferred = FALSE]
        \/ y = [x EXCEPT !.is = "closed"] \/ y = [x EXCEPT !.is = "open"]
        \/ y = [x EXCEPT !.is = "deleted"]
    BY <2>1, Zenon DEF Import!Acts
  <2>5. CASE y = [x EXCEPT !.claim = "someone"]
    BY <1>1, <2>5 DEF KataItems
  <2>6. CASE y = [x EXCEPT !.claim = "nobody"]
    BY <1>1, <2>6 DEF KataItems
  <2>7. CASE y = [x EXCEPT !.state = "advanced"]
    BY <1>1, <2>2, <2>7 DEF KataItems
  <2>8. CASE y = [x EXCEPT !.deferred = FALSE]
    BY <1>1, <2>8 DEF KataItems
  <2>9. CASE y = [x EXCEPT !.is = "closed"]
    BY <1>1, <2>9 DEF KataItems
  <2>10. CASE y = [x EXCEPT !.is = "open"]
    BY <1>1, <2>10 DEF KataItems
  <2>11. CASE y = [x EXCEPT !.is = "deleted"]
    BY <1>1, <2>11 DEF KataItems
  <2>12. QED
    BY <2>4, <2>5, <2>6, <2>7, <2>8, <2>9, <2>10, <2>11
<1>3. /\ its2 \in [Import!Issues -> KataItems] /\ its2[i] = y
      /\ \A j \in Import!Issues : j # i => its2[j] = its[j]
  BY <1>2 DEF KataLedgers
<1>4. its2 \in KataLedgers
  BY <1>2, <1>3 DEF KataLedgers
<1>5. /\ r2 \in KataRuns /\ r2.at = r.at /\ r2.tally = r.tally
      /\ r2.export = r.export /\ r2.dry = r.dry /\ r2.left = r.left /\ r2.here = r.here
      /\ r2.plan = r.plan /\ r2.said = r.said /\ ~r2.calm /\ ~r2.alone
  BY DEF KataRuns
<1>6. AtHand(r2) = AtHand(r)
  BY <1>5 DEF AtHand
<1>7. \A j \in Import!Issues : (its[j].is # "none" => its2[j].is # "none") /\ its2[j].links = its[j].links
  BY <1>1, <1>2, <1>3
<1>8. Ordered(r2, its2)
  <2>1. r.at = "read" => its2[AtHand(r)].is # "none"
    BY <1>0, <1>7, AtHandIs DEF Ordered
  <2>2. ~r.dry => \A j \in DOMAIN r.here : its2[j].is # "none" /\ r.here[j].links \subseteq its2[j].links
    BY <1>0, <1>7, RunParts DEF Ordered
  <2>3. \A n \in DOMAIN r.plan : /\ its2[r.plan[n].of].is # "none"
                                 /\ r.plan[n].do = "state" => r.plan[n].to # "filed"
    BY <1>0, <1>7, RunParts DEF Ordered
  <2>4. QED
    BY <1>0, <1>5, <1>6, <2>1, <2>2, <2>3 DEF Ordered
<1>9. Sound(r2, its2)
  BY <1>0, <1>5, <1>8 DEF Sound
<1>10. QED
  BY <1>4, <1>5, <1>9 DEF RunStands, Owing, Repeating, Foretelling

-----------------------------------------------------------------------------
(* Every step of an import.                                                *)

LEMMA KataParts ==
    ASSUME KataInv
    PROVE  /\ kata \in DOMAIN KataWrites /\ begun \in 0 .. MaxRuns /\ acts \in 0 .. MaxActs
           /\ items \in KataLedgers /\ run \in [Importers -> KataRuns]
           /\ settled \in SUBSET DOMAIN KataWrites /\ promise \in KataPromises
           /\ \A w \in Importers : run[w] \in KataRuns /\ RunStands(run[w], items)
           /\ Kept(items, settled, promise)
BY DEF KataInv

LEMMA KataNext ==
    ASSUME kata' \in DOMAIN KataWrites, begun' \in 0 .. MaxRuns, acts' \in 0 .. MaxActs,
           items' \in KataLedgers, run' \in [Importers -> KataRuns],
           settled' \in SUBSET DOMAIN KataWrites, promise' \in KataPromises,
           \A w \in Importers : RunStands(run'[w], items'),
           Kept(items', settled', promise')
    PROVE  KataInv'
BY DEF KataInv

\* One run goes on, and the ledger is as it was.
LEMMA OneGoesOn ==
    ASSUME NEW rn \in [Importers -> KataRuns], NEW its, \A v \in Importers : RunStands(rn[v], its),
           NEW w \in Importers, NEW r2 \in KataRuns, RunStands(r2, its),
           NEW rn2, rn2 = [rn EXCEPT ![w] = r2]
    PROVE  rn2 \in [Importers -> KataRuns] /\ \A v \in Importers : RunStands(rn2[v], its)
OBVIOUS

AllStand(rn, its, done, word) ==
    /\ rn \in [Importers -> KataRuns] /\ \A v \in Importers : RunStands(rn[v], its)
    /\ word \in KataPromises /\ Kept(its, done, word)

\* One run writes: the others are not alone, and a dry run's word is spent.
Writer(rn, w, x, y, r2) ==
    [v \in Importers |-> IF v = w THEN r2
                         ELSE IF y = x THEN rn[v] ELSE [rn[v] EXCEPT !.alone = FALSE]]
WordOf(word, x, y) == IF y = x THEN word ELSE Import!NoPromise

LEMMA OneStores ==
    ASSUME NEW rn \in [Importers -> KataRuns], NEW its \in KataLedgers,
           \A v \in Importers : RunStands(rn[v], its), NEW w \in Importers, NEW r2 \in KataRuns,
           NEW i \in Import!Issues, NEW y,
           Put(its, i, y) \in KataLedgers, LedgerGrown(its, Put(its, i, y)),
           RunStands(r2, Put(its, i, y)),
           NEW done \in SUBSET DOMAIN KataWrites, NEW word \in KataPromises, Kept(its, done, word)
    PROVE  AllStand(Writer(rn, w, its[i], y, r2), Put(its, i, y), done, WordOf(word, its[i], y))
<1> DEFINE its2 == Put(its, i, y)
           rn2 == Writer(rn, w, its[i], y, r2)
           word2 == WordOf(word, its[i], y)
<1>0. its2 \in KataLedgers /\ LedgerGrown(its, its2) /\ RunStands(r2, its2)
  OBVIOUS
<1>1. y = its[i] => its2 = its
  BY DEF KataLedgers, Put
<1>2. Import!NoPromise \in KataPromises
  BY DEF Import!NoPromise, KataPromises, Import!Nothing, Tallies
<1>5. rn2[w] = r2 /\ DOMAIN rn2 = Importers /\ rn2 = [v \in Importers |-> rn2[v]]
  BY DEF Writer
<1> HIDE DEF its2
<1>3. word2 \in KataPromises /\ Kept(its2, done, word2)
  <2>1. word2 = Import!NoPromise \/ (word2 = word /\ its2 = its)
    BY <1>1 DEF WordOf
  <2> HIDE DEF word2
  <2>2. QED
    BY <1>0, <1>2, <2>1, KeptGrows
<1>4. ASSUME NEW v \in Importers, v # w
      PROVE  rn2[v] \in KataRuns /\ RunStands(rn2[v], its2)
  <2> DEFINE r == rn[v]
             q == rn2[v]
  <2>1. q = IF y = its[i] THEN r ELSE [r EXCEPT !.alone = FALSE]
    BY <1>4 DEF Writer
  <2>2. r \in KataRuns /\ RunStands(r, its)
    OBVIOUS
  <2> HIDE DEF q, r
  <2>3. Same(r, q)
    BY <2>1 DEF Same
  <2>4. its2 = its \/ ~q.alone
    <3>1. CASE y = its[i]
      BY <1>1, <3>1
    <3>2. CASE y # its[i]
      BY <2>1, <2>2, <3>2 DEF KataRuns
    <3>3. QED
      BY <3>1, <3>2
  <2>5. q \in KataRuns /\ RunStands(q, its2)
    BY <1>0, <2>2, <2>3, <2>4, StandsStill
  <2>6. QED
    BY <2>5 DEF q
<1> HIDE DEF rn2
<1>6. \A v \in Importers : rn2[v] \in KataRuns /\ RunStands(rn2[v], its2)
  BY <1>0, <1>4, <1>5
<1>7. rn2 \in [Importers -> KataRuns]
  BY <1>5, <1>6
<1>8. QED
  BY <1>3, <1>6, <1>7 DEF AllStand, rn2, its2

LEMMA KeptsUnchanged == \A its : LedgerGrown(its, its)
BY GrownSelf DEF LedgerGrown

LEMMA FileKeyedKeeps ==
    ASSUME KataInv, NEW w \in Importers, Import!FileKeyed(w)
    PROVE  KataInv'
<1> DEFINE r == run[w]
           i == AtHand(r)
           y == Import!Appended(items[i])
           r2 == CASE items[i].is = "none" -> [r EXCEPT !.at = "read", !.tally.filed = @ + 1]
                   [] items[i].is = "deleted" -> [r EXCEPT !.left = @ \ {i}]
                   [] OTHER -> [r EXCEPT !.at = "read", !.tally.already = @ + 1]
           rn1 == [v \in Importers |-> IF v = w \/ y = items[i] THEN run[v]
                                       ELSE [run[v] EXCEPT !.alone = FALSE]]
<1>1. /\ r.at = "issue" /\ r.left # {} /\ ~r.dry
      /\ items' = [items EXCEPT ![i] = y]
      /\ promise' = IF y = items[i] THEN promise ELSE Import!NoPromise
      /\ run' = [rn1 EXCEPT ![w] = r2]
      /\ kata' = kata /\ begun' = begun /\ acts' = acts /\ settled' = settled
  BY DEF Import!FileKeyed, Import!Store, Import!OthersOf, Import!Issue, AtHand, Importers
<1>2. /\ kata \in DOMAIN KataWrites /\ begun \in 0 .. MaxRuns /\ acts \in 0 .. MaxActs
      /\ items \in KataLedgers /\ run \in [Importers -> KataRuns]
      /\ settled \in SUBSET DOMAIN KataWrites /\ promise \in KataPromises
      /\ r \in KataRuns /\ RunStands(r, items)
      /\ \A v \in Importers : RunStands(run[v], items)
      /\ Kept(items, settled, promise)
  BY KataParts
<1>3. i \in Import!Issues
  BY <1>1, <1>2, AtHandIs
<1>4. y = IF items[i].is = "none" THEN Import!Filed ELSE items[i]
  BY DEF Import!Appended
<1> HIDE DEF r, i, y, rn1
<1>5. /\ r2 \in KataRuns /\ items' \in KataLedgers /\ LedgerGrown(items, items')
      /\ RunStands(r2, items')
  <2>1. CASE items[i].is = "none"
    <3>1. /\ items' = [items EXCEPT ![i] = Import!Filed]
          /\ r2 = [r EXCEPT !.at = "read", !.tally.filed = r.tally.filed + 1]
      BY <1>1, <1>4, <2>1
    <3> HIDE DEF r2
    <3>2. QED
      BY <1>1, <1>2, <2>1, <3>1, FilesStands DEF i
  <2>2. CASE items[i].is # "none"
    <3>1. items' = items
      BY <1>1, <1>2, <1>4, <2>2 DEF KataLedgers
    <3>2. CASE items[i].is = "deleted"
      <4>1. r2 = [r EXCEPT !.left = r.left \ {i}]
        BY <3>2
      <4> HIDE DEF r2
      <4>2. r2 \in KataRuns /\ RunStands(r2, items)
        BY <1>1, <1>2, <3>2, <4>1, LeavesStands DEF i
      <4>3. QED
        BY <1>2, <3>1, <4>2, KeptsUnchanged
    <3>3. CASE items[i].is # "deleted"
      <4>1. r2 = [r EXCEPT !.at = "read", !.tally.already = r.tally.already + 1]
        BY <2>2, <3>3
      <4> HIDE DEF r2
      <4>2. r2 \in KataRuns /\ RunStands(r2, items)
        BY <1>1, <1>2, <2>2, <3>3, <4>1, FindsStands DEF i
      <4>3. QED
        BY <1>2, <3>1, <4>2, KeptsUnchanged
    <3>4. QED
      BY <3>2, <3>3
  <2>3. QED
    BY <2>1, <2>2
<1> HIDE DEF r2
<1>6. AllStand(run', items', settled, promise')
  <2>1. run' = Writer(run, w, items[i], y, r2)
    BY <1>1 DEF Writer, rn1
  <2>2. items' = Put(items, i, y) /\ promise' = WordOf(promise, items[i], y)
    BY <1>1 DEF Put, WordOf
  <2>3. AllStand(Writer(run, w, items[i], y, r2), Put(items, i, y), settled,
                 WordOf(promise, items[i], y))
    BY <1>2, <1>3, <1>5, <2>2, OneStores
  <2>4. QED
    BY <2>1, <2>2, <2>3
<1>7. QED
  BY <1>1, <1>2, <1>5, <1>6, KataNext DEF AllStand

\* What only one run does to itself.
LEMMA OwnStepKeeps ==
    ASSUME KataInv, NEW w \in Importers, NEW r2 \in KataRuns, RunStands(r2, items),
           run' = [run EXCEPT ![w] = r2], begun' \in 0 .. MaxRuns,
           UNCHANGED <<kata, items, acts, settled, promise>>
    PROVE  KataInv'
<1>1. /\ kata \in DOMAIN KataWrites /\ acts \in 0 .. MaxActs
      /\ items \in KataLedgers /\ run \in [Importers -> KataRuns]
      /\ settled \in SUBSET DOMAIN KataWrites /\ promise \in KataPromises
      /\ \A v \in Importers : RunStands(run[v], items)
      /\ Kept(items, settled, promise)
  BY KataParts
<1>2. run' \in [Importers -> KataRuns] /\ \A v \in Importers : RunStands(run'[v], items)
  BY <1>1, OneGoesOn
<1>3. \A v \in Importers : RunStands(run'[v], items')
  BY <1>2
<1>4. QED
  BY <1>1, <1>2, <1>3, KataNext

LEMMA ReadKeeps ==
    ASSUME KataInv, NEW w \in Importers, Import!Read(w)
    PROVE  KataInv'
<1> DEFINE r == run[w]
           i == AtHand(r)
           r1 == [r EXCEPT !.at = "writes", !.here = Import!Learned(r.here, i, items[i]),
                           !.plan = Import!Plan(i, KataWrites[r.export].issues[i], items[i])]
           r2 == IF items[i].is = "deleted" THEN Import!Stopped(r) ELSE Import!Done(r1, i)
<1>1. /\ r.at = "read" /\ run' = [run EXCEPT ![w] = r2]
      /\ UNCHANGED <<kata, items, begun, acts, settled, promise>>
  BY DEF Import!Read, Import!Issue, Import!Of, AtHand
<1>2. /\ r \in KataRuns /\ RunStands(r, items) /\ items \in KataLedgers /\ begun \in 0 .. MaxRuns
  BY KataParts
<1>3. r2 = IF items[i].is = "deleted" THEN Import!Stopped(r) ELSE Import!Done(r1, i)
  OBVIOUS
<1> HIDE DEF r, r2
<1>4. r2 \in KataRuns /\ RunStands(r2, items)
  <2>1. CASE items[i].is = "deleted"
    BY <1>2, <1>3, <2>1, StoppedStands
  <2>2. CASE items[i].is # "deleted"
    <3>1. r2 = Import!Done(r1, i)
      BY <1>3, <2>2
    <3> DEFINE j == i
               q == r1
    <3>2. j = AtHand(r) /\ items[j].is # "deleted" /\ r2 = Import!Done(q, j)
          /\ q = Planned(r, j, items)
      BY <2>2, <3>1 DEF Planned
    <3> HIDE DEF j, q
    <3>3. QED
      BY <1>1, <1>2, <3>2, ReadsStands
  <2>3. QED
    BY <2>1, <2>2
<1>5. QED
  BY <1>1, <1>2, <1>4, OwnStepKeeps DEF r

LEMMA LookKeeps ==
    ASSUME KataInv, NEW w \in Importers, Import!Look(w)
    PROVE  KataInv'
<1> DEFINE r == run[w]
           r2 == Looked(r, items)
<1>1. /\ r.at = "issue" /\ r.left # {} /\ r.dry /\ run' = [run EXCEPT ![w] = r2]
      /\ UNCHANGED <<kata, items, begun, acts, settled, promise>>
  BY DEF Import!Look, Import!Issue, Import!Of, AtHand, Looked
<1>2. /\ r \in KataRuns /\ RunStands(r, items) /\ items \in KataLedgers /\ begun \in 0 .. MaxRuns
  BY KataParts
<1> HIDE DEF r, r2
<1>3. r2 \in KataRuns /\ RunStands(r2, items)
  BY <1>1, <1>2, LooksStands DEF r2
<1>4. QED
  BY <1>1, <1>2, <1>3, OwnStepKeeps DEF r

LEMMA WriteStands ==
    ASSUME NEW r \in KataRuns, NEW its \in KataLedgers, RunStands(r, its),
           r.at \in {"writes", "links"}, r.plan # <<>>, NEW i, i = Head(r.plan).of,
           Import!Accepts(its[i], Head(r.plan)), NEW y, y = WroteTo(r, its, i),
           NEW r2, r2 = (IF r.at = "writes" THEN Import!Done(Wrote(r, its, i), i) ELSE Wrote(r, its, i))
    PROVE  /\ i \in Import!Issues /\ r2 \in KataRuns
           /\ Put(its, i, y) \in KataLedgers /\ LedgerGrown(its, Put(its, i, y))
           /\ RunStands(r2, Put(its, i, y))
<1>2. Sound(r, its) /\ Ordered(r, its)
  BY DEF RunStands, Sound
<1>3. Head(r.plan) \in KataSends /\ \E n \in DOMAIN r.plan : r.plan[n] = Head(r.plan)
  BY <1>2, NextWrite
<1>4. i \in Import!Issues
  BY <1>3 DEF KataSends
<1>5. r.at = "writes" => i = AtHand(r)
  BY <1>2, <1>3 DEF Ordered
<1>7. CASE r.at = "writes"
  <2>1. i = AtHand(r) /\ Import!Accepts(its[AtHand(r)], Head(r.plan))
    BY <1>5, <1>7
  <2>2. /\ Import!Done(Wrote(r, its, AtHand(r)), AtHand(r)) \in KataRuns
        /\ Put(its, AtHand(r), WroteTo(r, its, AtHand(r))) \in KataLedgers
        /\ LedgerGrown(its, Put(its, AtHand(r), WroteTo(r, its, AtHand(r))))
        /\ RunStands(Import!Done(Wrote(r, its, AtHand(r)), AtHand(r)),
                     Put(its, AtHand(r), WroteTo(r, its, AtHand(r))))
    BY <1>7, <2>1, WritesStands
  <2>3. QED
    BY <1>4, <1>7, <2>1, <2>2
<1>8. CASE r.at = "links"
  BY <1>4, <1>8, LinkStands
<1>9. QED
  BY <1>7, <1>8

LEMMA WriteKeeps ==
    ASSUME KataInv, NEW w \in Importers, Import!Write(w)
    PROVE  KataInv'
<1> DEFINE r == run[w]
           u == Head(r.plan)
           i == u.of
           y == WroteTo(r, items, i)
           r2 == IF r.at = "writes" THEN Import!Done(Wrote(r, items, i), i) ELSE Wrote(r, items, i)
           rn1 == [v \in Importers |-> IF v = w \/ y = items[i] THEN run[v]
                                       ELSE [run[v] EXCEPT !.alone = FALSE]]
<1>1. /\ r.at \in {"writes", "links"} /\ r.plan # <<>>
      /\ UNCHANGED <<kata, begun, acts, settled>>
  BY DEF Import!Write
<1>2. /\ kata \in DOMAIN KataWrites /\ begun \in 0 .. MaxRuns /\ acts \in 0 .. MaxActs
      /\ items \in KataLedgers /\ run \in [Importers -> KataRuns]
      /\ settled \in SUBSET DOMAIN KataWrites /\ promise \in KataPromises
      /\ r \in KataRuns /\ RunStands(r, items)
      /\ \A v \in Importers : RunStands(run[v], items)
      /\ Kept(items, settled, promise)
  BY KataParts
<1>3. CASE Import!Accepts(items[i], u)
  <2>1. /\ items' = [items EXCEPT ![i] = y]
        /\ promise' = IF y = items[i] THEN promise ELSE Import!NoPromise
        /\ run' = [rn1 EXCEPT ![w] = r2]
    BY <1>3, Zenon DEF Import!Write, Import!Store, Import!OthersOf, Importers, Wrote, WroteTo
  <2>2. run' = Writer(run, w, items[i], y, r2)
    BY <2>1 DEF Writer
  <2>3. items' = Put(items, i, y) /\ promise' = WordOf(promise, items[i], y)
    BY <2>1 DEF Put, WordOf
  <2>4. /\ i \in Import!Issues /\ r2 \in KataRuns /\ Put(items, i, y) \in KataLedgers
        /\ LedgerGrown(items, Put(items, i, y)) /\ RunStands(r2, Put(items, i, y))
    BY <1>1, <1>2, <1>3, WriteStands
  <2> HIDE DEF r, u, i, y, r2, rn1
  <2>5. AllStand(Writer(run, w, items[i], y, r2), Put(items, i, y), settled,
                 WordOf(promise, items[i], y))
    BY <1>2, <2>4, OneStores
  <2>6. AllStand(run', items', settled, promise')
    BY <2>2, <2>3, <2>5
  <2>7. QED
    BY <1>1, <1>2, <2>3, <2>4, <2>6, KataNext DEF AllStand
<1>4. CASE ~Import!Accepts(items[i], u)
  <2> DEFINE q == [r EXCEPT !.at = "refused"]
  <2>1. /\ u.do = "state" /\ run' = [run EXCEPT ![w] = q]
        /\ UNCHANGED <<items, promise>>
    BY <1>2, <1>4 DEF Import!Write
  <2>2. r.at = "writes"
    <3>1. Ordered(r, items)
      BY <1>2 DEF RunStands, Sound
    <3>2. \E n \in DOMAIN r.plan : r.plan[n] = u
      BY <1>1, <1>2, <3>1, NextWrite
    <3>3. QED
      BY <1>1, <2>1, <3>1, <3>2 DEF Ordered
  <2> HIDE DEF r
  <2>3. q \in KataRuns /\ RunStands(q, items)
    BY <1>2, <2>1, <2>2, RefusedStands
  <2> HIDE DEF q
  <2>4. QED
    BY <1>1, <1>2, <2>1, <2>3, OwnStepKeeps
<1>5. QED
  BY <1>3, <1>4

LEMMA RereadKeeps ==
    ASSUME KataInv, NEW w \in Importers, Import!Reread(w)
    PROVE  KataInv'
<1> DEFINE r == run[w]
           u == Head(r.plan)
           i == u.of
           r1 == [r EXCEPT !.at = "writes", !.plan = Tail(r.plan)]
           r2 == IF items[i].is # "deleted" /\ items[i].state = u.to
                 THEN Import!Done(r1, i) ELSE Import!Stopped(r)
<1>1. /\ r.at = "refused" /\ run' = [run EXCEPT ![w] = r2]
      /\ UNCHANGED <<kata, items, begun, acts, settled, promise>>
  BY DEF Import!Reread
<1>2. /\ r \in KataRuns /\ RunStands(r, items) /\ items \in KataLedgers /\ begun \in 0 .. MaxRuns
  BY KataParts
<1>3. /\ u = Head(r.plan) /\ i = u.of /\ r1 = [r EXCEPT !.at = "writes", !.plan = Tail(r.plan)]
      /\ r2 = IF items[i].is # "deleted" /\ items[i].state = u.to
              THEN Import!Done(r1, i) ELSE Import!Stopped(r)
  OBVIOUS
<1> HIDE DEF r, u, i, r1, r2
<1>4. r2 \in KataRuns /\ RunStands(r2, items)
  <2>1. CASE items[i].is # "deleted" /\ items[i].state = u.to
    <3>1. r2 = Import!Done(r1, i)
      BY <1>3, <2>1
    <3>2. QED
      BY <1>1, <1>2, <1>3, <2>1, <3>1, RereadStands DEF Skipped
  <2>2. CASE ~(items[i].is # "deleted" /\ items[i].state = u.to)
    BY <1>2, <1>3, <2>2, StoppedStands
  <2>3. QED
    BY <2>1, <2>2
<1>5. QED
  BY <1>1, <1>2, <1>4, OwnStepKeeps DEF r

LEMMA StopKeeps ==
    ASSUME KataInv, NEW w \in Importers, Import!Stop(w)
    PROVE  KataInv'
<1> DEFINE r == run[w]
           r2 == Import!Stopped(r)
<1>1. /\ run' = [run EXCEPT ![w] = r2] /\ UNCHANGED <<kata, items, begun, acts, settled, promise>>
  BY DEF Import!Stop
<1>2. r \in KataRuns /\ begun \in 0 .. MaxRuns
  BY KataParts
<1> HIDE DEF r
<1>3. r2 \in KataRuns /\ RunStands(r2, items)
  BY <1>2, StoppedStands
<1> HIDE DEF r2
<1>4. QED
  BY <1>1, <1>2, <1>3, OwnStepKeeps

LEMMA SecondPassKeeps ==
    ASSUME KataInv, NEW w \in Importers, Import!SecondPass(w)
    PROVE  KataInv'
<1> DEFINE r == run[w]
           plan == Import!Links(KataWrites[r.export], r.here)
           q == [r EXCEPT !.at = "links", !.plan = plan]
           c == [r EXCEPT !.at = "links", !.plan = <<>>, !.tally = Import!Add(r.tally, plan)]
<1>1. /\ r.at = "issue" /\ r.left = {}
      /\ UNCHANGED <<kata, items, begun, acts, settled, promise>>
      /\ run' = [run EXCEPT ![w].at = "links", ![w].plan = IF r.dry THEN <<>> ELSE plan,
                            ![w].tally = IF r.dry THEN Import!Add(@, plan) ELSE @]
  BY DEF Import!SecondPass, Import!Of
<1>2. /\ r \in KataRuns /\ RunStands(r, items) /\ items \in KataLedgers /\ begun \in 0 .. MaxRuns
      /\ run \in [Importers -> KataRuns]
  BY KataParts
<1>3. CASE r.dry
  <2>1. run' = [run EXCEPT ![w] = c]
    <3> DEFINE t == Import!Add(r.tally, plan)
    <3>1. run' = [run EXCEPT ![w].at = "links", ![w].plan = <<>>, ![w].tally = t]
      BY <1>1, <1>2, <1>3
    <3>2. c = [r EXCEPT !.at = "links", !.plan = <<>>, !.tally = t]
      OBVIOUS
    <3> HIDE DEF t, c
    <3>3. QED
      BY <1>2, <3>1, <3>2
  <2>2. c = [r EXCEPT !.at = "links", !.plan = <<>>,
                      !.tally = Import!Add(r.tally, Import!Links(KataWrites[r.export], r.here))]
    OBVIOUS
  <2> HIDE DEF r, c
  <2>3. c \in KataRuns /\ RunStands(c, items)
    BY <1>1, <1>2, <1>3, <2>2, CountsStands
  <2>4. QED
    BY <1>1, <1>2, <2>1, <2>3, OwnStepKeeps
<1>4. CASE ~r.dry
  <2>1. run' = [run EXCEPT ![w] = q]
    <3>1. run' = [run EXCEPT ![w].at = "links", ![w].plan = plan, ![w].tally = @]
      BY <1>1, <1>2, <1>4
    <3> HIDE DEF plan
    <3>2. QED
      BY <1>2, <3>1 DEF KataRuns
  <2>2. plan = Import!Links(KataWrites[r.export], r.here) /\ q = [r EXCEPT !.at = "links", !.plan = plan]
    OBVIOUS
  <2> HIDE DEF r, plan, q
  <2>3. q \in KataRuns /\ RunStands(q, items)
    BY <1>1, <1>2, <1>4, <2>2, PassesStands
  <2>4. QED
    BY <1>1, <1>2, <2>1, <2>3, OwnStepKeeps
<1>5. QED
  BY <1>3, <1>4

LEMMA StartKeeps ==
    ASSUME KataInv, NEW w \in Importers, NEW dry \in BOOLEAN, Import!Start(w, dry)
    PROVE  KataInv'
<1> DEFINE r2 == [at |-> "issue", export |-> kata, dry |-> dry,
                  left |-> {i \in Import!Issues : ~KataWrites[kata].issues[i].deleted},
                  here |-> <<>>, plan |-> <<>>, tally |-> Import!Nothing, calm |-> TRUE,
                  alone |-> TRUE, again |-> kata \in settled,
                  said |-> IF ~dry /\ promise.export = kata THEN promise.tally ELSE Import!Nothing]
<1>1. /\ run' = [run EXCEPT ![w] = r2] /\ begun < MaxRuns /\ begun' = begun + 1
      /\ UNCHANGED <<kata, items, acts, settled, promise>>
  BY DEF Import!Start
<1>2. /\ kata \in DOMAIN KataWrites /\ items \in KataLedgers /\ begun \in 0 .. MaxRuns
      /\ settled \in SUBSET DOMAIN KataWrites /\ promise \in KataPromises
      /\ Kept(items, settled, promise)
  BY KataParts
<1>3. begun' \in 0 .. MaxRuns
  BY <1>1, <1>2, ImportNumbers
<1>4. r2 \in KataRuns /\ RunStands(r2, items)
  BY <1>2, StartsStand
<1> HIDE DEF r2
<1>5. QED
  BY <1>1, <1>3, <1>4, OwnStepKeeps

LEMMA FinishHolds ==
    ASSUME KataInv, NEW w \in Importers, Import!Finish(w)
    PROVE  KataInv'
<1> DEFINE r == run[w]
           r2 == Import!Stopped(r)
           done2 == DoneBy(r, settled)
           word2 == WordBy(r, items, promise)
<1>1. /\ r.at = "links" /\ r.plan = <<>> /\ run' = [run EXCEPT ![w] = r2]
      /\ settled' = done2 /\ promise' = word2
      /\ UNCHANGED <<kata, items, begun, acts>>
  BY DEF Import!Finish, Import!Finished, Import!Of, DoneBy, WordBy
<1>2. /\ kata \in DOMAIN KataWrites /\ begun \in 0 .. MaxRuns /\ acts \in 0 .. MaxActs
      /\ items \in KataLedgers /\ run \in [Importers -> KataRuns]
      /\ settled \in SUBSET DOMAIN KataWrites /\ promise \in KataPromises
      /\ r \in KataRuns /\ RunStands(r, items)
      /\ \A v \in Importers : RunStands(run[v], items)
      /\ Kept(items, settled, promise)
  BY KataParts
<1> HIDE DEF r
<1>4. done2 \in SUBSET DOMAIN KataWrites /\ word2 \in KataPromises /\ Kept(items, done2, word2)
  BY <1>1, <1>2, FinishKeeps
<1> HIDE DEF done2, word2
<1>5. r2 \in KataRuns /\ RunStands(r2, items)
  BY <1>2, StoppedStands
<1> HIDE DEF r2
<1>6. run' \in [Importers -> KataRuns] /\ \A v \in Importers : RunStands(run'[v], items)
  BY <1>1, <1>2, <1>5, OneGoesOn
<1>7. /\ \A v \in Importers : RunStands(run'[v], items')
      /\ Kept(items', settled', promise')
  BY <1>1, <1>4, <1>6
<1>8. QED
  BY <1>1, <1>2, <1>4, <1>6, <1>7, KataNext

LEMMA MovesOnKeeps ==
    ASSUME KataInv, Import!KataMovesOn
    PROVE  KataInv'
<1>1. /\ kata < Len(KataWrites) /\ kata' = kata + 1
      /\ UNCHANGED <<items, run, begun, acts, settled, promise>>
  BY DEF Import!KataMovesOn
<1>2. kata' \in DOMAIN KataWrites
  BY <1>1, KataParts, ImportNumbers
<1>3. QED
  BY <1>1, <1>2 DEF KataInv

LEMMA ActsKeep ==
    ASSUME KataInv, NEW i \in Import!Issues, NEW y \in Import!Acts(items[i]), Import!PersonActs(i, y)
    PROVE  KataInv'
<1>1. /\ acts < MaxActs /\ acts' = acts + 1 /\ items[i].is \in {"open", "closed"}
      /\ items' = [items EXCEPT ![i] = y]
      /\ run' = [w \in Importers |-> [run[w] EXCEPT !.calm = FALSE, !.alone = FALSE]]
      /\ settled' = {} /\ promise' = Import!NoPromise /\ kata' = kata /\ begun' = begun
  BY DEF Import!PersonActs, Importers
<1>2. /\ kata \in DOMAIN KataWrites /\ begun \in 0 .. MaxRuns /\ acts \in 0 .. MaxActs
      /\ items \in KataLedgers
      /\ \A v \in Importers : run[v] \in KataRuns /\ RunStands(run[v], items)
  BY KataParts
<1>3. acts' \in 0 .. MaxActs
  <2>1. acts \in 0 .. MaxActs /\ acts < MaxActs /\ acts' = acts + 1
    BY <1>1, <1>2
  <2>2. MaxActs \in Nat
    BY ImportNumbers
  <2>3. QED
    BY <2>1, <2>2
<1> DEFINE its2 == [items EXCEPT ![i] = y]
<1>4. ASSUME NEW w \in Importers
      PROVE  /\ run'[w] \in KataRuns /\ its2 \in KataLedgers /\ RunStands(run'[w], its2)
  <2> DEFINE r == run[w]
             r2 == [r EXCEPT !.calm = FALSE, !.alone = FALSE]
  <2>1. run'[w] = r2 /\ r \in KataRuns /\ RunStands(r, items)
    BY <1>1, <1>2
  <2> HIDE DEF r
  <2>2. r2 = [r EXCEPT !.calm = FALSE, !.alone = FALSE] /\ its2 = [items EXCEPT ![i] = y]
    OBVIOUS
  <2> HIDE DEF r2, its2
  <2>3. r2 \in KataRuns /\ its2 \in KataLedgers /\ RunStands(r2, its2)
    BY <1>1, <1>2, <2>1, <2>2, ActsStand
  <2>4. QED
    BY <2>1, <2>3
<1>5. its2 \in KataLedgers
  <2> HIDE DEF its2
  <2>1. import1 \in Importers
    BY DEF Importers
  <2>2. QED
    BY <1>4, <2>1
<1>6. items' = its2
  BY <1>1
<1> HIDE DEF its2
<1>7. run' \in [Importers -> KataRuns]
  <2>1. \A w \in Importers : run'[w] \in KataRuns
    BY <1>4
  <2>2. run' = [w \in Importers |-> run'[w]]
    BY <1>1
  <2>3. QED
    BY <2>1, <2>2
<1>8. \A w \in Importers : RunStands(run'[w], items')
  BY <1>4, <1>6
<1>9. settled' \in SUBSET DOMAIN KataWrites /\ promise' \in KataPromises
      /\ Kept(items', settled', promise')
  BY <1>1 DEF Kept, Import!NoPromise, KataPromises, Import!Nothing, Tallies
<1>10. QED
  BY <1>1, <1>2, <1>3, <1>5, <1>6, <1>7, <1>8, <1>9, KataNext

LEMMA KataStep ==
    ASSUME KataInv, Import!Next
    PROVE  KataInv'
<1>1. CASE \E w \in Importers :
             \/ Import!FileKeyed(w) \/ Import!Read(w) \/ Import!Look(w) \/ Import!Write(w)
             \/ Import!Reread(w) \/ Import!Stop(w) \/ Import!SecondPass(w) \/ Import!Finish(w)
             \/ \E dry \in BOOLEAN : Import!Start(w, dry)
  BY <1>1, FileKeyedKeeps, ReadKeeps, LookKeeps, WriteKeeps, RereadKeeps, StopKeeps,
     SecondPassKeeps, FinishHolds, StartKeeps
<1>2. CASE Import!KataMovesOn
  BY <1>2, MovesOnKeeps
<1>3. CASE \E i \in Import!Issues : \E y \in Import!Acts(items[i]) : Import!PersonActs(i, y)
  BY <1>3, ActsKeep
<1>4. QED
  BY <1>1, <1>2, <1>3 DEF Import!Next, Importers

LEMMA KataStays ==
    ASSUME KataInv, UNCHANGED importVars
    PROVE  KataInv'
BY DEF KataInv, importVars

LEMMA KataInitial ==
    ASSUME Import!Init
    PROVE  KataInv
<1>1. /\ kata = 1 /\ items = [i \in Import!Issues |-> Import!Unfiled]
      /\ run = [w \in Importers |-> Import!NoRun]
      /\ begun = 0 /\ acts = 0 /\ settled = {} /\ promise = Import!NoPromise
  BY DEF Import!Init, Importers
<1>2. items \in KataLedgers
  <2> DEFINE x == Import!Unfiled
  <2>1. x \in KataItems
    BY FiledIs
  <2> HIDE DEF x
  <2>2. items = [i \in Import!Issues |-> x]
    BY <1>1 DEF x
  <2>3. items \in [Import!Issues -> KataItems] /\ \A i \in Import!Issues : items[i] = x
    BY <2>1, <2>2
  <2>4. QED
    BY <2>3 DEF KataLedgers, x
<1>3. Import!NoRun \in KataRuns /\ RunStands(Import!NoRun, items)
  <2> DEFINE q == Import!NoRun
  <2>1. \E r \in KataRuns : r.export = 1
    <3>1. Import!NoPromise \in KataPromises
      BY DEF Import!NoPromise, KataPromises, Import!Nothing, Tallies
    <3>2. Kept(items, {}, Import!NoPromise) /\ {} \in SUBSET DOMAIN KataWrites
      BY DEF Kept, Import!NoPromise
    <3>3. 1 \in DOMAIN KataWrites
      BY ImportNumbers
    <3> DEFINE r2 == [at |-> "issue", export |-> 1, dry |-> TRUE,
                      left |-> {i \in Import!Issues : ~KataWrites[1].issues[i].deleted},
                      here |-> <<>>, plan |-> <<>>, tally |-> Import!Nothing, calm |-> TRUE,
                      alone |-> TRUE, again |-> 1 \in {},
                      said |-> IF ~TRUE /\ Import!NoPromise.export = 1
                               THEN Import!NoPromise.tally ELSE Import!Nothing]
    <3>4. r2 \in KataRuns
      BY <1>2, <3>1, <3>2, <3>3, StartsStand
    <3>5. r2.export = 1
      OBVIOUS
    <3> HIDE DEF r2
    <3>6. QED
      BY <3>4, <3>5
  <2>2. PICK r \in KataRuns : r.export = 1
    BY <2>1
  <2>3. Import!Stopped(r) = q
    <3> DEFINE nothing == Import!Nothing
    <3>1. q = [at |-> "over", export |-> 1, dry |-> FALSE, left |-> {}, here |-> <<>>,
               plan |-> <<>>, tally |-> nothing, calm |-> FALSE, alone |-> FALSE,
               again |-> FALSE, said |-> nothing]
      BY DEF Import!NoRun
    <3>2. Import!Stopped(r) = [q EXCEPT !.export = 1]
      BY <2>2 DEF Import!Stopped
    <3> HIDE DEF q, nothing
    <3>3. QED
      BY <3>1, <3>2
  <2> HIDE DEF q
  <2>4. q \in KataRuns /\ RunStands(q, items)
    BY <2>3, StoppedStands
  <2>5. QED
    BY <2>4 DEF q
<1>4. run \in [Importers -> KataRuns] /\ \A w \in Importers : RunStands(run[w], items)
  <2> DEFINE q == Import!NoRun
  <2>1. run = [w \in Importers |-> q] /\ q \in KataRuns /\ RunStands(q, items)
    BY <1>1, <1>3
  <2> HIDE DEF q
  <2>2. QED
    BY <2>1
<1>5. Kept(items, settled, promise) /\ promise \in KataPromises
  BY <1>1 DEF Kept, Import!NoPromise, KataPromises, Import!Nothing, Tallies
<1>6. /\ kata \in DOMAIN KataWrites /\ begun \in 0 .. MaxRuns /\ acts \in 0 .. MaxActs
      /\ settled \subseteq DOMAIN KataWrites
  BY <1>1, ImportNumbers
<1>7. QED
  BY <1>2, <1>4, <1>5, <1>6 DEF KataInv

-----------------------------------------------------------------------------
(* What the invariant of an import says of its runs.                       *)

\* No run of an import takes anything from an item.
LEMMA ImportsTakeNothing ==
    ASSUME KataInv, Import!Next, acts' = acts
    PROVE  LedgerGrown(items, items')
<1>0. items \in KataLedgers /\ acts \in 0 .. MaxActs
  BY KataParts
<1>1. ASSUME NEW w \in Importers, Import!FileKeyed(w)
      PROVE  LedgerGrown(items, items')
  <2> DEFINE i == AtHand(run[w])
             y == Import!Appended(items[i])
  <2>1. items' = [items EXCEPT ![i] = y]
    BY <1>1 DEF Import!FileKeyed, Import!Store, Import!Issue, AtHand
  <2>2. y = IF items[i].is = "none" THEN Import!Filed ELSE items[i]
    BY DEF Import!Appended
  <2>3. i \in Import!Issues
    BY <1>1, KataParts, AtHandIs DEF Import!FileKeyed
  <2>4. Grown(items[i], y)
    BY <1>0, <2>2, <2>3, GrownSelf, FiledIs DEF KataLedgers
  <2> HIDE DEF i, y
  <2>5. ASSUME NEW j \in Import!Issues
        PROVE  Grown(items[j], items'[j])
    <3>1. CASE j = i
      BY <1>0, <2>1, <2>4, <3>1 DEF KataLedgers
    <3>2. CASE j # i
      <4>1. items'[j] = items[j]
        BY <1>0, <2>1, <3>2 DEF KataLedgers
      <4>2. QED
        BY <4>1, GrownSelf
    <3>3. QED
      BY <3>1, <3>2
  <2>6. QED
    BY <2>5 DEF LedgerGrown
<1>2. ASSUME NEW w \in Importers, Import!Write(w)
      PROVE  LedgerGrown(items, items')
  <2> DEFINE r == run[w]
             i == Head(r.plan).of
             y == WroteTo(r, items, i)
             r2 == IF r.at = "writes" THEN Import!Done(Wrote(r, items, i), i) ELSE Wrote(r, items, i)
  <2>1. CASE Import!Accepts(items[i], Head(r.plan))
    <3>1. items' = Put(items, i, y) /\ r.at \in {"writes", "links"} /\ r.plan # <<>>
      BY <1>2, <2>1, Zenon DEF Import!Write, Import!Store, WroteTo, Put
    <3>2. r \in KataRuns /\ RunStands(r, items)
      BY KataParts
    <3>3. r2 = (IF r.at = "writes" THEN Import!Done(Wrote(r, items, i), i) ELSE Wrote(r, items, i))
          /\ i = Head(r.plan).of /\ y = WroteTo(r, items, i)
      OBVIOUS
    <3> HIDE DEF r, r2, i, y
    <3>4. LedgerGrown(items, Put(items, i, y))
      BY <1>0, <2>1, <3>1, <3>2, <3>3, WriteStands
    <3>5. QED
      BY <3>1, <3>4
  <2>2. CASE ~Import!Accepts(items[i], Head(r.plan))
    <3>1. items' = items
      BY <1>2, <2>2 DEF Import!Write
    <3>2. QED
      BY <3>1, KeptsUnchanged
  <2>3. QED
    BY <2>1, <2>2
<1>3. ASSUME NEW w \in Importers,
             \/ Import!Read(w) \/ Import!Look(w) \/ Import!Reread(w) \/ Import!Stop(w)
             \/ Import!SecondPass(w) \/ Import!Finish(w)
             \/ \E dry \in BOOLEAN : Import!Start(w, dry)
      PROVE  LedgerGrown(items, items')
  <2>1. items' = items
    BY <1>3 DEF Import!Read, Import!Look, Import!Reread, Import!Stop, Import!SecondPass,
                Import!Finish, Import!Start
  <2>2. QED
    BY <2>1, KeptsUnchanged
<1>4. ASSUME Import!KataMovesOn
      PROVE  LedgerGrown(items, items')
  <2>1. items' = items
    BY <1>4 DEF Import!KataMovesOn
  <2>2. QED
    BY <2>1, KeptsUnchanged
<1>5. ASSUME NEW i \in Import!Issues, NEW y \in Import!Acts(items[i]), Import!PersonActs(i, y)
      PROVE  FALSE
  <2>1. acts' = acts + 1
    BY <1>5 DEF Import!PersonActs
  <2>2. QED
    BY <1>0, <2>1
<1>6. CASE \E w \in Importers :
             \/ Import!FileKeyed(w) \/ Import!Read(w) \/ Import!Look(w) \/ Import!Write(w)
             \/ Import!Reread(w) \/ Import!Stop(w) \/ Import!SecondPass(w) \/ Import!Finish(w)
             \/ \E dry \in BOOLEAN : Import!Start(w, dry)
  BY <1>1, <1>2, <1>3, <1>6
<1>7. QED
  BY <1>4, <1>5, <1>6 DEF Import!Next, Importers

LEMMA KataTypes ==
    ASSUME KataInv
    PROVE  Import!TypeOK
<1>1. /\ kata \in DOMAIN KataWrites /\ begun \in 0 .. MaxRuns /\ acts \in 0 .. MaxActs
      /\ settled \subseteq DOMAIN KataWrites /\ promise.export \in {0} \cup DOMAIN KataWrites
  BY KataParts DEF KataPromises
<1>2. ASSUME NEW i \in Import!Issues
      PROVE  /\ items[i].is \in {"none", "open", "closed", "deleted"}
             /\ items[i].claim \in {"nobody", "mine", "someone"}
             /\ (items[i].is = "none" => items[i] = Import!Unfiled)
  <2>1. items[i] \in KataItems /\ (items[i].is = "none" => items[i] = Import!Unfiled)
    BY KataParts DEF KataLedgers
  <2>2. QED
    BY <2>1 DEF KataItems
<1>3. ASSUME NEW w \in Importers
      PROVE  /\ run[w].at \in {"over", "issue", "read", "writes", "refused", "links"}
             /\ (run[w].dry => run[w].plan = <<>>)
  <2>1. run[w] \in KataRuns /\ Ordered(run[w], items)
    BY KataParts DEF RunStands, Sound
  <2>2. QED
    BY <2>1 DEF KataRuns, Ordered
<1>4. QED
  BY <1>1, <1>2, <1>3 DEF Import!TypeOK, Importers

LEMMA KataFinishes ==
    ASSUME KataInv
    PROVE  Import!FinishedIsImported
<1>1. SUFFICES ASSUME NEW w \in Importers, Import!Finished(w), run[w].calm, ~run[w].dry,
                      NEW i \in Import!Issues
               PROVE  Import!Imported(Import!Of(w), i)
  BY DEF Import!FinishedIsImported, Importers
<1> DEFINE r == run[w]
           e == r.export
           s == KataWrites[e].issues[i]
           x == items[i]
<1>2. r.at = "links" /\ r.plan = <<>> /\ r.calm /\ ~r.dry
  BY <1>1 DEF Import!Finished
<1>3. Ordered(r, items) /\ Owing(r, items) /\ r.left = {}
  <2>1. Ordered(r, items) /\ Owing(r, items)
    BY KataParts DEF RunStands, Sound
  <2>2. QED
    BY <1>2, <2>1 DEF Ordered
<1>4. CASE s.deleted
  BY <1>4 DEF Import!Imported, Import!Of
<1>5. CASE ~s.deleted
  <2>1. i \in Undeleted(e)
    BY <1>5 DEF Undeleted
  <2>2. Owed(i, s, x, <<>>) /\ LinksOwed(KataWrites[e], items, i, <<>>)
    BY <1>2, <1>3, <2>1 DEF Owing, There
  <2>3. CASE x.is = "deleted"
    BY <2>3 DEF Import!Imported, Import!Of
  <2>4. CASE x.is # "deleted"
    <3>1. /\ x.is # "none" /\ s.comments \subseteq x.comments
          /\ s.closed => x.is = "closed"
          /\ x.is = "open" /\ ~s.closed /\ s.owner = "mine" => x.claim # "nobody"
          /\ x.is = "open" /\ ~s.closed /\ s.owner = "other" => x.marked /\ x.deferred
          /\ x.is = "open" /\ s.state # "filed" => x.state # "filed"
      BY <2>2, <2>4, NoneInPlan, Zenon DEF Owed
    <3>2. x.is = "open" => ~s.closed
      BY <3>1
    <3>3. \A l \in KataWrites[e].links :
             l[1] = i /\ ~KataWrites[e].issues[l[2]].deleted /\ items[l[2]].is # "deleted" =>
                l[2] \in x.links
      BY <2>2, <2>4, NoneInPlan DEF LinksOwed
    <3>4. Import!Of(w) = KataWrites[e]
      BY DEF Import!Of
    <3>5. QED
      BY <3>1, <3>2, <3>3, <3>4 DEF Import!Imported
  <2>5. QED
    BY <2>3, <2>4
<1>6. QED
  BY <1>4, <1>5

LEMMA KataRepeats ==
    ASSUME KataInv
    PROVE  Import!AgainIsNothing
<1>1. SUFFICES ASSUME NEW w \in Importers, run[w].again, run[w].calm,
                      run[w].dry => \A i \in Import!Issues : items[i].is # "deleted"
               PROVE  /\ run[w].plan = <<>>
                      /\ run[w].tally = [Import!Nothing EXCEPT !.already = run[w].tally.already]
  BY DEF Import!AgainIsNothing, Importers
<1>2. Repeating(run[w], items)
  BY KataParts DEF RunStands
<1>3. run[w].dry => NoneDeleted(items)
  BY <1>1 DEF NoneDeleted
<1>4. run[w].plan = <<>> /\ OnlyAlready(run[w].tally)
  BY <1>1, <1>2, <1>3 DEF Repeating
<1>5. QED
  BY <1>4 DEF OnlyAlready

LEMMA KataForetells ==
    ASSUME KataInv
    PROVE  Import!DryRunIsTrue
<1>1. SUFFICES ASSUME NEW w \in Importers, Import!Finished(w), run[w].alone,
                      run[w].said # Import!Nothing
               PROVE  run[w].tally = run[w].said
  BY DEF Import!DryRunIsTrue, Importers
<1> DEFINE r == run[w]
           e == r.export
           t == r.tally
           q == r.said
<1>2. r.at = "links" /\ r.plan = <<>> /\ r.alone /\ q # Import!Nothing
  BY <1>1 DEF Import!Finished
<1>3. r \in KataRuns /\ Ordered(r, items) /\ Owing(r, items) /\ Foretelling(r, items)
  BY KataParts DEF RunStands, Sound
<1> HIDE DEF r
<1>4. r.left = {} /\ r.calm /\ ~r.dry /\ t \in Tallies /\ q \in Tallies /\ e \in DOMAIN KataWrites
  <2>1. t \in Tallies /\ q \in Tallies /\ e \in DOMAIN KataWrites
    BY <1>3, RunParts
  <2>2. QED
    BY <1>2, <1>3, <2>1 DEF Ordered
<1>5. NoTombs(e, items) /\ ComesTo(r, items, q) /\ q.links = t.links + Cardinality(ToLink(e, items))
  BY <1>2, <1>3, <1>4 DEF Foretelling, Promised
<1>6. ASSUME NEW l \in ToLink(e, items)
      PROVE  FALSE
  <2>1. /\ l \in KataWrites[e].links /\ l[1] \in Undeleted(e) /\ l[2] \in Undeleted(e)
        /\ l[2] \notin items[l[1]].links
    BY DEF ToLink
  <2>2. LinksOwed(KataWrites[e], items, l[1], <<>>)
    BY <1>2, <1>3, <1>4, <2>1 DEF Owing
  <2>3. items[l[1]].is # "deleted" /\ items[l[2]].is # "deleted"
        /\ ~KataWrites[e].issues[l[2]].deleted
    BY <1>5, <2>1 DEF NoTombs, Undeleted
  <2>4. l[2] \in items[l[1]].links
    BY <2>1, <2>2, <2>3, NoneInPlan DEF LinksOwed
  <2>5. QED
    BY <2>1, <2>4
<1>7. Cardinality(ToLink(e, items)) = 0
  BY <1>6, FS_EmptySet
<1>8. /\ Cardinality(ToFile(items, {})) = 0 /\ Cardinality(ToFind(items, {})) = 0
      /\ Cardinality(ToComment(e, items, {})) = 0 /\ Cardinality(ToClose(e, items, {})) = 0
  BY NoneToCount
<1>9. Ahead(r) = {}
  BY <1>2, <1>4 DEF Ahead
<1>10. /\ q.filed = t.filed + 0 /\ q.already = t.already + 0 /\ q.comments = t.comments + 0
       /\ q.closed = t.closed + 0 /\ q.links = t.links + 0
  BY <1>4, <1>5, <1>7, <1>8, <1>9 DEF ComesTo
<1> HIDE DEF q, t
<1>11. /\ t.filed \in Nat /\ t.already \in Nat /\ t.comments \in Nat /\ t.closed \in Nat /\ t.links \in Nat
       /\ t = [filed |-> t.filed, already |-> t.already, comments |-> t.comments,
               closed |-> t.closed, links |-> t.links]
       /\ q = [filed |-> q.filed, already |-> q.already, comments |-> q.comments,
               closed |-> q.closed, links |-> q.links]
  BY <1>4 DEF Tallies
<1>12. q = t
  BY <1>10, <1>11
<1>13. QED
  BY <1>12 DEF q, t, r
\* The next run is due by a time the clock can tell, or it is not due.
DueBound == process.due \in 0 .. Backups!NoTime

LEMMA DueBegins ==
    ASSUME Backups!Init
    PROVE  DueBound
BY RotationNumbers DEF Backups!Init, DueBound, Backups!NoTime

LEMMA DueStep ==
    ASSUME RotInv, DueBound, Backups!Next \/ UNCHANGED backupsVars
    PROVE  DueBound'
<1>1. clock \in Nat /\ clock <= MaxClock
  <2>1. clock \in Backups!Stamps
    BY DEF RotInv, RotTyped
  <2>2. QED
    BY <2>1, RotationNumbers DEF Backups!Stamps
<1>2. /\ Backups!NoTime \in Nat
      /\ \A d \in Nat : d <= Every \/ d <= CatchUp => clock + d \in 0 .. Backups!NoTime
  BY <1>1, RotationNumbers DEF Backups!NoTime
<1>3. process'.due = process.due \/ process'.due = Backups!NoTime => DueBound'
  <2>1. Backups!NoTime' = Backups!NoTime
    BY DEF Backups!NoTime
  <2>2. QED
    BY <1>2, <2>1 DEF DueBound
<1>4. process' = process => DueBound'
  BY <1>3
<1>5. (\E d \in Nat : (d <= Every \/ d <= CatchUp) /\ process'.due = clock + d) => DueBound'
  BY <1>2 DEF DueBound, Backups!NoTime
<1>6. /\ DOMAIN process = {"up", "since", "due", "failed"}
      /\ Every \in Nat
  BY RotationNumbers DEF RotInv, RotTyped
<1>7. ASSUME NEW t \in Backups!Takers, Backups!Dump(t) PROVE DueBound'
  BY <1>3, <1>4, <1>6, <1>7 DEF Backups!Dump
<1>8. ASSUME NEW t \in Backups!Takers, Backups!Report(t) \/ Backups!Fail(t) PROVE DueBound'
  <2>1. CASE t = Timer
    <3>1. process'.due = clock + Every
      BY <1>6, <1>8, <2>1 DEF Backups!Report, Backups!Fail, Backups!End
    <3>2. QED
      BY <1>5, <1>6, <3>1
  <2>2. CASE t # Timer
    BY <1>4, <1>8, <2>2 DEF Backups!Report, Backups!Fail, Backups!End
  <2>3. QED
    BY <2>1, <2>2
<1>9. CASE Backups!Start
  <2> DEFINE delay == Backups!FirstDelay(clock, Backups!NewestTakenAt)
  <2>1. delay \in Nat /\ (delay <= CatchUp \/ delay <= Every)
    BY FirstDelayIsSoon
  <2>2. process'.due = clock + delay
    BY <1>9 DEF Backups!Start
  <2> HIDE DEF delay
  <2>3. QED
    BY <1>5, <2>1, <2>2
<1>10. CASE Backups!Stop
  BY <1>3, <1>6, <1>10 DEF Backups!Stop
<1>11. CASE Backups!Tick
  BY <1>4, <1>11 DEF Backups!Tick
<1>12. CASE UNCHANGED backupsVars
  BY <1>4, <1>12 DEF backupsVars
<1>13. ASSUME NEW t \in Backups!Takers, Backups!Step(t), ~Backups!Report(t) PROVE DueBound'
  BY <1>4, <1>13
  DEF Backups!Step, Backups!TakeStamp, Backups!LockRotation, Backups!WriteArchive,
      Backups!WriteScripts, Backups!WriteSidecar, Backups!DecidePrune, Backups!RemoveNext
<1>14. QED
  BY <1>7, <1>8, <1>9, <1>10, <1>11, <1>12, <1>13 DEF Backups!Next

LEMMA RotTypes ==
    ASSUME RotInv, DueBound
    PROVE  Backups!TypeOK
<1>1. /\ clock \in Backups!Stamps
      /\ {archive, scripts, sidecar} \subseteq [Backups!Stamps -> 0 .. Backups!NoBackup]
      /\ process.due \in 0 .. Backups!NoTime /\ process.since \in Backups!Stamps
      /\ cut \subseteq Backups!Stamps /\ stuck \subseteq Backups!Stamps
  BY DEF RotInv, RotTyped, DueBound
<1>2. ASSUME NEW t \in Backups!Takers
      PROVE  /\ take[t] # Backups!Idle => take[t].stamp \in Backups!Stamps /\ process.up
             /\ take[t].at \in {"locked", "archived", "scripted", "published", "pruning"}
                   <=> rotation = t
  <2>1. take[t] \in {Backups!Idle} \union Taking
    BY DEF RotInv, RotTyped
  <2>2. AloneAt(take[t], t)
    BY DEF RotInv, Alone
  <2>3. take[t] # Backups!Idle => take[t].stamp \in Backups!Stamps
    BY <2>1 DEF Taking
  <2>4. QED
    BY <2>2, <2>3 DEF AloneAt, Holding
<1>3. QED
  BY <1>1, <1>2 DEF Backups!TypeOK

\* What is being built for a restore is there from its beginning.
IntoTypedInv ==
    /\ Into!TypeOK
    /\ \A r \in TwoStores : at[r] \in {"loading", "verified"} => Into!There(staging[r])

LEMMA IntoTypedBegins ==
    ASSUME Into!Init
    PROVE  IntoTypedInv
<1>1. at = [r \in Into!Restores |-> "asked"] /\ staging = [r \in TwoStores |-> Into!Absent]
      /\ created = {} /\ good \in SUBSET Into!Restores /\ parent \in BOOLEAN
      /\ into \in {Into!Absent, {}} /\ (Into!There(into) => parent)
  BY DEF Into!Init, TwoStores
<1>2. Into!There(into) => into = {}
  BY <1>1 DEF Into!There
<1>3. \A r \in TwoStores : at[r] = "asked" /\ ~Into!There(staging[r])
  BY <1>1, IntoApart DEF Into!There
<1>4. QED
  BY <1>1, <1>2, <1>3 DEF IntoTypedInv, Into!TypeOK, TwoStores

\* A part of a restore is not what stands for a directory that is not there.
LEMMA BuiltIsThere ==
    ASSUME NEW r \in Into!Restores, NEW p, NEW S
    PROVE  Into!There(S \union {<<r, p>>})
<1>1. r # stranger
  BY IntoApart DEF Into!Restores
<1>2. <<r, p>> \notin Into!Absent
  BY <1>1 DEF Into!Absent
<1>3. QED
  BY <1>2 DEF Into!There

LEMMA EmptyIsThere == Into!There({})
BY DEF Into!There, Into!Absent

LEMMA IntoTypedStep ==
    ASSUME IntoInv, IntoTypedInv, Into!Next \/ UNCHANGED intoVars
    PROVE  IntoTypedInv'
<1> DEFINE Parts == {"first", "second"}
           InDir(d) == Into!There(d) =>
                          d \subseteq (Into!Restores \X Parts) \union {<<stranger, "file">>}
<1>0. /\ parent \in BOOLEAN /\ created \subseteq TwoStores /\ good \subseteq Into!Restores
      /\ InDir(into) /\ (Into!There(into) => parent)
      /\ \A r \in TwoStores : /\ Into!There(staging[r]) => staging[r] \subseteq Into!Whole(r) /\ parent
                              /\ at[r] \in {"loading", "verified"} => Into!There(staging[r])
      /\ at = [r \in Into!Restores |-> at[r]] /\ staging = [r \in TwoStores |-> staging[r]]
  BY DEF IntoTypedInv, Into!TypeOK, IntoInv, TwoStores
<1>1. /\ parent' \in BOOLEAN /\ created' \subseteq TwoStores /\ good' \subseteq Into!Restores
      /\ InDir(into') /\ (Into!There(into') => parent')
      /\ \A r \in TwoStores :
            /\ Into!There(staging'[r]) => staging'[r] \subseteq Into!Whole(r) /\ parent'
            /\ at'[r] \in {"loading", "verified"} => Into!There(staging'[r])
      => IntoTypedInv'
  BY DEF IntoTypedInv, Into!TypeOK, TwoStores, Into!There, Into!Whole, Into!Restores, Into!Absent
<1> HIDE DEF InDir
<1>2. CASE UNCHANGED intoVars
  BY <1>0, <1>1, <1>2 DEF intoVars
<1>3. ASSUME NEW q \in Into!Restores, Into!Check(q) \/ Into!Look(q) \/ Into!MakeParent(q)
      PROVE  IntoTypedInv'
  <2>1. /\ parent' \in BOOLEAN /\ (parent => parent') /\ created' \subseteq TwoStores
        /\ into' = into /\ staging' = staging /\ good' = good
    BY <1>0, <1>3 DEF Into!Check, Into!Look, Into!MakeParent, TwoStores
  <2>2. \A r \in TwoStores : at'[r] \in {"loading", "verified"} => at'[r] = at[r]
    BY <1>0, <1>3, IntoApart DEF Into!Check, Into!Look, Into!MakeParent, Into!Go
  <2>3. QED
    BY <1>0, <1>1, <2>1, <2>2
<1>4. ASSUME NEW q \in Into!Restores, Into!Begin(q) PROVE IntoTypedInv'
  <2>1. /\ parent' = parent /\ created' = created /\ into' = into /\ good' = good
        /\ at[q] = "parented"
        /\ staging' = IF parent THEN [staging EXCEPT ![q] = {}] ELSE staging
        /\ at' = [at EXCEPT ![q] = IF parent THEN "loading" ELSE "refused"]
    BY <1>4 DEF Into!Begin, Into!Go
  <2>2. \A r \in TwoStores :
            /\ Into!There(staging'[r]) => staging'[r] \subseteq Into!Whole(r) /\ parent
            /\ at'[r] \in {"loading", "verified"} => Into!There(staging'[r])
    <3>1. SUFFICES ASSUME NEW r \in TwoStores
                   PROVE  /\ Into!There(staging'[r]) => staging'[r] \subseteq Into!Whole(r) /\ parent
                          /\ at'[r] \in {"loading", "verified"} => Into!There(staging'[r])
      OBVIOUS
    <3>2. CASE r = q /\ parent
      <4>1. staging'[r] = {}
        BY <1>0, <2>1, <3>2
      <4>2. QED
        BY <3>2, <4>1, EmptyIsThere
    <3>3. CASE ~(r = q /\ parent)
      <4>1. staging'[r] = staging[r]
        BY <1>0, <2>1, <3>3
      <4>2. at'[r] \in {"loading", "verified"} => at'[r] = at[r]
        BY <1>0, <2>1, <3>3, IntoApart
      <4>3. QED
        BY <1>0, <4>1, <4>2
    <3>4. QED
      BY <3>2, <3>3
  <2>3. QED
    BY <1>0, <1>1, <2>1, <2>2
<1>5. ASSUME NEW q \in Into!Restores, NEW p \in Parts, Into!Load(q, p) PROVE IntoTypedInv'
  <2>1. /\ parent' = parent /\ created' = created /\ into' = into /\ good' = good /\ at' = at
        /\ q \in TwoStores /\ at[q] = "loading"
        /\ staging' = [staging EXCEPT ![q] = @ \union {<<q, p>>}]
    BY <1>5 DEF Into!Load, TwoStores
  <2>2. <<q, p>> \in Into!Whole(q)
    BY DEF Into!Whole
  <2>3. \A r \in TwoStores :
            staging'[r] = IF r = q THEN staging[q] \union {<<q, p>>} ELSE staging[r]
    BY <1>0, <2>1
  <2>4. Into!There(staging'[q]) /\ staging'[q] \subseteq Into!Whole(q) /\ parent
    BY <1>0, <2>1, <2>2, <2>3, BuiltIsThere
  <2>5. QED
    BY <1>0, <1>1, <2>1, <2>3, <2>4
<1>6. ASSUME NEW q \in Into!Restores, Into!Verify(q) \/ Into!ReadBack(q) \/ Into!Fail(q)
      PROVE  IntoTypedInv'
  <2>1. parent' = parent /\ created' = created /\ into' = into /\ good' = good /\ staging' = staging
    BY <1>6 DEF Into!Verify, Into!ReadBack, Into!Fail
  <2>2. \A r \in TwoStores : at'[r] \in {"loading", "verified"} => at[r] \in {"loading", "verified"}
    <3>1. SUFFICES ASSUME NEW r \in TwoStores, at'[r] \in {"loading", "verified"}
                   PROVE  at[r] \in {"loading", "verified"}
      OBVIOUS
    <3>2. CASE Into!Verify(q)
      BY <1>0, <3>1, <3>2, IntoApart DEF Into!Verify, Into!Go
    <3>3. CASE Into!ReadBack(q)
      BY <1>0, <3>1, <3>3, IntoApart DEF Into!ReadBack, Into!Go
    <3>4. CASE Into!Fail(q)
      BY <1>0, <3>1, <3>4, IntoApart DEF Into!Fail
    <3>5. QED
      BY <1>6, <3>2, <3>3, <3>4
  <2>3. QED
    BY <1>0, <1>1, <2>1, <2>2
<1>7. ASSUME NEW q \in Into!Restores, Into!Finish(q) PROVE IntoTypedInv'
  <2>1. /\ parent' = parent /\ created' = created /\ good' = good /\ at[q] = "verified"
        /\ \A r \in TwoStores : at'[r] \in {"loading", "verified"} => r # q /\ at'[r] = at[r]
    BY <1>0, <1>7, IntoApart DEF Into!Finish, Into!Go
  <2>2. q \in TwoStores
    BY <2>1, IntoApart DEF IntoInv
  <2>3. staging[q] = Into!Whole(q) /\ parent
    BY <1>0, <2>1, <2>2 DEF IntoInv
  <2>4. CASE into \notin {Into!Absent, {}}
    BY <1>0, <1>1, <1>7, <2>1, <2>4 DEF Into!Finish
  <2>5. CASE into \in {Into!Absent, {}}
    <3>1. into' = staging[q] /\ staging' = [staging EXCEPT ![q] = Into!Absent]
      BY <1>7, <2>5 DEF Into!Finish
    <3>2. InDir(into')
      BY <2>3, <3>1 DEF InDir, Into!Whole
    <3>3. \A r \in TwoStores : staging'[r] = IF r = q THEN Into!Absent ELSE staging[r]
      BY <1>0, <3>1
    <3>4. ~Into!There(Into!Absent)
      BY DEF Into!There
    <3>5. QED
      BY <1>0, <1>1, <2>1, <2>3, <3>2, <3>3, <3>4
  <2>6. QED
    BY <2>4, <2>5
<1>8. ASSUME NEW q \in Into!Restores, Into!Drop(q) PROVE IntoTypedInv'
  <2>1. /\ created' = created /\ good' = good /\ into' = into /\ q \in TwoStores
        /\ staging' = [staging EXCEPT ![q] = Into!Absent]
        /\ parent' = (parent /\ ~(/\ q \in created /\ ~Into!There(into)
                                  /\ \A s \in TwoStores \ {q} : ~Into!There(staging[s])))
    BY <1>8 DEF Into!Drop, TwoStores
  <2>2. \A r \in TwoStores : at'[r] \in {"loading", "verified"} => r # q /\ at'[r] = at[r]
    BY <1>0, <1>8, IntoApart DEF Into!Drop, Into!Go
  <2>3. \A r \in TwoStores : staging'[r] = IF r = q THEN Into!Absent ELSE staging[r]
    BY <1>0, <2>1
  <2>4. ~Into!There(Into!Absent)
    BY DEF Into!There
  <2>5. parent' \in BOOLEAN /\ (Into!There(into) => parent')
        /\ \A r \in TwoStores \ {q} : Into!There(staging[r]) => parent'
    BY <1>0, <2>1
  <2>6. QED
    BY <1>0, <1>1, <2>1, <2>2, <2>3, <2>4, <2>5
<1>9. ASSUME NEW q \in Into!Restores, NEW p \in Parts, Into!Write(q, p) PROVE IntoTypedInv'
  <2>1. /\ parent' = TRUE /\ created' = created /\ good' = good /\ at' = at /\ staging' = staging
        /\ into' = (IF Into!There(into) THEN into ELSE {}) \union {<<q, p>>}
    BY <1>9 DEF Into!Write
  <2>2. InDir(into')
    BY <1>0, <2>1 DEF InDir
  <2>3. QED
    BY <1>0, <1>1, <2>1, <2>2
<1>10. CASE Into!Intrude
  <2>1. /\ parent' = parent /\ created' = created /\ good' = good /\ at' = at /\ staging' = staging
        /\ into' = (IF Into!There(into) THEN into ELSE {}) \union {<<stranger, "file">>} /\ parent
    BY <1>10 DEF Into!Intrude
  <2>2. InDir(into')
    BY <1>0, <2>1 DEF InDir
  <2>3. QED
    BY <1>0, <1>1, <2>1, <2>2
<1>11. CASE killed = {} /\ Into!Kill
  <2>1. parent' = parent /\ created' = created /\ good' = good /\ into' = into /\ staging' = staging
        /\ \A r \in TwoStores : at'[r] \in {"loading", "verified"} => at'[r] = at[r]
    BY <1>11, IntoApart DEF Into!Kill
  <2>2. QED
    BY <1>0, <1>1, <2>1
<1>12. QED
  BY <1>2, <1>3, <1>4, <1>5, <1>6, <1>7, <1>8, <1>9, <1>10, <1>11 DEF Into!Next

LEMMA RootsTypes ==
    ASSUME RootsInv
    PROVE  Roots!TypeOK
BY DEF RootsInv, RootsTyped, Writing, Roots!TypeOK

-----------------------------------------------------------------------------
(* What is filed, and the types of all parts.                              *)

LEMMA FiledInitial ==
    ASSUME PartsInit
    PROVE  KataInv /\ KeysInv
BY KataInitial, KeysInitial DEF PartsInit

LEMMA FiledStep ==
    ASSUME KataInv, KeysInv, [PartsNext]_partsVars
    PROVE  KataInv' /\ KeysInv'
<1>1. Import!Next \/ UNCHANGED importVars
  BY DEF PartsNext, partsVars
<1>2. Keys!Next \/ UNCHANGED keysVars
  BY DEF PartsNext, partsVars
<1>3. QED
  BY <1>1, <1>2, KataStep, KataStays, KeysStep, KeysStays

\* kata.rs and keys.rs: whatever ran before and whoever files, comments, closes and deletes
\* beside it, an import that finishes leaves nothing of its export out, a second run of it
\* finds nothing to do, a dry run foretells the tally, and none undoes what a person did; a
\* key names one subject for good, no tombstone is keyed or touched, and the backfill closes
\* the gap for whatever it read. For every number of runs and of acts, and of items.
THEOREM FilingsAreOnce == PartsSpec => FiledOnce
<1>1. PartsInit => KataInv /\ KeysInv
  BY FiledInitial
<1>2. KataInv /\ KeysInv /\ [PartsNext]_partsVars => KataInv' /\ KeysInv'
  BY FiledStep
<1>3. KataInv /\ KeysInv =>
        /\ part = "import" => /\ Import!FinishedIsImported /\ Import!AgainIsNothing
                              /\ Import!DryRunIsTrue
        /\ \A iri \in KeyIris : Keys!Cardinality(Keys!Holder(iri)) <= 1
        /\ part = "keys" => Keys!GapIsClosed /\ Keys!FirstStands
  BY KataFinishes, KataRepeats, KataForetells, KeysOneHolder, KeysGap DEF KeysInv
<1>4. KataInv /\ [PartsNext]_partsVars =>
        [acts' = acts => \A i \in Import!Issues :
            /\ items[i].is = "deleted" => items'[i] = items[i]
            /\ items[i].is = "closed" => items'[i].is = "closed"
            /\ items[i].claim # "nobody" => items'[i].claim = items[i].claim
            /\ items[i].state # "filed" => items'[i].state = items[i].state
            /\ items[i].comments \subseteq items'[i].comments /\ items[i].links \subseteq items'[i].links
         ]_<<items, acts>>
  <2>1. [PartsNext]_partsVars => Import!Next \/ UNCHANGED <<items, acts>>
    BY DEF PartsNext, partsVars, importVars
  <2>2. KataInv /\ Import!Next /\ acts' = acts => LedgerGrown(items, items')
    BY ImportsTakeNothing
  <2>3. QED
    BY <2>1, <2>2 DEF LedgerGrown, Grown
<1>5. KeysInv /\ [PartsNext]_partsVars =>
        [\A n \in Keys!Numbers : subject[n].key # NoKey => subject'[n].key = subject[n].key]_(Keys!vars)
  <2>1. [PartsNext]_partsVars => Keys!Next \/ UNCHANGED Keys!vars
    BY DEF PartsNext, partsVars, keysVars, Keys!vars
  <2>2. QED
    BY <2>1, KeysStayPut
<1>6. KeysInv /\ [PartsNext]_partsVars =>
        [\A n \in Keys!Numbers : subject[n].is = "tombstone" => subject'[n] = subject[n]]_(Keys!vars)
  <2>1. [PartsNext]_partsVars => Keys!Next \/ UNCHANGED Keys!vars
    BY DEF PartsNext, partsVars, keysVars, Keys!vars
  <2>2. QED
    BY <2>1, KeysStayPut
<1>7. QED
  BY <1>1, <1>2, <1>3, <1>4, <1>5, <1>6, PTL
  DEF PartsSpec, FiledOnce, Import!PeoplesWorkStands, Keys!KeyNamesOne, Keys!TombstonesStay

\* The six parts, of which one moves.
Part == part \in {"backups", "into", "roots", "nodes", "import", "keys"}

AllInv == /\ Part /\ EntInv /\ RootsInv /\ RotInv /\ DueBound /\ IntoInv /\ IntoTypedInv
          /\ KataInv /\ KeysInv

\* The types of the six parts of the run, whichever of them moves.
THEOREM DiskTyped == PartsSpec => []PartsTypeOK
<1>1. PartsInit => AllInv
  <2>1. PartsInit => Part /\ Backups!Init /\ Into!Init
    BY DEF PartsInit, Part
  <2>2. QED
    BY <2>1, DiskInitial, BackupsInitial, FiledInitial, DueBegins, IntoTypedBegins DEF AllInv
<1>2. AllInv /\ [PartsNext]_partsVars => AllInv'
  <2>1. [PartsNext]_partsVars => /\ Backups!Next \/ UNCHANGED backupsVars
                                 /\ Into!Next \/ UNCHANGED intoVars
                                 /\ part' = part
    BY DEF PartsNext, partsVars
  <2>2. Part /\ part' = part => Part'
    BY DEF Part
  <2>3. QED
    BY <2>1, <2>2, DiskStep, BackupsStep, FiledStep, DueStep, IntoTypedStep DEF AllInv
<1>3. AllInv => PartsTypeOK
  <2>1. AllInv => /\ Part /\ TypeOK /\ Roots!TypeOK /\ Backups!TypeOK /\ Into!TypeOK
                  /\ Import!TypeOK /\ Keys!TypeOK
    BY RootsTypes, RotTypes, KataTypes, KeysTypes DEF AllInv, EntInv, EntTyped, IntoTypedInv
  <2>2. QED
    BY <2>1 DEF PartsTypeOK, Part
<1>4. QED
  BY <1>1, <1>2, <1>3, PTL DEF PartsSpec
====
