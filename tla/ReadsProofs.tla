---------------------------- MODULE ReadsProofs ----------------------------
(***************************************************************************)
(* What holds of the findings rows, the parsed files, the mounted peer and *)
(* the cached reads for any requests, writers, roots, files and bounds, of *)
(* which Reads.cfg checks small instances.                                 *)
(***************************************************************************)
EXTENDS MCReads, SequenceTheorems, TLAPS

-----------------------------------------------------------------------------
(* The findings rows.                                                      *)

Stamps == Nat \cup {NoCounter}
AnyRows == {NoRows} \cup UNION {[Of(r) -> Nat] : r \in Roots}

Kepts == [epoch : Stamps, rows : AnyRows]
Asked == [at : {"asked", "looked", "missing", "locked", "stamped", "reading", "read", "learned",
                "answered"},
          slot : Slots, stamp : Stamps, rows : AnyRows, asOf : [Findings -> Nat]]
Doings == [at : {"written", "found"}, finding : Findings, version : Nat, touches : SUBSET Roots]

Typed ==
    /\ version \in [Findings -> Nat] /\ settled \in [Findings -> Nat]
    /\ epochs \in [Roots -> Stamps]
    /\ owners \in [Findings -> Roots \cup {Nobody}]
    /\ memo \in [Slots -> Kepts]
    /\ flight \in [Slots -> Clients \cup {Nobody}]
    /\ ask \in [Clients -> {Idle} \cup Asked]
    /\ doing \in [Writers -> {Idle} \cup Doings]

\* A write is settled after it was made, and what it touches is the root of its finding.
Settling ==
    /\ \A f \in Findings : settled[f] <= version[f] /\ owners[f] \in {Nobody, RootOf[f]}
    /\ \A w \in Writers : doing[w] # Idle =>
          /\ doing[w].version <= version[doing[w].finding]
          /\ doing[w].at = "found" => RootOf[doing[w].finding] \in doing[w].touches

\* q holds the lock of its slot.
Holds(q) ==
    \/ q.at \in {"locked", "stamped"}
    \/ q.at \in {"reading", "read", "learned"} /\ q.stamp # NoCounter

Locking ==
    \A s \in Slots, c \in Clients : flight[s] = c <=> Holds(ask[c]) /\ ask[c].slot = s

\* Rows R of root r, read at epoch e, are no older than what was settled while the epoch was e:
\* that is what everyone was promised who asked before it and took the same epoch.
Covers(r, e, R) ==
    /\ R \in [Of(r) -> Nat] /\ e \in Nat /\ epochs[r] \in Nat /\ e <= epochs[r]
    /\ e = epochs[r] => \A f \in Of(r) : settled[f] <= R[f]
    /\ \A c \in Clients : ask[c] # Idle /\ ask[c].slot[1] = r /\ ask[c].stamp = e
                            => \A f \in Of(r) : ask[c].asOf[f] <= R[f]

\* What is kept in slot s.
SlotOK(s, m) ==
    m # Empty => /\ Covers(s[1], m.epoch, m.rows) /\ s[2] \in Allowed
                 /\ \A f \in Of(s[1]) : m.rows[f] <= version[f]

\* What a request has in hand.
AskOK(q) ==
    q # Idle =>
      /\ \A f \in Findings : q.asOf[f] <= settled[f]
      /\ q.stamp # NoCounter => epochs[q.slot[1]] \in Nat /\ q.stamp <= epochs[q.slot[1]]
      /\ q.at = "locked" => epochs[q.slot[1]] # NoCounter
      /\ q.at \in {"looked", "stamped", "learned"} => q.stamp # NoCounter
      /\ q.at \in {"read", "learned"} =>
            /\ q.rows \in [Of(q.slot[1]) -> Nat] /\ q.slot[2] \in Allowed
            /\ \A f \in Of(q.slot[1]) : q.rows[f] <= version[f]
            /\ \A f \in Of(q.slot[1]) : q.asOf[f] <= q.rows[f]
            /\ q.stamp # NoCounter => Covers(q.slot[1], q.stamp, q.rows)
      /\ q.at = "answered" /\ q.rows # NoRows =>
            /\ q.slot[2] \in Allowed
            /\ \A f \in Of(q.slot[1]) : q.asOf[f] <= q.rows[f]

\* What a request read under the lock is no older than what is kept.
Newer(q) ==
    q.at \in {"read", "learned"} /\ q.stamp # NoCounter /\ memo[q.slot] # Empty
        => \A f \in Of(q.slot[1]) : memo[q.slot].rows[f] <= q.rows[f]

MemoInv ==
    /\ Typed /\ Settling /\ Locking
    /\ \A s \in Slots : SlotOK(s, memo[s])
    /\ \A c \in Clients : AskOK(ask[c]) /\ Newer(ask[c])

LEMMA Distinct ==
    /\ \A r \in Roots : Of(r) \in SUBSET Findings
    /\ \A r \in Roots : NoRows \notin [Of(r) -> Nat] /\ [Of(r) -> Nat] \subseteq AnyRows
    /\ NoRows \in AnyRows /\ NoCounter \in Stamps /\ NoCounter \notin Nat /\ Nat \subseteq Stamps
    /\ \A s \in Slots : s[1] \in Roots /\ s[2] \in Grants
    /\ Idle \notin Asked /\ Idle \notin Doings /\ ~Holds(Idle)
  BY MemoConstants DEF Of, AnyRows, Stamps, Slots, Idle, Asked, Doings, Holds

LEMMA RowsImplied == MemoInv => /\ TypeOK /\ AnswerIsCurrent /\ RefusedIsRefused
                               /\ CounterIsThere
<1> SUFFICES ASSUME MemoInv
             PROVE  TypeOK /\ AnswerIsCurrent /\ RefusedIsRefused /\ CounterIsThere
  OBVIOUS
<1>1. \A c \in Clients : ask[c].at # "idle" => ask[c] \in Asked /\ ask[c] # Idle
  BY Distinct DEF MemoInv, Typed, Idle
<1>2. AnswerIsCurrent /\ RefusedIsRefused /\ CounterIsThere
  BY <1>1 DEF MemoInv, AskOK, AnswerIsCurrent, RefusedIsRefused, CounterIsThere, Root, Grant
<1>3. \A s \in Slots : memo[s] # Empty => memo[s].epoch \in Nat /\ memo[s].rows \in [Of(s[1]) -> Nat]
  BY DEF MemoInv, SlotOK, Covers
<1>4. \A c \in Clients : ask[c] # Idle =>
         /\ ask[c].at \in {"asked", "looked", "missing", "locked", "stamped", "reading",
                           "read", "learned", "answered"}
         /\ ask[c].slot \in Slots /\ ask[c].stamp \in Nat \cup {NoCounter}
  BY DEF MemoInv, Typed, Asked, Stamps
<1>5. \A s \in Slots : flight[s] # Nobody =>
          /\ ask[flight[s]].at \in {"locked", "stamped", "reading", "read", "learned"}
          /\ ask[flight[s]].slot = s
  BY DEF MemoInv, Typed, Locking, Holds
<1>6. QED
  BY <1>2, <1>3, <1>4, <1>5 DEF MemoInv, Typed, TypeOK, Stamps

LEMMA RowsInit == Init => MemoInv
<1> SUFFICES ASSUME Init PROVE MemoInv
  OBVIOUS
<1>1. Empty \in Kepts /\ \A s \in Slots : memo[s] = Empty
  BY Distinct DEF Init, Empty, Kepts
<1>2. Typed
  BY <1>1, Distinct DEF Init, Typed
<1>3. Settling
  BY DEF Init, Settling
<1>4. Locking
  BY Distinct, MemoConstants DEF Init, Locking
<1>5. \A s \in Slots : SlotOK(s, memo[s])
  BY <1>1 DEF SlotOK
<1>6. \A c \in Clients : AskOK(ask[c]) /\ Newer(ask[c])
  BY DEF Init, AskOK, Newer, Idle
<1>7. QED
  BY <1>2, <1>3, <1>4, <1>5, <1>6 DEF MemoInv

-----------------------------------------------------------------------------
(* Steps of the requests.                                                  *)

\* One request moves from what it has in hand to q.
MovesTo(c, q) ==
    /\ ask' = [ask EXCEPT ![c] = q]
    /\ UNCHANGED <<version, epochs, doing, settled>>

\* What it takes for others not to notice: it asks for no more than is settled, and its epoch is
\* none, the one there is, or the one it had for the same question.
Quiet(c, q) ==
    /\ \A f \in Findings : q.asOf[f] <= settled[f]
    /\ \/ q.stamp = NoCounter
       \/ q.stamp = epochs[q.slot[1]]
       \/ ask[c] # Idle /\ q.stamp = ask[c].stamp /\ q.slot = ask[c].slot /\ q.asOf = ask[c].asOf

LEMMA CoversStays ==
  ASSUME MemoInv, NEW c \in Clients, NEW q \in Asked, MovesTo(c, q), Quiet(c, q),
         NEW r \in Roots, NEW e, NEW R, Covers(r, e, R)
  PROVE  Covers(r, e, R)'
<1>1. \A f \in Of(r) : f \in Findings
  BY Distinct
<1>2. ASSUME NEW d \in Clients, ask'[d] # Idle, ask'[d].slot[1] = r, ask'[d].stamp = e,
             NEW f \in Of(r)
      PROVE  ask'[d].asOf[f] <= R[f]
  <2>1. CASE d # c
    BY <1>2, <2>1 DEF MemoInv, Typed, MovesTo, Covers
  <2>2. CASE d = c /\ q.stamp = epochs[q.slot[1]]
    <3>1. ask'[c] = q /\ e = epochs[r]
      BY <1>2, <2>2 DEF MemoInv, Typed, MovesTo
    <3>2. q.asOf[f] <= settled[f] /\ settled[f] <= R[f]
      BY <1>1, <3>1 DEF Quiet, Covers
    <3>3. q.asOf[f] \in Nat /\ settled[f] \in Nat /\ R[f] \in Nat
      BY <1>1 DEF Asked, MemoInv, Typed, Covers
    <3>4. QED
      BY <2>2, <3>1, <3>2, <3>3
  <2>3. CASE d = c /\ q.stamp = NoCounter
    BY <1>2, <2>3, MemoConstants DEF MemoInv, Typed, MovesTo, Covers
  <2>4. CASE d = c /\ ask[c] # Idle /\ q.stamp = ask[c].stamp /\ q.slot = ask[c].slot
                   /\ q.asOf = ask[c].asOf
    BY <1>2, <2>4 DEF MemoInv, Typed, MovesTo, Covers
  <2>5. QED
    BY <2>1, <2>2, <2>3, <2>4 DEF Quiet
<1>3. Of(r)' = Of(r)
  BY DEF Of
<1>4. QED
  BY <1>2, <1>3 DEF MovesTo, Covers

\* What a move may do to the locks: q's slot is its own if q holds it, and it leaves any other.
LocksFor(c, q) ==
    /\ Holds(q) => flight[q.slot] \in {Nobody, c}
    /\ flight' = [s \in Slots |-> IF Holds(q) /\ q.slot = s THEN c
                                  ELSE IF flight[s] = c THEN Nobody ELSE flight[s]]

\* What it may do to the memo: whoever holds a slot replaces what is kept there.
KeepsFor(c, q) ==
    \/ UNCHANGED memo
    \/ /\ Holds(ask[c]) /\ ~Holds(q)
       /\ \E m \in Kepts : /\ memo' = [memo EXCEPT ![ask[c].slot] = m]
                           /\ SlotOK(ask[c].slot, m)

LEMMA Moved ==
  ASSUME MemoInv, NEW c \in Clients, NEW q \in Asked, MovesTo(c, q), Quiet(c, q),
         LocksFor(c, q), KeepsFor(c, q), AskOK(q), Newer(q),
         owners' \in [Findings -> Roots \cup {Nobody}],
         \A f \in Findings : owners'[f] \in {Nobody, RootOf[f]}
  PROVE  MemoInv'
<1>1. /\ ask' \in [Clients -> {Idle} \cup Asked] /\ ask'[c] = q
      /\ \A d \in Clients \ {c} : ask'[d] = ask[d]
  BY DEF MemoInv, Typed, MovesTo
<1>2. memo' \in [Slots -> Kepts]
  BY DEF MemoInv, Typed, KeepsFor
<1>3. Typed'
  BY <1>1, <1>2, Distinct DEF MemoInv, Typed, MovesTo, LocksFor, Stamps, Kepts, AnyRows, Asked, Of,
     Slots, Doings, Idle
<1>4. Settling'
  BY DEF MemoInv, Settling, MovesTo, Idle
<1>5. Locking'
  <2> SUFFICES ASSUME NEW s \in Slots, NEW d \in Clients
               PROVE  flight'[s] = d <=> Holds(ask'[d]) /\ ask'[d].slot = s
    BY DEF Locking, Holds
  <2>1. flight[s] = d <=> Holds(ask[d]) /\ ask[d].slot = s
    BY DEF MemoInv, Locking
  <2>2. flight'[s] = IF Holds(q) /\ q.slot = s THEN c
                     ELSE IF flight[s] = c THEN Nobody ELSE flight[s]
    BY DEF LocksFor
  <2>3. Holds(q) => flight[q.slot] \in {Nobody, c}
    BY DEF LocksFor
  <2>4. QED
    BY <1>1, <2>1, <2>2, <2>3, MemoConstants
<1>6. ASSUME NEW s \in Slots, NEW m, SlotOK(s, m)
      PROVE  SlotOK(s, m)'
  <2>1. CASE m = Empty
    BY <2>1 DEF SlotOK, Empty
  <2>2. CASE m # Empty
    <3>1. Covers(s[1], m.epoch, m.rows)'
      BY <1>6, <2>2, Distinct, CoversStays DEF SlotOK
    <3>2. QED
      BY <1>6, <2>2, <3>1 DEF SlotOK, MovesTo, Of, Empty
  <2>3. QED
    BY <2>1, <2>2
<1>7. ASSUME NEW s \in Slots PROVE SlotOK(s, memo[s])'
  <2>1. memo'[s] = memo[s] \/ SlotOK(s, memo'[s])
    BY DEF KeepsFor, MemoInv, Typed
  <2>2. PICK m : m = memo'[s]
    OBVIOUS
  <2>3. SlotOK(s, m)
    BY <2>1, <2>2 DEF MemoInv
  <2>4. SlotOK(s, m)'
    BY <2>3, <1>6
  <2>5. QED
    BY <2>2, <2>4 DEF SlotOK, Covers, Empty
<1>8. ASSUME NEW x \in Asked, AskOK(x) PROVE AskOK(x)'
  <2>1. x.slot \in Slots /\ x.slot[1] \in Roots
    BY Distinct DEF Asked
  <2>2. Covers(x.slot[1], x.stamp, x.rows) => Covers(x.slot[1], x.stamp, x.rows)'
    BY <2>1, CoversStays
  <2>3. QED
    BY <1>8, <2>1, <2>2 DEF AskOK, MovesTo, Of, Idle
<1>9. ASSUME NEW d \in Clients PROVE AskOK(ask[d])' /\ Newer(ask[d])'
  <2>1. CASE ask'[d] = Idle
    BY <2>1 DEF AskOK, Newer, Idle
  <2>2. CASE ask'[d] # Idle
    <3>1. PICK x : x = ask'[d]
      OBVIOUS
    <3>2. x \in Asked /\ AskOK(x) /\ Newer(x)
      BY <1>1, <2>2, <3>1 DEF MemoInv
    <3>3. AskOK(x)'
      BY <3>2, <1>8
    <3>4. Newer(x)'
      <4>1. CASE UNCHANGED memo
        BY <3>2, <4>1 DEF Newer, Of, Empty
      <4>2. CASE memo[x.slot]' = memo[x.slot]
        BY <3>2, <4>2 DEF Newer, Of, Empty
      <4>3. CASE Holds(x)' /\ Holds(ask[c]) /\ ~Holds(q) /\ x.slot = ask[c].slot
        <5>1. d # c /\ ask[d] = x
          BY <1>1, <3>1, <4>3 DEF Holds
        <5>2. ask[c] \in Asked
          BY <4>3, Distinct DEF MemoInv, Typed
        <5>3. flight[x.slot] = c /\ flight[x.slot] = d
          BY <5>1, <5>2, <3>2, <4>3 DEF MemoInv, Locking, Holds, Asked
        <5>4. QED
          BY <5>1, <5>3
      <4>4. CASE ~Holds(x)
        BY <4>4 DEF Newer, Holds
      <4>5. x.slot \in Slots
        BY <3>2 DEF Asked
      <4>6. QED
        BY <4>1, <4>2, <4>3, <4>4, <4>5 DEF KeepsFor, Holds, MemoInv, Typed
    <3>5. QED
      BY <3>1, <3>3, <3>4 DEF AskOK, Newer, Covers, Idle, Empty
  <2>3. QED
    BY <2>1, <2>2
<1>10. QED
  BY <1>3, <1>4, <1>5, <1>7, <1>9 DEF MemoInv

\* The locks stay whose they are ...
LEMMA SameLocks ==
  ASSUME MemoInv, NEW c \in Clients, NEW q, UNCHANGED flight,
         Holds(q) <=> Holds(ask[c]), q.slot = ask[c].slot
  PROVE  LocksFor(c, q)
<1>1. \A s \in Slots : flight[s] = c <=> Holds(q) /\ q.slot = s
  BY DEF MemoInv, Locking
<1>2. Holds(q) => flight[q.slot] = c
  <2>1. CASE ask[c] \in Asked
    BY <1>1, <2>1 DEF Asked
  <2>2. CASE ask[c] = Idle
    BY <2>2, Distinct
  <2>3. QED
    BY <2>1, <2>2 DEF MemoInv, Typed
<1>3. flight = [s \in Slots |-> flight[s]]
  BY DEF MemoInv, Typed
<1>4. QED
  BY <1>1, <1>2, <1>3 DEF LocksFor

\* ... or are given back.
LEMMA LocksReleased ==
  ASSUME NEW c \in Clients, NEW q, Release(c), ~Holds(q)
  PROVE  LocksFor(c, q)
  BY DEF Release, LocksFor

LEMMA InHand ==
  ASSUME MemoInv, NEW c \in Clients, ask[c].at # "idle"
  PROVE  /\ ask[c] \in Asked /\ ask[c] # Idle /\ AskOK(ask[c]) /\ Newer(ask[c])
         /\ Root(c) \in Roots /\ Grant(c) \in Grants
         /\ ask[c].slot = <<Root(c), Grant(c)>>
  BY Distinct DEF MemoInv, Typed, Idle, Root, Grant, Asked, Slots

LEMMA OwnersStay ==
  ASSUME MemoInv, UNCHANGED owners
  PROVE  /\ owners' \in [Findings -> Roots \cup {Nobody}]
         /\ \A f \in Findings : owners'[f] \in {Nobody, RootOf[f]}
  BY DEF MemoInv, Typed, Settling

LEMMA AskKeeps ==
  ASSUME MemoInv, NEW c \in Clients, NEW s \in Slots, Ask(c, s)
  PROVE  MemoInv'
<1>1. PICK q : q = [at |-> "asked", slot |-> s, stamp |-> NoCounter, rows |-> NoRows,
                    asOf |-> settled]
  OBVIOUS
<1>2. q \in Asked
  BY <1>1, Distinct DEF Asked, MemoInv, Typed
<1>3. MovesTo(c, q)
  BY <1>1 DEF Ask, MovesTo
<1>4. Quiet(c, q)
  BY <1>1 DEF Quiet, MemoInv, Typed
<1>5. LocksFor(c, q)
  <2>1. ~Holds(q) /\ ~Holds(ask[c])
    BY <1>1 DEF Holds, Ask
  <2>2. \A r \in Slots : flight[r] # c
    BY <2>1 DEF MemoInv, Locking
  <2>3. QED
    BY <2>1, <2>2 DEF LocksFor, MemoInv, Typed, Ask
<1>6. AskOK(q) /\ Newer(q)
  BY <1>1 DEF AskOK, Newer, MemoInv, Typed
<1>7. QED
  BY <1>2, <1>3, <1>4, <1>5, <1>6, OwnersStay, Moved DEF Ask, KeepsFor

LEMMA LookKeeps ==
  ASSUME MemoInv, NEW c \in Clients, Look(c)
  PROVE  MemoInv'
<1>1. PICK q : q = [ask[c] EXCEPT !.at = IF epochs[Root(c)] = NoCounter THEN "missing" ELSE "looked",
                                  !.stamp = epochs[Root(c)]]
  OBVIOUS
<1>2. /\ ask[c] \in Asked /\ ask[c] # Idle /\ AskOK(ask[c]) /\ Newer(ask[c])
      /\ Root(c) \in Roots /\ Root(c) = ask[c].slot[1] /\ epochs[Root(c)] \in Stamps
  BY InHand DEF Look, Root, MemoInv, Typed
<1>3. q \in Asked /\ MovesTo(c, q)
  BY <1>1, <1>2 DEF Asked, Look, Answered, MovesTo, MemoInv, Typed
<1>4. Quiet(c, q)
  BY <1>1, <1>2 DEF Quiet, AskOK, Asked, Look
<1>5. LocksFor(c, q)
  <2>1. ~Holds(q) /\ ~Holds(ask[c]) /\ q.slot = ask[c].slot
    BY <1>1, <1>2 DEF Look, Holds, Asked
  <2>2. QED
    BY <2>1, SameLocks DEF Look
<1>6. AskOK(q) /\ Newer(q)
  BY <1>1, <1>2 DEF Look, AskOK, Newer, Asked, Stamps
<1>7. QED
  BY <1>3, <1>4, <1>5, <1>6, OwnersStay, Moved DEF Look, KeepsFor

\* What the memo holds for a request is of its question, and holds what it was promised.
LEMMA HeldRows ==
  ASSUME MemoInv, NEW c \in Clients, ask[c].at # "idle", Held(c) # NoRows
  PROVE  /\ Held(c) \in [Of(Root(c)) -> Nat] /\ Held(c) \in AnyRows /\ Grant(c) \in Allowed
         /\ \A f \in Of(Root(c)) : ask[c].asOf[f] <= Held(c)[f]
<1>1. ask[c] \in Asked /\ ask[c] # Idle /\ ask[c].slot \in Slots /\ Root(c) \in Roots
  BY InHand DEF Asked
<1>2. PICK m : m = memo[ask[c].slot]
  OBVIOUS
<1>3. m.epoch = ask[c].stamp /\ m.epoch # NoCounter /\ Held(c) = m.rows /\ m # Empty
  BY <1>2 DEF Held, Empty
<1>4. SlotOK(ask[c].slot, m)
  BY <1>1, <1>2 DEF MemoInv
<1>5. Covers(Root(c), m.epoch, m.rows) /\ Grant(c) \in Allowed
  BY <1>3, <1>4 DEF SlotOK, Root, Grant
<1>6. QED
  BY <1>1, <1>3, <1>5, Distinct DEF Covers, Root

LEMMA HitOrMissKeeps ==
  ASSUME MemoInv, NEW c \in Clients, HitOrMiss(c)
  PROVE  MemoInv'
<1>1. PICK q : q = IF Held(c) # NoRows THEN [ask[c] EXCEPT !.at = "answered", !.rows = Held(c)]
                 ELSE [ask[c] EXCEPT !.at = "missing"]
  OBVIOUS
<1>2. /\ ask[c] \in Asked /\ ask[c] # Idle /\ AskOK(ask[c]) /\ Newer(ask[c])
      /\ Root(c) \in Roots /\ Root(c) = ask[c].slot[1] /\ epochs[Root(c)] \in Stamps
  BY InHand DEF HitOrMiss, Root, MemoInv, Typed
<1>h. Held(c) # NoRows => /\ Held(c) \in AnyRows /\ Grant(c) \in Allowed
                          /\ \A f \in Of(Root(c)) : ask[c].asOf[f] <= Held(c)[f]
  BY HeldRows DEF HitOrMiss
<1>3. q \in Asked /\ MovesTo(c, q)
  BY <1>1, <1>2, <1>h DEF Asked, HitOrMiss, Answered, MovesTo, MemoInv, Typed
<1>4. Quiet(c, q)
  BY <1>1, <1>2 DEF Quiet, AskOK, Asked, HitOrMiss
<1>5. LocksFor(c, q)
  <2>1. ~Holds(q) /\ ~Holds(ask[c]) /\ q.slot = ask[c].slot
    BY <1>1, <1>2 DEF HitOrMiss, Holds, Asked
  <2>2. QED
    BY <2>1, SameLocks DEF HitOrMiss
<1>6. AskOK(q) /\ Newer(q)
  <2>1. CASE Held(c) # NoRows
    BY <1>1, <1>2, <1>h, <2>1 DEF AskOK, Newer, Asked, Grant
  <2>2. CASE Held(c) = NoRows
    BY <1>1, <1>2, <2>2 DEF AskOK, Newer, Asked
  <2>3. QED
    BY <2>1, <2>2
<1>7. QED
  BY <1>3, <1>4, <1>5, <1>6, OwnersStay, Moved DEF HitOrMiss, KeepsFor

LEMMA EnterKeeps ==
  ASSUME MemoInv, NEW c \in Clients, Enter(c)
  PROVE  MemoInv'
<1>1. PICK q : q = IF epochs[Root(c)] = NoCounter
                 THEN [ask[c] EXCEPT !.at = "reading", !.stamp = NoCounter]
                 ELSE [ask[c] EXCEPT !.at = "locked", !.stamp = NoCounter]
  OBVIOUS
<1>2. /\ ask[c] \in Asked /\ ask[c] # Idle /\ AskOK(ask[c]) /\ Newer(ask[c])
      /\ Root(c) \in Roots /\ Root(c) = ask[c].slot[1] /\ epochs[Root(c)] \in Stamps
  BY InHand DEF Enter, Root, MemoInv, Typed
<1>3. q \in Asked /\ MovesTo(c, q)
  BY <1>1, <1>2, Distinct DEF Asked, Enter, Answered, MovesTo, MemoInv, Typed
<1>4. Quiet(c, q)
  BY <1>1, <1>2 DEF Quiet, AskOK, Asked, Enter
<1>5. LocksFor(c, q)
  <2>1. ~Holds(ask[c]) /\ q.slot = ask[c].slot
    BY <1>1, <1>2 DEF Enter, Holds, Asked
  <2>2. CASE epochs[Root(c)] = NoCounter
    <3>1. ~Holds(q)
      BY <1>1, <1>2, <2>2 DEF Holds, Asked
    <3>2. QED
      BY <2>1, <2>2, <3>1, SameLocks DEF Enter
  <2>3. CASE epochs[Root(c)] # NoCounter
    <3>1. Holds(q) /\ flight[q.slot] = Nobody
      BY <1>1, <1>2, <2>1, <2>3 DEF Holds, Asked, Enter
    <3>2. \A s \in Slots : flight[s] # c
      BY <2>1 DEF MemoInv, Locking
    <3>3. flight' = [flight EXCEPT ![q.slot] = c]
      BY <2>1, <2>3 DEF Enter
    <3>4. QED
      BY <3>1, <3>2, <3>3 DEF LocksFor, MemoInv, Typed
  <2>4. QED
    BY <2>2, <2>3
<1>6. AskOK(q) /\ Newer(q)
  BY <1>1, <1>2 DEF Enter, AskOK, Newer, Asked, Stamps
<1>7. QED
  BY <1>3, <1>4, <1>5, <1>6, OwnersStay, Moved DEF Enter, KeepsFor

LEMMA StampKeeps ==
  ASSUME MemoInv, NEW c \in Clients, Stamp(c)
  PROVE  MemoInv'
<1>1. PICK q : q = [ask[c] EXCEPT !.at = "stamped", !.stamp = epochs[Root(c)]]
  OBVIOUS
<1>2. /\ ask[c] \in Asked /\ ask[c] # Idle /\ AskOK(ask[c]) /\ Newer(ask[c])
      /\ Root(c) \in Roots /\ Root(c) = ask[c].slot[1] /\ epochs[Root(c)] \in Stamps
  BY InHand DEF Stamp, Root, MemoInv, Typed
<1>3. q \in Asked /\ MovesTo(c, q)
  BY <1>1, <1>2 DEF Asked, Stamp, Answered, MovesTo, MemoInv, Typed
<1>4. Quiet(c, q)
  BY <1>1, <1>2 DEF Quiet, AskOK, Asked, Stamp
<1>5. LocksFor(c, q)
  <2>1. Holds(q) /\ Holds(ask[c]) /\ q.slot = ask[c].slot
    BY <1>1, <1>2 DEF Stamp, Holds, Asked
  <2>2. QED
    BY <2>1, SameLocks DEF Stamp
<1>6. AskOK(q) /\ Newer(q)
  BY <1>1, <1>2 DEF Stamp, AskOK, Newer, Asked, Stamps
<1>7. QED
  BY <1>3, <1>4, <1>5, <1>6, OwnersStay, Moved DEF Stamp, KeepsFor

LEMMA HitAgainKeeps ==
  ASSUME MemoInv, NEW c \in Clients, HitAgain(c)
  PROVE  MemoInv'
<1>1. PICK q : q = IF Held(c) # NoRows THEN [ask[c] EXCEPT !.at = "answered", !.rows = Held(c)]
                 ELSE [ask[c] EXCEPT !.at = "reading"]
  OBVIOUS
<1>2. /\ ask[c] \in Asked /\ ask[c] # Idle /\ AskOK(ask[c]) /\ Newer(ask[c])
      /\ Root(c) \in Roots /\ Root(c) = ask[c].slot[1] /\ epochs[Root(c)] \in Stamps
  BY InHand DEF HitAgain, Root, MemoInv, Typed
<1>h. Held(c) # NoRows => /\ Held(c) \in AnyRows /\ Grant(c) \in Allowed
                          /\ \A f \in Of(Root(c)) : ask[c].asOf[f] <= Held(c)[f]
  BY HeldRows DEF HitAgain
<1>3. q \in Asked /\ MovesTo(c, q)
  BY <1>1, <1>2, <1>h DEF Asked, HitAgain, Answered, MovesTo, MemoInv, Typed
<1>4. Quiet(c, q)
  BY <1>1, <1>2 DEF Quiet, AskOK, Asked, HitAgain
<1>5. LocksFor(c, q)
  <2>1. CASE Held(c) # NoRows
    <3>1. ~Holds(q)
      BY <1>1, <1>2, <2>1 DEF Holds, Asked
    <3>2. QED
      BY <2>1, <3>1, LocksReleased DEF HitAgain
  <2>2. CASE Held(c) = NoRows
    <3>1. Holds(q) /\ Holds(ask[c]) /\ q.slot = ask[c].slot
      BY <1>1, <1>2, <2>2 DEF HitAgain, Holds, Asked, AskOK
    <3>2. QED
      BY <2>2, <3>1, SameLocks DEF HitAgain
  <2>3. QED
    BY <2>1, <2>2
<1>6. AskOK(q) /\ Newer(q)
  <2>1. CASE Held(c) # NoRows
    BY <1>1, <1>2, <1>h, <2>1 DEF AskOK, Newer, Asked, Grant
  <2>2. CASE Held(c) = NoRows
    BY <1>1, <1>2, <2>2 DEF AskOK, Newer, Asked
  <2>3. QED
    BY <2>1, <2>2
<1>7. QED
  BY <1>3, <1>4, <1>5, <1>6, OwnersStay, Moved DEF HitAgain, KeepsFor

LEMMA ReadKeeps ==
  ASSUME MemoInv, NEW c \in Clients, Read(c)
  PROVE  MemoInv'
<1>1. PICK q : q = [ask[c] EXCEPT !.at = "read", !.rows = [f \in Of(Root(c)) |-> version[f]]]
  OBVIOUS
<1>2. /\ ask[c] \in Asked /\ ask[c] # Idle /\ AskOK(ask[c]) /\ Newer(ask[c])
      /\ Root(c) \in Roots /\ Root(c) = ask[c].slot[1] /\ epochs[Root(c)] \in Stamps
  BY InHand DEF Read, Root, MemoInv, Typed
<1>r. PICK R : R = [f \in Of(Root(c)) |-> version[f]]
  OBVIOUS
<1>s. R \in [Of(Root(c)) -> Nat] /\ R \in AnyRows /\ \A f \in Of(Root(c)) : f \in Findings /\ R[f] = version[f]
  BY <1>2, <1>r, Distinct DEF MemoInv, Typed
<1>3. q \in Asked /\ MovesTo(c, q)
  BY <1>1, <1>2, <1>r, <1>s DEF Asked, Read, Answered, MovesTo, MemoInv, Typed
<1>4. Quiet(c, q)
  BY <1>1, <1>2 DEF Quiet, AskOK, Asked, Read
<1>5. LocksFor(c, q)
  <2>1. (Holds(q) <=> Holds(ask[c])) /\ q.slot = ask[c].slot
    BY <1>1, <1>2 DEF Read, Holds, Asked
  <2>2. QED
    BY <2>1, SameLocks DEF Read
<1>6. AskOK(q) /\ Newer(q)
  <2>1. \A f \in Of(Root(c)) : settled[f] <= R[f] /\ ask[c].asOf[f] <= R[f]
    BY <1>2, <1>s DEF MemoInv, Typed, Settling, AskOK, Asked
  <2>2. ask[c].stamp # NoCounter => Covers(Root(c), ask[c].stamp, R)
    <3> SUFFICES ASSUME ask[c].stamp # NoCounter PROVE Covers(Root(c), ask[c].stamp, R)
      OBVIOUS
    <3>1. ask[c].stamp \in Nat /\ epochs[Root(c)] \in Nat /\ ask[c].stamp <= epochs[Root(c)]
      BY <1>2 DEF AskOK, Asked, Stamps
    <3>2. ASSUME NEW d \in Clients, ask[d] # Idle, NEW f \in Of(Root(c))
          PROVE  ask[d].asOf[f] <= R[f]
      BY <3>2, <1>s, <2>1 DEF MemoInv, Typed, AskOK, Asked
    <3>3. QED
      BY <3>1, <3>2, <1>s, <2>1 DEF Covers
  <2>3. Newer(q)
    <3> SUFFICES ASSUME memo[ask[c].slot] # Empty, NEW f \in Of(Root(c))
                 PROVE  memo[ask[c].slot].rows[f] <= R[f]
      BY <1>1, <1>2, <1>r DEF Newer, Asked
    <3>1. SlotOK(ask[c].slot, memo[ask[c].slot])
      BY <1>2 DEF MemoInv, Asked
    <3>2. QED
      BY <1>2, <1>s, <3>1 DEF SlotOK
  <2>4. AskOK(q)
    BY <1>1, <1>2, <1>r, <1>s, <2>1, <2>2 DEF Read, AskOK, Asked, Stamps, Grant, MemoInv, Typed
  <2>5. QED
    BY <2>3, <2>4
<1>7. QED
  BY <1>3, <1>4, <1>5, <1>6, OwnersStay, Moved DEF Read, KeepsFor

LEMMA RefusedKeeps ==
  ASSUME MemoInv, NEW c \in Clients, Refused(c)
  PROVE  MemoInv'
<1>1. PICK q : q = [ask[c] EXCEPT !.at = "answered", !.rows = NoRows]
  OBVIOUS
<1>2. /\ ask[c] \in Asked /\ ask[c] # Idle /\ AskOK(ask[c]) /\ Newer(ask[c])
      /\ Root(c) \in Roots /\ Root(c) = ask[c].slot[1] /\ epochs[Root(c)] \in Stamps
  BY InHand DEF Refused, Root, MemoInv, Typed
<1>3. q \in Asked /\ MovesTo(c, q)
  BY <1>1, <1>2, Distinct DEF Asked, Refused, Answered, MovesTo, MemoInv, Typed
<1>4. Quiet(c, q)
  BY <1>1, <1>2 DEF Quiet, AskOK, Asked, Refused
<1>5. LocksFor(c, q)
  <2>1. ~Holds(q)
    BY <1>1, <1>2 DEF Holds, Asked
  <2>2. QED
    BY <2>1, LocksReleased DEF Refused
<1>6. AskOK(q) /\ Newer(q)
  BY <1>1, <1>2 DEF Refused, AskOK, Newer, Asked, Stamps
<1>7. QED
  BY <1>3, <1>4, <1>5, <1>6, OwnersStay, Moved DEF Refused, KeepsFor

LEMMA LearnKeeps ==
  ASSUME MemoInv, NEW c \in Clients, Learn(c)
  PROVE  MemoInv'
<1>1. PICK q : q = IF ask[c].stamp = NoCounter THEN [ask[c] EXCEPT !.at = "answered", !.rows = ask[c].rows]
                 ELSE [ask[c] EXCEPT !.at = "learned"]
  OBVIOUS
<1>2. /\ ask[c] \in Asked /\ ask[c] # Idle /\ AskOK(ask[c]) /\ Newer(ask[c])
      /\ Root(c) \in Roots /\ Root(c) = ask[c].slot[1] /\ epochs[Root(c)] \in Stamps
  BY InHand DEF Learn, Root, MemoInv, Typed
<1>o. /\ owners' \in [Findings -> Roots \cup {Nobody}]
      /\ \A f \in Findings : owners'[f] \in {Nobody, RootOf[f]}
  BY <1>2 DEF Learn, Of, MemoInv, Typed, Settling
<1>3. q \in Asked /\ MovesTo(c, q)
  BY <1>1, <1>2 DEF Asked, Learn, Answered, MovesTo, MemoInv, Typed
<1>4. Quiet(c, q)
  BY <1>1, <1>2 DEF Quiet, AskOK, Asked, Learn
<1>5. LocksFor(c, q)
  <2>1. (Holds(q) <=> Holds(ask[c])) /\ q.slot = ask[c].slot
    BY <1>1, <1>2 DEF Learn, Holds, Asked
  <2>2. QED
    BY <2>1, SameLocks DEF Learn
<1>6. AskOK(q) /\ Newer(q)
  BY <1>1, <1>2 DEF Learn, AskOK, Newer, Asked, Stamps
<1>7. QED
  BY <1>3, <1>4, <1>5, <1>6, <1>o, Moved DEF Learn, KeepsFor

LEMMA KeepKeeps ==
  ASSUME MemoInv, NEW c \in Clients, Keep(c)
  PROVE  MemoInv'
<1>1. PICK q : q = [ask[c] EXCEPT !.at = "answered", !.rows = ask[c].rows]
  OBVIOUS
<1>2. /\ ask[c] \in Asked /\ ask[c] # Idle /\ AskOK(ask[c]) /\ Newer(ask[c])
      /\ Root(c) \in Roots /\ Root(c) = ask[c].slot[1] /\ epochs[Root(c)] \in Stamps
  BY InHand DEF Keep, Root, MemoInv, Typed
<1>3. q \in Asked /\ MovesTo(c, q)
  BY <1>1, <1>2 DEF Asked, Keep, Answered, MovesTo, MemoInv, Typed
<1>4. Quiet(c, q)
  BY <1>1, <1>2 DEF Quiet, AskOK, Asked, Keep
<1>5. LocksFor(c, q)
  <2>1. ~Holds(q)
    BY <1>1, <1>2 DEF Holds, Asked
  <2>2. QED
    BY <2>1, LocksReleased DEF Keep
<1>6. AskOK(q) /\ Newer(q)
  BY <1>1, <1>2 DEF Keep, AskOK, Newer, Asked, Stamps
<1>7. KeepsFor(c, q)
  <2>1. Holds(ask[c]) /\ ~Holds(q)
    BY <1>1, <1>2 DEF Keep, Holds, AskOK, Asked
  <2>2. PICK m : m = [epoch |-> ask[c].stamp, rows |-> ask[c].rows]
    OBVIOUS
  <2>3. m \in Kepts /\ memo' = [memo EXCEPT ![ask[c].slot] = m]
    BY <1>2, <2>2 DEF Keep, Kepts, Asked
  <2>4. SlotOK(ask[c].slot, m)
    BY <1>2, <2>2 DEF Keep, SlotOK, AskOK
  <2>5. QED
    BY <2>1, <2>3, <2>4 DEF KeepsFor
<1>8. QED
  BY <1>3, <1>4, <1>5, <1>6, <1>7, OwnersStay, Moved DEF Keep

-----------------------------------------------------------------------------
(* Steps of the writers and of the watch.                                  *)

LEMMA WriteKeeps ==
  ASSUME MemoInv, NEW w \in Writers, NEW f \in Findings,
         NEW names \in {"finding", "root", "all"}, Write(w, f, names)
  PROVE  MemoInv'
<1>1. PICK d : d = [at |-> IF names = "finding" THEN "written" ELSE "found",
                    finding |-> f, version |-> version[f] + 1,
                    touches |-> IF names = "root" THEN {RootOf[f]} ELSE Roots]
  OBVIOUS
<1>2. d \in Doings
  BY <1>1, MemoConstants DEF Doings, MemoInv, Typed
<1>3. /\ version' \in [Findings -> Nat] /\ version'[f] = version[f] + 1
      /\ \A g \in Findings : version[g] <= version'[g]
      /\ doing' = [doing EXCEPT ![w] = d]
  BY <1>1 DEF Write, MemoInv, Typed
<1>4. UNCHANGED <<epochs, owners, memo, flight, ask, settled>>
  BY DEF Write
<1>5. Typed'
  BY <1>2, <1>3, <1>4 DEF MemoInv, Typed, Stamps, Kepts, AnyRows, Asked, Of, Slots, Doings, Idle
<1>6. Settling'
  <2>1. \A g \in Findings : settled'[g] <= version'[g] /\ owners'[g] \in {Nobody, RootOf[g]}
    BY <1>3, <1>4 DEF MemoInv, Typed, Settling
  <2>2. d.version <= version'[d.finding] /\ (d.at = "found" => RootOf[d.finding] \in d.touches)
    BY <1>1, <1>3, MemoConstants DEF MemoInv, Typed
  <2>3. ASSUME NEW v \in Writers, doing'[v] # Idle
        PROVE  /\ doing'[v].version <= version'[doing'[v].finding]
               /\ doing'[v].at = "found" => RootOf[doing'[v].finding] \in doing'[v].touches
    <3>1. CASE v = w
      BY <1>3, <2>2, <3>1 DEF MemoInv, Typed
    <3>2. CASE v # w
      <4>1. doing'[v] = doing[v] /\ doing[v] # Idle /\ doing[v] \in Doings
        BY <1>3, <2>3, <3>2 DEF MemoInv, Typed
      <4>2. QED
        BY <1>3, <4>1 DEF MemoInv, Typed, Settling, Doings
    <3>3. QED
      BY <3>1, <3>2
  <2>4. QED
    BY <2>1, <2>3 DEF Settling, Idle
<1>7. Locking'
  BY <1>4 DEF MemoInv, Locking, Holds
<1>8. \A r \in Roots : \A e, R : Covers(r, e, R)' <=> Covers(r, e, R)
  BY <1>4 DEF Covers, Of, Idle
<1>9. ASSUME NEW s \in Slots PROVE SlotOK(s, memo[s])'
  <2>1. SlotOK(s, memo[s]) /\ s[1] \in Roots
    BY Distinct DEF MemoInv
  <2>2. CASE memo[s] = Empty
    BY <1>4, <2>2 DEF SlotOK, Empty
  <2>3. CASE memo[s] # Empty
    <3>1. Covers(s[1], memo[s].epoch, memo[s].rows)'
      BY <1>4, <1>8, <2>1, <2>3 DEF SlotOK, Covers, Idle
    <3>2. ASSUME NEW g \in Of(s[1]) PROVE memo[s].rows[g] <= version'[g]
      BY <1>3, <2>1, <2>3, Distinct DEF SlotOK, Covers, MemoInv, Typed
    <3>3. QED
      BY <1>4, <2>1, <2>3, <3>1, <3>2 DEF SlotOK, Of, Empty
  <2>4. QED
    BY <2>2, <2>3
<1>10. ASSUME NEW c \in Clients PROVE AskOK(ask[c])' /\ Newer(ask[c])'
  <2>1. AskOK(ask[c]) /\ Newer(ask[c]) /\ ask[c] \in {Idle} \cup Asked
    BY DEF MemoInv, Typed
  <2>2. Newer(ask[c])'
    BY <1>4, <2>1 DEF Newer, Of, Empty
  <2>3. CASE ask[c] = Idle
    <3>1. ask'[c] = Idle
      BY <1>4, <2>3
    <3>2. QED
      BY <2>2, <3>1 DEF AskOK, Idle
  <2>4. CASE ask[c] # Idle
    <3>1. PICK q : q = ask[c]
      OBVIOUS
    <3>2. q \in Asked /\ AskOK(q) /\ q.slot[1] \in Roots
      BY <2>1, <2>4, <3>1, Distinct DEF Asked
    <3>3. Covers(q.slot[1], q.stamp, q.rows)' <=> Covers(q.slot[1], q.stamp, q.rows)
      BY <1>8, <3>2
    <3>4. ASSUME q.at \in {"read", "learned"}, NEW g \in Of(q.slot[1])
          PROVE  q.rows[g] <= version'[g]
      BY <1>3, <2>4, <3>1, <3>2, <3>4, Distinct DEF AskOK, MemoInv, Typed
    <3>5. AskOK(q)'
      BY <1>4, <3>2, <3>3, <3>4 DEF AskOK, Of, Idle
    <3>6. QED
      BY <1>4, <2>2, <3>1, <3>5 DEF AskOK, Covers, Idle
  <2>5. QED
    BY <2>2, <2>3, <2>4
<1>11. QED
  BY <1>5, <1>6, <1>7, <1>9, <1>10 DEF MemoInv

LEMMA FindOwnerKeeps ==
  ASSUME MemoInv, NEW w \in Writers, FindOwner(w)
  PROVE  MemoInv'
<1>1. doing[w] \in Doings /\ doing[w] # Idle /\ doing[w].finding \in Findings
  BY DEF FindOwner, MemoInv, Typed, Idle, Doings
<1>2. /\ OwnerOrAll(doing[w].finding) \in SUBSET Roots
      /\ RootOf[doing[w].finding] \in OwnerOrAll(doing[w].finding)
  BY <1>1, MemoConstants DEF OwnerOrAll, MemoInv, Typed, Settling
<1>3. PICK d : d = [doing[w] EXCEPT !.at = "found", !.touches = OwnerOrAll(doing[w].finding)]
  OBVIOUS
<1>4. d \in Doings /\ doing' = [doing EXCEPT ![w] = d]
  BY <1>1, <1>2, <1>3 DEF FindOwner, Doings, MemoInv, Typed
<1>5. UNCHANGED <<version, epochs, owners, memo, flight, ask, settled>>
  BY DEF FindOwner
<1>6. Typed'
  BY <1>4, <1>5 DEF MemoInv, Typed, Stamps, Kepts, AnyRows, Asked, Of, Slots, Doings, Idle
<1>7. d.version <= version[d.finding] /\ RootOf[d.finding] \in d.touches
  BY <1>1, <1>2, <1>3 DEF Doings, MemoInv, Settling
<1>8. Settling'
  BY <1>4, <1>5, <1>7 DEF MemoInv, Typed, Settling, Idle
<1>9. Locking'
  BY <1>5 DEF MemoInv, Locking, Holds
<1>10. \A s \in Slots : SlotOK(s, memo[s])'
  BY <1>5 DEF MemoInv, SlotOK, Covers, Of, Idle, Empty
<1>11. \A c \in Clients : AskOK(ask[c])' /\ Newer(ask[c])'
  BY <1>5 DEF MemoInv, AskOK, Newer, Covers, Of, Idle, Empty
<1>12. QED
  BY <1>6, <1>8, <1>9, <1>10, <1>11 DEF MemoInv

\* The epochs go on, and what is settled is of the roots whose epochs did.
EpochsGoOn ==
    /\ UNCHANGED <<version, memo, flight, ask, owners>>
    /\ epochs' \in [Roots -> Stamps] /\ settled' \in [Findings -> Nat]
    /\ \A r \in Roots : epochs[r] \in Nat =>
          /\ epochs'[r] \in Nat /\ epochs[r] <= epochs'[r]
          /\ epochs'[r] = epochs[r] => \A f \in Of(r) : settled'[f] = settled[f]
    /\ \A f \in Findings : settled[f] <= settled'[f] /\ settled'[f] <= version[f]

LEMMA EpochsMoved ==
  ASSUME MemoInv, EpochsGoOn, doing' \in [Writers -> {Idle} \cup Doings],
         \A w \in Writers : doing'[w] \in {doing[w], Idle}
  PROVE  MemoInv'
<1>1. UNCHANGED <<version, memo, flight, ask, owners>>
  BY DEF EpochsGoOn
<1>2. Typed'
  BY <1>1 DEF EpochsGoOn, MemoInv, Typed, Stamps, Kepts, AnyRows, Asked, Of, Slots, Doings, Idle
<1>3. Settling'
  BY <1>1 DEF EpochsGoOn, MemoInv, Settling, Idle
<1>4. Locking'
  BY <1>1 DEF MemoInv, Locking, Holds
<1>5. ASSUME NEW r \in Roots, NEW e, NEW R, Covers(r, e, R)
      PROVE  Covers(r, e, R)'
  <2>1. e \in Nat /\ epochs[r] \in Nat /\ e <= epochs[r] /\ R \in [Of(r) -> Nat]
    BY <1>5 DEF Covers
  <2>2. epochs'[r] \in Nat /\ epochs[r] <= epochs'[r]
    BY <2>1 DEF EpochsGoOn
  <2>3. e = epochs'[r] => e = epochs[r] /\ epochs'[r] = epochs[r]
    BY <2>1, <2>2
  <2>4. e = epochs'[r] => \A f \in Of(r) : settled'[f] <= R[f]
    BY <1>5, <2>1, <2>3 DEF EpochsGoOn, Covers
  <2>5. QED
    BY <1>1, <1>5, <2>1, <2>2, <2>4 DEF Covers, Of, Idle
<1>6. ASSUME NEW s \in Slots PROVE SlotOK(s, memo[s])'
  <2>1. SlotOK(s, memo[s]) /\ s[1] \in Roots
    BY Distinct DEF MemoInv
  <2>2. CASE memo[s] = Empty
    BY <1>1, <2>2 DEF SlotOK, Empty
  <2>3. CASE memo[s] # Empty
    <3>1. PICK m : m = memo[s]
      OBVIOUS
    <3>2. Covers(s[1], m.epoch, m.rows)'
      BY <1>5, <2>1, <2>3, <3>1 DEF SlotOK
    <3>3. SlotOK(s, m)'
      BY <1>1, <2>1, <2>3, <3>1, <3>2 DEF SlotOK, Of, Empty
    <3>4. QED
      BY <1>1, <3>1, <3>3 DEF SlotOK, Covers, Empty
  <2>4. QED
    BY <2>2, <2>3
<1>7. ASSUME NEW c \in Clients PROVE AskOK(ask[c])' /\ Newer(ask[c])'
  <2>1. AskOK(ask[c]) /\ Newer(ask[c]) /\ ask[c] \in {Idle} \cup Asked
    BY DEF MemoInv, Typed
  <2>2. Newer(ask[c])'
    BY <1>1, <2>1 DEF Newer, Of, Empty
  <2>3. CASE ask[c] = Idle
    <3>1. ask'[c] = Idle
      BY <1>1, <2>3
    <3>2. QED
      BY <2>2, <3>1 DEF AskOK, Idle
  <2>4. CASE ask[c] # Idle
    <3>1. PICK q : q = ask[c]
      OBVIOUS
    <3>2. q \in Asked /\ q # Idle /\ AskOK(q) /\ q.slot[1] \in Roots
      BY <2>1, <2>4, <3>1, Distinct DEF Asked
    <3>3. Covers(q.slot[1], q.stamp, q.rows) => Covers(q.slot[1], q.stamp, q.rows)'
      BY <1>5, <3>2
    <3>4. \A f \in Findings : q.asOf[f] <= settled'[f]
      BY <3>2 DEF AskOK, Asked, EpochsGoOn, MemoInv, Typed
    <3>5. q.stamp # NoCounter => epochs'[q.slot[1]] \in Nat /\ q.stamp <= epochs'[q.slot[1]]
      BY <3>2 DEF AskOK, Asked, Stamps, EpochsGoOn
    <3>6. q.at = "locked" => epochs'[q.slot[1]] # NoCounter
      BY <3>2, MemoConstants DEF AskOK, EpochsGoOn, MemoInv, Typed, Stamps
    <3>7. AskOK(q)'
      BY <1>1, <3>2, <3>3, <3>4, <3>5, <3>6 DEF AskOK, Of, Idle
    <3>8. QED
      BY <1>1, <2>2, <3>1, <3>7 DEF AskOK, Covers, Idle
  <2>5. QED
    BY <2>2, <2>3, <2>4
<1>8. QED
  BY <1>2, <1>3, <1>4, <1>6, <1>7 DEF MemoInv

LEMMA TouchKeeps ==
  ASSUME MemoInv, NEW w \in Writers, Touch(w)
  PROVE  MemoInv'
<1>1. PICK d : d = doing[w]
  OBVIOUS
<1>2. /\ d \in Doings /\ RootOf[d.finding] \in d.touches
      /\ d.version <= version[d.finding]
  BY <1>1 DEF Touch, MemoInv, Typed, Settling, Idle, Doings
<1>3. /\ d.finding \in Findings /\ d.version \in Nat /\ version[d.finding] \in Nat
      /\ settled \in [Findings -> Nat] /\ epochs \in [Roots -> Stamps]
  BY <1>2 DEF Doings, MemoInv, Typed
<1>4. settled' = [settled EXCEPT ![d.finding] = IF d.version > @ THEN d.version ELSE @]
  BY <1>1 DEF Touch
<1>5. /\ settled' \in [Findings -> Nat]
      /\ \A f \in Findings : settled[f] <= settled'[f] /\ settled'[f] <= version[f]
  BY <1>2, <1>3, <1>4 DEF MemoInv, Settling, Typed
<1>6. epochs' = [r \in Roots |-> IF r \in d.touches /\ epochs[r] # NoCounter
                                 THEN epochs[r] + 1 ELSE epochs[r]]
  BY <1>1 DEF Touch
<1>7. epochs' \in [Roots -> Stamps]
  BY <1>3, <1>6 DEF Stamps
<1>8. ASSUME NEW r \in Roots, epochs[r] \in Nat
      PROVE  /\ epochs'[r] \in Nat /\ epochs[r] <= epochs'[r]
             /\ epochs'[r] = epochs[r] => \A f \in Of(r) : settled'[f] = settled[f]
  <2>1. epochs'[r] = IF r \in d.touches THEN epochs[r] + 1 ELSE epochs[r]
    BY <1>6, <1>8, MemoConstants
  <2>2. r \notin d.touches => \A f \in Of(r) : f # d.finding /\ f \in Findings
    BY <1>2 DEF Of
  <2>3. QED
    BY <1>3, <1>4, <1>8, <2>1, <2>2
<1>9. EpochsGoOn
  BY <1>5, <1>7, <1>8 DEF EpochsGoOn, Touch
<1>10. doing' \in [Writers -> {Idle} \cup Doings] /\ \A v \in Writers : doing'[v] \in {doing[v], Idle}
  BY DEF Touch, MemoInv, Typed
<1>11. QED
  BY <1>9, <1>10, EpochsMoved

LEMMA RearrangeKeeps ==
  ASSUME MemoInv, NEW rs \in SUBSET Roots, Rearrange(rs)
  PROVE  MemoInv'
<1>1. /\ epochs' = [r \in Roots |-> IF epochs[r] # NoCounter THEN epochs[r] + 1
                                    ELSE IF r \in rs THEN 0 ELSE NoCounter]
      /\ epochs \in [Roots -> Stamps] /\ settled \in [Findings -> Nat]
      /\ version \in [Findings -> Nat]
  BY DEF Rearrange, Track, MemoInv, Typed
<1>2. epochs' \in [Roots -> Stamps]
  BY <1>1 DEF Stamps
<1>3. \A r \in Roots : epochs[r] \in Nat => epochs'[r] = epochs[r] + 1
  BY <1>1, MemoConstants
<1>4. UNCHANGED <<version, memo, flight, ask, owners, settled, doing>>
  BY DEF Rearrange
<1>5. EpochsGoOn
  BY <1>1, <1>2, <1>3, <1>4 DEF EpochsGoOn, MemoInv, Settling
<1>6. doing' \in [Writers -> {Idle} \cup Doings] /\ \A v \in Writers : doing'[v] \in {doing[v], Idle}
  BY <1>4 DEF MemoInv, Typed
<1>7. QED
  BY <1>5, <1>6, EpochsMoved

LEMMA MemoStep == MemoInv /\ [Next]_vars => MemoInv'
<1> SUFFICES ASSUME MemoInv, [Next]_vars PROVE MemoInv'
  OBVIOUS
<1>1. CASE UNCHANGED vars
  <2>1. UNCHANGED <<version, epochs, owners, memo, flight, ask, doing, settled>>
    BY <1>1 DEF vars
  <2>2. Typed'
    BY <2>1 DEF MemoInv, Typed, Stamps, Kepts, AnyRows, Asked, Of, Slots, Doings, Idle
  <2>3. Settling' /\ Locking'
    BY <2>1 DEF MemoInv, Settling, Locking, Holds, Idle
  <2>4. \A s \in Slots : SlotOK(s, memo[s])'
    BY <2>1 DEF MemoInv, SlotOK, Covers, Of, Idle, Empty
  <2>5. \A c \in Clients : AskOK(ask[c])' /\ Newer(ask[c])'
    BY <2>1 DEF MemoInv, AskOK, Newer, Covers, Of, Idle, Empty
  <2>6. QED
    BY <2>2, <2>3, <2>4, <2>5 DEF MemoInv
<1>2. CASE \E c \in Clients : Serve(c)
  BY <1>2, LookKeeps, HitOrMissKeeps, EnterKeeps, StampKeeps, HitAgainKeeps, ReadKeeps,
     RefusedKeeps, LearnKeeps, KeepKeeps DEF Serve
<1>3. CASE \E c \in Clients, s \in Slots : Ask(c, s)
  BY <1>3, AskKeeps
<1>4. CASE \E w \in Writers : FindOwner(w) \/ Touch(w)
  BY <1>4, FindOwnerKeeps, TouchKeeps
<1>5. CASE \E w \in Writers, f \in Findings, names \in {"finding", "root", "all"} :
             Write(w, f, names)
  BY <1>5, WriteKeeps
<1>6. CASE \E rs \in SUBSET Roots : Rearrange(rs)
  BY <1>6, RearrangeKeeps
<1>7. QED
  BY <1>1, <1>2, <1>3, <1>4, <1>5, <1>6 DEF Next

-----------------------------------------------------------------------------
(* The parsed files.                                                       *)

Texts == Nat \X Nat
Under == {"open", "looking", "missing", "locked", "reading", "halfway", "checking", "checked",
          "parsing"}
Gets == [at : {"opening", "answered"} \cup Under, left : 1 .. Attempts,
         handle : Inodes \cup {0}, stamp : Texts, version : Texts, text : Texts, asOf : Texts]

FileTyped ==
    /\ path \in Inodes \cup {0} /\ editing \in Inodes \cup {0}
    /\ inodes \in [Inodes -> [text : Texts, time : Nat]]
    /\ coarse \in BOOLEAN /\ time \in Nat /\ writes \in Nat
    /\ entry \in [version : Texts, text : Texts] /\ lock \in Clients \cup {Nobody}
    /\ get \in [Clients -> {Idle} \cup Gets]

AtLeast(t, u) == u[1] <= t[1] /\ u[2] <= t[2]

\* Of one write, or of two while the file itself is half rewritten.
Whole(t) == t[1] = t[2] \/ t[1] = t[2] + 1

\* The path names the text of the last write, half of it while it is being written in place.
FileWorld ==
    /\ \A i \in Inodes : Whole(inodes[i].text) /\ inodes[i].time <= time
    /\ editing = 0 /\ path # 0 => inodes[path].text = <<writes, writes>>
    /\ editing # 0 => /\ editing = path /\ writes > 0
                      /\ inodes[path].text[1] = writes /\ inodes[path].text[2] = writes - 1

\* What a request may be promised now.
Promised(t) == t[1] <= writes /\ t[2] <= (IF editing # 0 THEN writes - 1 ELSE writes)

\* Where the clock is fine, x is the text of version v: of the file that still has it, and
\* no older than what any request was promised that saw that version.
Speaks(v, x) ==
    /\ v[1] \in Inodes /\ v[2] <= time /\ Whole(x)
    /\ \A i \in Inodes : File!StampOf(i) = v => inodes[i].text = x
    /\ \A d \in Clients : get[d] # Idle /\ get[d].version = v => AtLeast(x, get[d].asOf)

\* A kept text is its version's; where the clock is coarse it is its own version.
EntryOK(e) ==
    IF coarse THEN e.version = e.text
    ELSE e.version # File!Unread => Speaks(e.version, e.text)

\* What a request has in hand of the file it opened.
HandleOK(q) ==
    /\ Promised(q.asOf)
    /\ q.at \in Under => q.handle # 0
    /\ q.handle # 0 => AtLeast(inodes[q.handle].text, q.asOf)
    /\ q.at = "halfway" => q.asOf[1] <= q.text[1]
    /\ q.at \in {"checking", "checked", "parsing"} => AtLeast(q.text, q.asOf)
    /\ q.at = "answered" => /\ q.text # File!Unread => AtLeast(q.text, q.asOf)
                            /\ ~coarse => Whole(q.text)

CoarseOK(q) ==
    q.at \in Under \ {"open", "reading", "halfway"} => AtLeast(q.text, q.asOf) /\ q.version = q.text

FineOK(q) ==
    /\ q.version = q.stamp /\ q.stamp[2] <= time
    /\ q.at \in Under \ {"open"} => q.stamp[1] \in Inodes
    /\ \A i \in Inodes : File!StampOf(i) = q.version => AtLeast(inodes[i].text, q.asOf)
    /\ q.at = "halfway" /\ File!StampOf(q.handle) = q.stamp
         => q.text[1] = inodes[q.handle].text[1]
    /\ q.at = "checking" /\ File!StampOf(q.handle) = q.stamp => q.text = inodes[q.handle].text
    /\ q.at \in {"checked", "parsing"} => Speaks(q.version, q.text)

GetOK(q) == q # Idle => HandleOK(q) /\ (IF coarse THEN CoarseOK(q) ELSE FineOK(q))

HoldsEntry(q) ==
    \/ q.at \in {"locked", "checking", "checked", "parsing"}
    \/ ~coarse /\ q.at \in {"reading", "halfway"}

FileInv ==
    /\ FileTyped /\ FileWorld /\ EntryOK(entry)
    /\ \A d \in Clients : GetOK(get[d]) /\ (HoldsEntry(get[d]) => lock = d)

LEMMA FileFacts ==
    /\ File!Idle = Idle /\ Idle \notin Gets /\ ~HoldsEntry(Idle)
    /\ File!Unread \in Texts /\ File!Unread[1] = 0 /\ File!Unread[2] = 0 /\ Whole(File!Unread)
    /\ 0 \notin Inodes /\ Inodes \subseteq Nat /\ Nobody \notin Clients /\ Attempts \in Nat \ {0}
    /\ \A t \in Texts, x \in Nat : /\ [t EXCEPT ![1] = x] = <<x, t[2]>>
                                  /\ [t EXCEPT ![2] = x] = <<t[1], x>>
    /\ \A t \in Texts : t[1] \in Nat /\ t[2] \in Nat /\ t = <<t[1], t[2]>>
    /\ \A a, b \in Nat : <<a, b>> \in Texts /\ <<a, b>>[1] = a /\ <<a, b>>[2] = b
<1>1. File!Idle = Idle /\ Idle \notin Gets /\ ~HoldsEntry(Idle)
  BY DEF File!Idle, Idle, Gets, HoldsEntry, Under
<1>2. /\ File!Unread \in Texts /\ File!Unread[1] = 0 /\ File!Unread[2] = 0 /\ Whole(File!Unread)
      /\ 0 \notin Inodes /\ Inodes \subseteq Nat /\ Nobody \notin Clients /\ Attempts \in Nat \ {0}
  BY FileBounds DEF File!FileConstants, File!Unread, Texts, Whole
<1>3. \A t \in Texts, x \in Nat : /\ [t EXCEPT ![1] = x] = <<x, t[2]>>
                                 /\ [t EXCEPT ![2] = x] = <<t[1], x>>
  BY DEF Texts
<1>4. /\ \A t \in Texts : t[1] \in Nat /\ t[2] \in Nat /\ t = <<t[1], t[2]>>
      /\ \A a, b \in Nat : <<a, b>> \in Texts /\ <<a, b>>[1] = a /\ <<a, b>>[2] = b
  BY DEF Texts
<1>5. QED
  BY <1>1, <1>2, <1>3, <1>4

LEMMA FileImplied == FileInv => File!TypeOK /\ File!AnswerIsCurrent /\ File!NeverTorn
                               /\ File!KeptIsItsVersion
<1> SUFFICES ASSUME FileInv
             PROVE  File!TypeOK /\ File!AnswerIsCurrent /\ File!NeverTorn /\ File!KeptIsItsVersion
  OBVIOUS
<1>1. \A d \in Clients : get[d] # Idle => get[d] \in Gets
  BY DEF FileInv, FileTyped
<1>2. File!TypeOK
  BY <1>1, FileFacts DEF FileInv, FileTyped, File!TypeOK, Gets, HoldsEntry
<1>3. \A d \in Clients : get[d].at = "answered" => get[d] # Idle
  BY DEF Idle
<1>4. \A d \in Clients : get[d].at = "answered" =>
        /\ get[d].text # File!Unread => AtLeast(get[d].text, get[d].asOf)
        /\ ~coarse => Whole(get[d].text)
  BY <1>3 DEF FileInv, GetOK, HandleOK
<1>5. File!AnswerIsCurrent
  BY <1>1, <1>3, <1>4, FileFacts DEF File!AnswerIsCurrent, File!Is, AtLeast, Gets
<1>6. File!NeverTorn
  BY <1>4 DEF File!NeverTorn, File!Is, Whole
<1>7. File!KeptIsItsVersion
  BY DEF FileInv, EntryOK, Speaks, File!KeptIsItsVersion
<1>8. QED
  BY <1>2, <1>5, <1>6, <1>7

LEMMA FileInit == File!Init => FileInv
<1> SUFFICES ASSUME File!Init PROVE FileInv
  OBVIOUS
<1>1. (CHOOSE i \in Inodes : TRUE) \in Inodes
  BY FileBounds DEF File!FileConstants
<1>2. FileTyped
  BY <1>1, FileFacts DEF File!Init, FileTyped
<1>3. FileWorld
  BY <1>1, FileFacts DEF File!Init, FileWorld, Whole
<1>4. EntryOK(entry)
  BY DEF File!Init, EntryOK
<1>5. \A d \in Clients : GetOK(get[d]) /\ ~HoldsEntry(get[d])
  BY FileFacts DEF File!Init, GetOK
<1>6. QED
  BY <1>2, <1>3, <1>4, <1>5 DEF FileInv

\* A request moves from what it has in hand of the file to q, and the file stays.
Takes(d, q) ==
    /\ get' = [get EXCEPT ![d] = q]
    /\ UNCHANGED <<path, inodes, coarse, time, writes, editing>>

\* Where the clock is fine, the version it has is none, the one it had for the same promise,
\* or that of a file that keeps it.
SawFairly(d, q) ==
    \/ coarse
    \/ q.version = File!Unread
    \/ get[d] # Idle /\ q.version = get[d].version /\ q.asOf = get[d].asOf
    \/ \E i \in Inodes : q.version = File!StampOf(i) /\ AtLeast(inodes[i].text, q.asOf)

LEMMA SpeaksStays ==
  ASSUME FileInv, ~coarse, NEW d \in Clients, NEW q \in Gets, Takes(d, q), SawFairly(d, q),
         NEW v, NEW x, Speaks(v, x)
  PROVE  Speaks(v, x)'
<1>1. ASSUME NEW r \in Clients, get'[r] # Idle, get'[r].version = v
      PROVE  AtLeast(x, get'[r].asOf)
  <2>1. CASE r # d
    BY <1>1, <2>1 DEF FileInv, FileTyped, Takes, Speaks
  <2>2. CASE r = d
    <3>1. get'[r] = q
      BY <2>2 DEF FileInv, FileTyped, Takes
    <3>2. q.version # File!Unread
      BY <1>1, <3>1, FileFacts DEF Speaks
    <3>3. CASE get[d] # Idle /\ q.version = get[d].version /\ q.asOf = get[d].asOf
      BY <1>1, <2>2, <3>1, <3>3 DEF Speaks
    <3>4. CASE \E i \in Inodes : q.version = File!StampOf(i) /\ AtLeast(inodes[i].text, q.asOf)
      BY <1>1, <3>1, <3>4 DEF Speaks
    <3>5. QED
      BY <3>2, <3>3, <3>4 DEF SawFairly
  <2>3. QED
    BY <2>1, <2>2
<1>2. \A r \in Clients : get'[r] # Idle /\ get'[r].version = v => AtLeast(x, get'[r].asOf)
  BY <1>1
<1>3. QED
  BY <1>2 DEF Speaks, Takes, File!StampOf, Idle, AtLeast, Whole

LEMMA Taken ==
  ASSUME FileInv, NEW d \in Clients, NEW q \in Gets, Takes(d, q), SawFairly(d, q), GetOK(q),
         NEW e \in [version : Texts, text : Texts], entry' = e, EntryOK(e),
         lock' \in Clients \cup {Nobody},
         lock' = lock \/ lock \in {d, Nobody}, HoldsEntry(q) => lock' = d
  PROVE  FileInv'
<1>1. /\ get' \in [Clients -> {Idle} \cup Gets] /\ get'[d] = q
      /\ \A r \in Clients \ {d} : get'[r] = get[r]
  BY DEF FileInv, FileTyped, Takes
<1>2. FileTyped'
  BY <1>1 DEF FileInv, FileTyped, Takes, Gets, Texts, Under, Idle
<1>3. FileWorld'
  BY DEF FileInv, FileWorld, Takes, Whole
<1>4. EntryOK(entry)'
  <2>1. CASE coarse
    BY <2>1 DEF EntryOK, Takes
  <2>2. CASE ~coarse
    <3>1. e.version # File!Unread => Speaks(e.version, e.text)'
      BY <2>2, SpeaksStays DEF EntryOK
    <3>2. QED
      BY <2>2, <3>1 DEF EntryOK, Takes, Speaks, File!Unread
  <2>3. QED
    BY <2>1, <2>2
<1>5. ASSUME NEW x \in Gets, GetOK(x) PROVE GetOK(x)'
  <2>1. HandleOK(x)'
    BY <1>5, FileFacts DEF GetOK, HandleOK, Takes, Promised, AtLeast, Whole, File!Unread
  <2>2. CoarseOK(x) => CoarseOK(x)'
    BY DEF CoarseOK, AtLeast
  <2>3. ~coarse /\ FineOK(x) => FineOK(x)'
    <3> SUFFICES ASSUME ~coarse, FineOK(x) PROVE FineOK(x)'
      OBVIOUS
    <3>1. Speaks(x.version, x.text) => Speaks(x.version, x.text)'
      BY SpeaksStays
    <3>2. QED
      BY <3>1 DEF FineOK, Takes, File!StampOf, AtLeast
  <2>4. QED
    BY <1>5, <2>1, <2>2, <2>3, FileFacts DEF GetOK, Takes
<1>6. ASSUME NEW r \in Clients PROVE GetOK(get[r])' /\ (HoldsEntry(get[r])' => lock' = r)
  <2>1. PICK x : x = get'[r]
    OBVIOUS
  <2>2. x = Idle \/ (x \in Gets /\ GetOK(x))
    BY <1>1, <2>1 DEF FileInv
  <2>3. GetOK(x)'
    BY <2>2, <1>5 DEF GetOK, Idle
  <2>4. GetOK(get[r])'
    BY <2>1, <2>3 DEF GetOK, HandleOK, CoarseOK, FineOK, Speaks, Idle
  <2>5. HoldsEntry(get'[r]) => lock' = r
    <3>1. CASE r = d
      BY <1>1, <3>1
    <3>2. CASE r # d
      <4>1. HoldsEntry(get[r]) => lock = r
        BY DEF FileInv
      <4>2. QED
        BY <1>1, <3>2, <4>1, FileFacts
    <3>3. QED
      BY <3>1, <3>2
  <2>6. HoldsEntry(get[r])' <=> HoldsEntry(get'[r])
    BY DEF HoldsEntry, Takes
  <2>7. QED
    BY <2>4, <2>5, <2>6
<1>7. QED
  BY <1>2, <1>3, <1>4, <1>6 DEF FileInv

LEMMA GetInHand ==
  ASSUME FileInv, NEW d \in Clients, get[d].at # "idle"
  PROVE  get[d] \in Gets /\ get[d] # Idle /\ GetOK(get[d])
  BY DEF FileInv, FileTyped, Idle

LEMMA EntryKept ==
  ASSUME FileInv, UNCHANGED entry
  PROVE  \E e \in [version : Texts, text : Texts] : entry' = e /\ EntryOK(e)
  BY DEF FileInv, FileTyped

FileStays == UNCHANGED <<path, inodes, coarse, time, writes, editing>>

\* Whoever answers with a text, answers with one as new as was promised.
LEMMA AnswerTaken ==
  ASSUME FileInv, NEW d \in Clients, get[d].at \in Under \cup {"opening"}, NEW t \in Texts,
         t # File!Unread => AtLeast(t, get[d].asOf), ~coarse => Whole(t),
         File!Answer(d, t), FileStays,
         \E e \in [version : Texts, text : Texts] : entry' = e /\ EntryOK(e),
         lock' \in Clients \cup {Nobody}, lock' = lock \/ lock \in {d, Nobody}
  PROVE  FileInv'
<1>1. PICK q : q = [get[d] EXCEPT !.at = "answered", !.text = t, !.handle = 0]
  OBVIOUS
<1>2. get[d] \in Gets /\ get[d] # Idle /\ GetOK(get[d])
  BY GetInHand DEF Under
<1>3. q \in Gets
  BY <1>1, <1>2, FileFacts DEF Gets
<1>4. Takes(d, q)
  BY <1>1, <1>2 DEF File!Answer, Takes, FileStays, FileInv, FileTyped, Gets
<1>5. SawFairly(d, q)
  BY <1>1, <1>2 DEF SawFairly, Gets
<1>6. HandleOK(q)
  BY <1>1, <1>2 DEF GetOK, HandleOK, Gets, Under
<1>7. IF coarse THEN CoarseOK(q) ELSE FineOK(q)
  BY <1>1, <1>2 DEF GetOK, CoarseOK, FineOK, Gets, Under
<1>8. ~HoldsEntry(q)
  BY <1>1, <1>2 DEF HoldsEntry, Gets
<1>9. QED
  BY <1>3, <1>4, <1>5, <1>6, <1>7, <1>8, Taken DEF GetOK

LEMMA HitAnswers ==
  ASSUME FileInv, NEW d \in Clients, get[d].at \in {"looking", "locked"}, File!Hit(d)
  PROVE  /\ entry.text \in Texts
         /\ entry.text # File!Unread => AtLeast(entry.text, get[d].asOf)
         /\ ~coarse => Whole(entry.text)
<1>1. get[d] \in Gets /\ get[d] # Idle /\ GetOK(get[d])
  BY GetInHand
<1>2. entry.text \in Texts /\ entry.version = get[d].version /\ EntryOK(entry)
  BY DEF FileInv, FileTyped, File!Hit
<1>3. CASE coarse
  BY <1>1, <1>2, <1>3 DEF GetOK, CoarseOK, EntryOK, Under
<1>4. CASE ~coarse
  <2>1. entry.version # File!Unread
    BY <1>1, <1>2, <1>4, FileFacts DEF GetOK, FineOK, Under
  <2>2. Speaks(entry.version, entry.text)
    BY <1>2, <1>4, <2>1 DEF EntryOK
  <2>3. QED
    BY <1>1, <1>2, <2>2 DEF Speaks
<1>5. QED
  BY <1>3, <1>4

LEMMA FileAskKeeps ==
  ASSUME FileInv, NEW d \in Clients, File!Ask(d)
  PROVE  FileInv'
<1>1. PICK t : t = IF path = 0 THEN <<writes, writes>> ELSE inodes[path].text
  OBVIOUS
<1>2. t \in Texts /\ Promised(t)
  BY <1>1, FileFacts DEF FileInv, FileTyped, FileWorld, Promised
<1>3. PICK q : q = [at |-> "opening", left |-> Attempts, handle |-> 0, stamp |-> File!Unread,
                    version |-> File!Unread, text |-> File!Unread, asOf |-> t]
  OBVIOUS
<1>4. q \in Gets
  BY <1>2, <1>3, FileFacts DEF Gets
<1>5. Takes(d, q) /\ SawFairly(d, q)
  BY <1>1, <1>3 DEF File!Ask, File!file, Takes, SawFairly
<1>6. HandleOK(q)
  BY <1>2, <1>3 DEF HandleOK, Under
<1>7. CoarseOK(q)
  BY <1>3 DEF CoarseOK, Under
<1>8. FineOK(q)
  BY <1>3, FileFacts DEF FineOK, File!StampOf, FileInv, FileTyped, Under
<1>9. ~HoldsEntry(q)
  BY <1>3 DEF HoldsEntry
<1>10. UNCHANGED <<entry, lock>>
  BY DEF File!Ask
<1>11. QED
  BY <1>4, <1>5, <1>6, <1>7, <1>8, <1>9, <1>10, EntryKept, Taken DEF GetOK, FileInv, FileTyped

LEMMA OpenKeeps ==
  ASSUME FileInv, NEW d \in Clients, File!Open(d)
  PROVE  FileInv'
<1>1. /\ get[d] \in Gets /\ get[d] # Idle /\ GetOK(get[d]) /\ get[d].at = "opening"
      /\ FileStays /\ UNCHANGED <<entry, lock>> /\ lock' \in Clients \cup {Nobody}
  BY GetInHand DEF File!Open, File!Is, File!file, FileStays, FileInv, FileTyped
<1>2. CASE path = 0
  BY <1>1, <1>2, FileFacts, EntryKept, AnswerTaken DEF File!Open
<1>3. CASE path # 0
  <2>1. PICK q : q = [get[d] EXCEPT !.at = "open", !.handle = path]
    OBVIOUS
  <2>2. path \in Inodes
    BY <1>3 DEF FileInv, FileTyped
  <2>3. q \in Gets
    BY <1>1, <2>1, <2>2 DEF Gets, Under
  <2>4. Takes(d, q)
    BY <1>1, <1>3, <2>1 DEF File!Open, Takes, FileStays, FileInv, FileTyped, Gets
  <2>5. SawFairly(d, q)
    BY <1>1, <2>1 DEF SawFairly, Gets
  <2>6. AtLeast(inodes[path].text, get[d].asOf)
    BY <1>1, <1>3, FileFacts DEF AtLeast, Promised, GetOK, HandleOK, FileInv, FileTyped, FileWorld, Gets
  <2>7. HandleOK(q)
    BY <1>1, <1>3, <2>1, <2>6 DEF GetOK, HandleOK, Gets, Under
  <2>8. IF coarse THEN CoarseOK(q) ELSE FineOK(q)
    BY <1>1, <2>1 DEF GetOK, CoarseOK, FineOK, Gets, Under
  <2>9. ~HoldsEntry(q)
    BY <1>1, <2>1 DEF HoldsEntry, Gets
  <2>10. QED
    BY <1>1, <2>3, <2>4, <2>5, <2>7, <2>8, <2>9, EntryKept, Taken DEF GetOK
<1>4. QED
  BY <1>2, <1>3

LEMMA StatKeeps ==
  ASSUME FileInv, NEW d \in Clients, File!Stat(d)
  PROVE  FileInv'
<1>1. /\ get[d] \in Gets /\ get[d] # Idle /\ GetOK(get[d]) /\ get[d].at = "open"
      /\ FileStays /\ UNCHANGED entry
  BY GetInHand DEF File!Stat, File!Is, File!file, FileStays
<1>2. get[d].handle \in Inodes /\ inodes[get[d].handle] \in [text : Texts, time : Nat]
  BY <1>1 DEF GetOK, HandleOK, Gets, Under, FileInv, FileTyped
<1>3. PICK q : q = [get[d] EXCEPT !.at = IF coarse THEN "reading" ELSE "looking",
                                  !.stamp = File!StampOf(get[d].handle),
                                  !.version = IF coarse THEN File!Unread
                                              ELSE File!StampOf(get[d].handle)]
  OBVIOUS
<1>4. q \in Gets
  BY <1>1, <1>2, <1>3, FileFacts DEF Gets, Under, File!StampOf
<1>5. Takes(d, q)
  BY <1>1, <1>3 DEF File!Stat, File!Go, File!Is, Takes, FileStays, FileInv, FileTyped, Gets
<1>6. SawFairly(d, q)
  BY <1>1, <1>2, <1>3, FileFacts DEF SawFairly, Gets, GetOK, HandleOK, CoarseOK, FineOK, Under
<1>7. HandleOK(q)
  BY <1>1, <1>2, <1>3 DEF GetOK, HandleOK, Gets, Under
<1>8. IF coarse THEN CoarseOK(q) ELSE FineOK(q)
  <2>1. CASE coarse
    BY <1>1, <1>3, <2>1 DEF CoarseOK, Gets, Under
  <2>2. CASE ~coarse
    <3>1. /\ q.at = "looking" /\ q.stamp = File!StampOf(get[d].handle) /\ q.version = q.stamp
          /\ q.asOf = get[d].asOf /\ q.handle = get[d].handle
      BY <1>1, <1>3, <2>2 DEF Gets
    <3>2. q.stamp[1] = get[d].handle /\ q.stamp[2] = inodes[get[d].handle].time
      BY <3>1 DEF File!StampOf
    <3>3. \A i \in Inodes : File!StampOf(i) = q.version => i = get[d].handle
      BY <3>1 DEF File!StampOf
    <3>4. AtLeast(inodes[get[d].handle].text, q.asOf)
      BY <1>1, <1>2, <3>1, FileFacts DEF GetOK, HandleOK
    <3>5. q.stamp[2] <= time
      BY <1>2, <3>2 DEF FileInv, FileWorld
    <3>6. QED
      BY <1>2, <2>2, <3>1, <3>2, <3>3, <3>4, <3>5 DEF FineOK, Under
  <2>3. QED
    BY <2>1, <2>2
<1>9. HoldsEntry(q) => lock' = d
  BY <1>1, <1>3 DEF HoldsEntry, Gets
<1>10. lock' \in Clients \cup {Nobody} /\ (lock' = lock \/ lock \in {d, Nobody})
  BY DEF File!Stat, FileInv, FileTyped
<1>11. QED
  BY <1>1, <1>4, <1>5, <1>6, <1>7, <1>8, <1>9, <1>10, EntryKept, Taken DEF GetOK

LEMMA LookKeepsFile ==
  ASSUME FileInv, NEW d \in Clients, File!Look(d)
  PROVE  FileInv'
<1>1. /\ get[d] \in Gets /\ get[d] # Idle /\ GetOK(get[d]) /\ get[d].at = "looking"
      /\ FileStays /\ UNCHANGED <<entry, lock>> /\ lock' \in Clients \cup {Nobody}
  BY GetInHand DEF File!Look, File!Is, File!file, FileStays, FileInv, FileTyped
<1>2. CASE File!Hit(d)
  BY <1>1, <1>2, HitAnswers, EntryKept, AnswerTaken DEF File!Look, Under
<1>3. CASE ~File!Hit(d)
  <2>1. PICK q : q = [get[d] EXCEPT !.at = "missing"]
    OBVIOUS
  <2>2. q \in Gets
    BY <1>1, <2>1 DEF Gets, Under
  <2>3. Takes(d, q)
    BY <1>1, <1>3, <2>1 DEF File!Look, File!Go, Takes, FileStays, FileInv, FileTyped, Gets
  <2>4. SawFairly(d, q)
    BY <1>1, <2>1 DEF SawFairly, Gets
  <2>5. HandleOK(q)
    BY <1>1, <2>1 DEF GetOK, HandleOK, Gets, Under
  <2>6. IF coarse THEN CoarseOK(q) ELSE FineOK(q)
    BY <1>1, <2>1 DEF GetOK, CoarseOK, FineOK, Gets, Under
  <2>7. ~HoldsEntry(q)
    BY <1>1, <2>1 DEF HoldsEntry, Gets
  <2>8. QED
    BY <1>1, <2>2, <2>3, <2>4, <2>5, <2>6, <2>7, EntryKept, Taken DEF GetOK
<1>4. QED
  BY <1>2, <1>3

LEMMA LockEntryKeeps ==
  ASSUME FileInv, NEW d \in Clients, File!LockEntry(d)
  PROVE  FileInv'
<1>1. /\ get[d] \in Gets /\ get[d] # Idle /\ GetOK(get[d]) /\ get[d].at = "missing"
      /\ FileStays /\ UNCHANGED entry
  BY GetInHand DEF File!LockEntry, File!Is, File!file, FileStays
<1>2. get[d].handle \in Inodes /\ inodes[get[d].handle] \in [text : Texts, time : Nat]
  BY <1>1 DEF GetOK, HandleOK, Gets, Under, FileInv, FileTyped
<1>3. PICK q : q = [get[d] EXCEPT !.at = "locked"]
  OBVIOUS
<1>4. q \in Gets
  BY <1>1, <1>2, <1>3, FileFacts DEF Gets, Under, File!StampOf
<1>5. Takes(d, q)
  BY <1>1, <1>3 DEF File!LockEntry, File!Go, File!Is, Takes, FileStays, FileInv, FileTyped, Gets
<1>6. SawFairly(d, q)
  BY <1>1, <1>2, <1>3 DEF SawFairly, Gets, GetOK, HandleOK, CoarseOK, FineOK, Under
<1>7. HandleOK(q)
  BY <1>1, <1>2, <1>3 DEF GetOK, HandleOK, Gets, Under
<1>8. IF coarse THEN CoarseOK(q) ELSE FineOK(q)
  BY <1>1, <1>2, <1>3 DEF GetOK, HandleOK, CoarseOK, FineOK, Gets, Under
<1>9. HoldsEntry(q) => lock' = d
  BY DEF File!LockEntry
<1>10. lock' \in Clients \cup {Nobody} /\ (lock' = lock \/ lock \in {d, Nobody})
  BY DEF File!LockEntry, FileInv, FileTyped
<1>11. QED
  BY <1>1, <1>4, <1>5, <1>6, <1>7, <1>8, <1>9, <1>10, EntryKept, Taken DEF GetOK

LEMMA LookAgainKeeps ==
  ASSUME FileInv, NEW d \in Clients, File!LookAgain(d)
  PROVE  FileInv'
<1>1. /\ get[d] \in Gets /\ get[d] # Idle /\ GetOK(get[d]) /\ get[d].at = "locked"
      /\ FileStays /\ UNCHANGED entry /\ lock = d
  BY GetInHand DEF File!LookAgain, File!Is, File!file, FileStays, FileInv, HoldsEntry
<1>2. CASE File!Hit(d)
  BY <1>1, <1>2, HitAnswers, EntryKept, AnswerTaken DEF File!LookAgain, Under
<1>3. CASE ~File!Hit(d)
  <2>1. PICK q : q = [get[d] EXCEPT !.at = IF coarse THEN "checking" ELSE "reading"]
    OBVIOUS
  <2>2. q \in Gets
    BY <1>1, <2>1 DEF Gets, Under
  <2>3. Takes(d, q) /\ lock' = d
    BY <1>1, <1>3, <2>1 DEF File!LookAgain, File!Go, Takes, FileStays, FileInv, FileTyped, Gets
  <2>4. SawFairly(d, q)
    BY <1>1, <2>1 DEF SawFairly, Gets
  <2>5. HandleOK(q)
    BY <1>1, <2>1 DEF GetOK, HandleOK, CoarseOK, Gets, Under
  <2>6. IF coarse THEN CoarseOK(q) ELSE FineOK(q)
    BY <1>1, <2>1 DEF GetOK, CoarseOK, FineOK, Gets, Under
  <2>7. QED
    BY <1>1, <2>2, <2>3, <2>4, <2>5, <2>6, EntryKept, Taken DEF GetOK
<1>4. QED
  BY <1>2, <1>3

LEMMA ReadFirstKeeps ==
  ASSUME FileInv, NEW d \in Clients, File!ReadFirst(d)
  PROVE  FileInv'
<1>1. /\ get[d] \in Gets /\ get[d] # Idle /\ GetOK(get[d]) /\ get[d].at = "reading"
      /\ FileStays /\ UNCHANGED entry
  BY GetInHand DEF File!ReadFirst, File!Is, File!file, FileStays
<1>2. get[d].handle \in Inodes /\ inodes[get[d].handle] \in [text : Texts, time : Nat]
  BY <1>1 DEF GetOK, HandleOK, Gets, Under, FileInv, FileTyped
<1>3. PICK q : q = [get[d] EXCEPT !.at = "halfway",
                                  !.text = <<inodes[get[d].handle].text[1], get[d].text[2]>>]
  OBVIOUS
<1>r. /\ q.text \in Texts /\ q.text = [get[d].text EXCEPT ![1] = inodes[get[d].handle].text[1]]
      /\ q.text[1] = inodes[get[d].handle].text[1]
      /\ inodes[get[d].handle].text[1] >= get[d].asOf[1]
  BY <1>1, <1>2, <1>3, FileFacts DEF Gets, GetOK, HandleOK, AtLeast, Under
<1>4. q \in Gets
  BY <1>1, <1>2, <1>3, FileFacts, <1>r DEF Gets, Under, File!StampOf
<1>5. Takes(d, q)
  BY <1>1, <1>3, <1>r DEF File!ReadFirst, File!Go, File!Is, Takes, FileStays, FileInv, FileTyped, Gets
<1>6. SawFairly(d, q)
  BY <1>1, <1>2, <1>3 DEF SawFairly, Gets, GetOK, HandleOK, CoarseOK, FineOK, Under
<1>7. HandleOK(q)
  BY <1>1, <1>2, <1>3, <1>r, FileFacts DEF GetOK, HandleOK, Gets, Under
<1>8. IF coarse THEN CoarseOK(q) ELSE FineOK(q)
  BY <1>1, <1>2, <1>3, <1>r DEF GetOK, HandleOK, CoarseOK, FineOK, Gets, Under
<1>9. HoldsEntry(q) => lock' = d
  <2>1. HoldsEntry(q) => HoldsEntry(get[d])
    BY <1>1, <1>3 DEF HoldsEntry, Gets
  <2>2. QED
    BY <2>1 DEF FileInv, File!ReadFirst
<1>10. lock' \in Clients \cup {Nobody} /\ (lock' = lock \/ lock \in {d, Nobody})
  BY DEF File!ReadFirst, FileInv, FileTyped
<1>11. QED
  BY <1>1, <1>4, <1>5, <1>6, <1>7, <1>8, <1>9, <1>10, EntryKept, Taken DEF GetOK

LEMMA ReadSecondKeeps ==
  ASSUME FileInv, NEW d \in Clients, File!ReadSecond(d)
  PROVE  FileInv'
<1>1. /\ get[d] \in Gets /\ get[d] # Idle /\ GetOK(get[d]) /\ get[d].at = "halfway"
      /\ FileStays /\ UNCHANGED entry
  BY GetInHand DEF File!ReadSecond, File!Is, File!file, FileStays
<1>2. get[d].handle \in Inodes /\ inodes[get[d].handle] \in [text : Texts, time : Nat]
  BY <1>1 DEF GetOK, HandleOK, Gets, Under, FileInv, FileTyped
<1>3. PICK q : q = [get[d] EXCEPT !.at = IF coarse THEN "looking" ELSE "checking",
                                  !.text = <<get[d].text[1], inodes[get[d].handle].text[2]>>,
                                  !.version = IF coarse
                                              THEN <<get[d].text[1], inodes[get[d].handle].text[2]>>
                                              ELSE get[d].version]
  OBVIOUS
<1>r. /\ q.text \in Texts /\ q.text = <<get[d].text[1], inodes[get[d].handle].text[2]>>
      /\ AtLeast(q.text, get[d].asOf)
      /\ q.text[1] = get[d].text[1] /\ q.text[2] = inodes[get[d].handle].text[2]
      /\ get[d].text[1] = inodes[get[d].handle].text[1] => q.text = inodes[get[d].handle].text
  BY <1>1, <1>2, <1>3, FileFacts DEF Gets, GetOK, HandleOK, AtLeast, Under
<1>4. q \in Gets
  BY <1>1, <1>2, <1>3, FileFacts, <1>r DEF Gets, Under, File!StampOf
<1>5. Takes(d, q)
  BY <1>1, <1>3, <1>r DEF File!ReadSecond, File!Go, File!Is, Takes, FileStays, FileInv, FileTyped, Gets
<1>6. SawFairly(d, q)
  BY <1>1, <1>2, <1>3 DEF SawFairly, Gets, GetOK, HandleOK, CoarseOK, FineOK, Under
<1>7. HandleOK(q)
  BY <1>1, <1>2, <1>3, <1>r, FileFacts DEF GetOK, HandleOK, Gets, Under
<1>8. IF coarse THEN CoarseOK(q) ELSE FineOK(q)
  BY <1>1, <1>2, <1>3, <1>r DEF GetOK, HandleOK, CoarseOK, FineOK, Gets, Under
<1>9. HoldsEntry(q) => lock' = d
  <2>1. HoldsEntry(q) => HoldsEntry(get[d])
    BY <1>1, <1>3 DEF HoldsEntry, Gets
  <2>2. QED
    BY <2>1 DEF FileInv, File!ReadSecond
<1>10. lock' \in Clients \cup {Nobody} /\ (lock' = lock \/ lock \in {d, Nobody})
  BY DEF File!ReadSecond, FileInv, FileTyped
<1>11. QED
  BY <1>1, <1>4, <1>5, <1>6, <1>7, <1>8, <1>9, <1>10, EntryKept, Taken DEF GetOK

\* A request that looks again has what it was promised before it.
LEMMA RetryTaken ==
  ASSUME FileInv, NEW d \in Clients, get[d].at \in {"checking", "checked"}, File!Retry(d),
         FileStays, UNCHANGED entry
  PROVE  FileInv'
<1>1. get[d] \in Gets /\ get[d] # Idle /\ GetOK(get[d]) /\ lock = d
  BY GetInHand DEF FileInv, HoldsEntry
<1>2. PICK q : q = IF get[d].left = 1
                   THEN [get[d] EXCEPT !.at = "answered", !.text = File!Unread, !.handle = 0]
                   ELSE [get[d] EXCEPT !.at = "opening", !.left = get[d].left - 1,
                                       !.text = File!Unread, !.handle = 0]
  OBVIOUS
<1>3. get[d].left # 1 => get[d].left - 1 \in 1 .. Attempts
  BY <1>1, FileFacts DEF Gets
<1>4. q \in Gets
  BY <1>1, <1>2, <1>3, FileFacts DEF Gets
<1>5. Takes(d, q)
  BY <1>1, <1>2 DEF File!Retry, Takes, FileStays, FileInv, FileTyped, Gets
<1>6. SawFairly(d, q)
  BY <1>1, <1>2 DEF SawFairly, Gets
<1>7. q.at \in {"answered", "opening"} /\ q.text = File!Unread /\ q.handle = 0
      /\ q.asOf = get[d].asOf /\ q.version = get[d].version /\ q.stamp = get[d].stamp
  BY <1>1, <1>2 DEF Gets
<1>8. HandleOK(q)
  BY <1>1, <1>7, FileFacts DEF GetOK, HandleOK, Under
<1>9. IF coarse THEN CoarseOK(q) ELSE FineOK(q)
  BY <1>1, <1>7 DEF GetOK, CoarseOK, FineOK, Under
<1>10. ~HoldsEntry(q)
  BY <1>7 DEF HoldsEntry
<1>11. lock' = Nobody
  BY DEF File!Retry
<1>12. QED
  BY <1>1, <1>4, <1>5, <1>6, <1>8, <1>9, <1>10, <1>11, EntryKept, Taken DEF GetOK

LEMMA CheckHandleKeeps ==
  ASSUME FileInv, NEW d \in Clients, File!CheckHandle(d)
  PROVE  FileInv'
<1>1. /\ get[d] \in Gets /\ get[d] # Idle /\ GetOK(get[d]) /\ get[d].at = "checking"
      /\ FileStays /\ UNCHANGED entry /\ lock = d
  BY GetInHand DEF File!CheckHandle, File!Is, File!file, FileStays, FileInv, HoldsEntry
<1>2. CASE File!StampOf(get[d].handle) # get[d].stamp
  BY <1>1, <1>2, RetryTaken DEF File!CheckHandle
<1>3. CASE File!StampOf(get[d].handle) = get[d].stamp
  <2>1. PICK q : q = [get[d] EXCEPT !.at = "checked"]
    OBVIOUS
  <2>2. q \in Gets
    BY <1>1, <2>1 DEF Gets, Under
  <2>3. Takes(d, q) /\ lock' = d
    BY <1>1, <1>3, <2>1 DEF File!CheckHandle, File!Go, Takes, FileStays, FileInv, FileTyped, Gets
  <2>4. SawFairly(d, q)
    BY <1>1, <2>1 DEF SawFairly, Gets
  <2>5. HandleOK(q)
    BY <1>1, <2>1 DEF GetOK, HandleOK, Gets, Under
  <2>6. ASSUME ~coarse PROVE Speaks(q.version, q.text)
    <3>1. /\ q.version = File!StampOf(q.handle) /\ q.text = inodes[q.handle].text
          /\ q.handle \in Inodes
      BY <1>1, <1>3, <2>1, <2>6 DEF GetOK, HandleOK, FineOK, Gets, Under
    <3>2. q.version[1] \in Inodes /\ q.version[2] <= time /\ Whole(q.text)
      BY <3>1 DEF File!StampOf, FileInv, FileWorld
    <3>3. \A i \in Inodes : File!StampOf(i) = q.version => inodes[i].text = q.text
      BY <3>1 DEF File!StampOf
    <3>4. ASSUME NEW r \in Clients, get[r] # Idle, get[r].version = q.version
          PROVE  AtLeast(q.text, get[r].asOf)
      BY <2>6, <3>1, <3>4 DEF FileInv, GetOK, FineOK
    <3>5. QED
      BY <3>2, <3>3, <3>4 DEF Speaks
  <2>7. IF coarse THEN CoarseOK(q) ELSE FineOK(q)
    BY <1>1, <2>1, <2>6 DEF GetOK, CoarseOK, FineOK, Gets, Under
  <2>8. QED
    BY <1>1, <2>2, <2>3, <2>4, <2>5, <2>7, EntryKept, Taken DEF GetOK
<1>4. QED
  BY <1>2, <1>3

LEMMA CheckPathKeeps ==
  ASSUME FileInv, NEW d \in Clients, File!CheckPath(d)
  PROVE  FileInv'
<1>1. /\ get[d] \in Gets /\ get[d] # Idle /\ GetOK(get[d]) /\ get[d].at = "checked"
      /\ FileStays /\ UNCHANGED entry /\ lock = d
  BY GetInHand DEF File!CheckPath, File!Is, File!file, FileStays, FileInv, HoldsEntry
<1>2. CASE path = 0 /\ File!Answer(d, File!Unread) /\ lock' = Nobody
  BY <1>1, <1>2, FileFacts, EntryKept, AnswerTaken DEF Under
<1>3. CASE File!Retry(d)
  BY <1>1, <1>3, RetryTaken
<1>4. CASE File!Go(d, "parsing") /\ UNCHANGED lock
  <2>1. PICK q : q = [get[d] EXCEPT !.at = "parsing"]
    OBVIOUS
  <2>2. q \in Gets
    BY <1>1, <2>1 DEF Gets, Under
  <2>3. Takes(d, q) /\ lock' = d
    BY <1>1, <1>4, <2>1 DEF File!Go, Takes, FileStays, FileInv, FileTyped, Gets
  <2>4. SawFairly(d, q)
    BY <1>1, <2>1 DEF SawFairly, Gets
  <2>5. HandleOK(q)
    BY <1>1, <2>1 DEF GetOK, HandleOK, Gets, Under
  <2>6. IF coarse THEN CoarseOK(q) ELSE FineOK(q)
    BY <1>1, <2>1 DEF GetOK, CoarseOK, FineOK, Gets, Under
  <2>7. QED
    BY <1>1, <2>2, <2>3, <2>4, <2>5, <2>6, EntryKept, Taken DEF GetOK
<1>5. QED
  BY <1>2, <1>3, <1>4 DEF File!CheckPath

LEMMA ParseKeeps ==
  ASSUME FileInv, NEW d \in Clients, File!Parse(d)
  PROVE  FileInv'
<1>1. /\ get[d] \in Gets /\ get[d] # Idle /\ GetOK(get[d]) /\ get[d].at = "parsing"
      /\ FileStays /\ lock = d /\ lock' = Nobody /\ File!Answer(d, get[d].text)
  BY GetInHand DEF File!Parse, File!Is, File!file, FileStays, FileInv, HoldsEntry
<1>2. PICK e : e = [version |-> get[d].version, text |-> get[d].text]
  OBVIOUS
<1>3. e \in [version : Texts, text : Texts] /\ entry' = e
  BY <1>1, <1>2 DEF File!Parse, Gets
<1>4. EntryOK(e)
  BY <1>1, <1>2 DEF EntryOK, GetOK, CoarseOK, FineOK, Under
<1>5. get[d].text \in Texts /\ AtLeast(get[d].text, get[d].asOf) /\ (~coarse => Whole(get[d].text))
  BY <1>1 DEF Gets, GetOK, HandleOK, FineOK, Speaks
<1>6. QED
  BY <1>1, <1>3, <1>4, <1>5, AnswerTaken DEF Under

LEMMA MalformedKeeps ==
  ASSUME FileInv, NEW d \in Clients, File!Malformed(d)
  PROVE  FileInv'
<1>1. /\ get[d].at \in {"parsing", "reading", "halfway"} /\ FileStays /\ UNCHANGED entry
      /\ lock' = (IF lock = d THEN Nobody ELSE lock) /\ File!Answer(d, File!Unread)
  BY DEF File!Malformed, File!file, FileStays
<1>2. lock' \in Clients \cup {Nobody} /\ (lock' = lock \/ lock \in {d, Nobody})
  BY <1>1 DEF FileInv, FileTyped
<1>3. QED
  BY <1>1, <1>2, FileFacts, EntryKept, AnswerTaken DEF Under

-----------------------------------------------------------------------------
(* Writes of the file.                                                     *)

\* The text of inode j becomes n, or none changes; the clock goes on, and where it is fine it
\* moves; nobody who holds j sees its text go back, and nobody was promised more.
Rewritten(j, n) ==
    /\ inodes' = [inodes EXCEPT ![j] = n] /\ n \in [text : Texts, time : Nat]
    /\ Whole(n.text) /\ n.time = time'
    /\ \A d \in Clients : get[d] # Idle /\ get[d].handle = j => AtLeast(n.text, inodes[j].text)

FileGoesOn ==
    /\ UNCHANGED <<coarse, entry, lock, get>>
    /\ time' \in Nat /\ writes' \in Nat /\ time <= time' /\ (~coarse => time < time')
    /\ path' \in Inodes \cup {0} /\ editing' \in Inodes \cup {0}
    /\ writes <= writes' /\ (editing' # 0 => writes <= writes' - 1)
    /\ editing' = 0 /\ path' # 0 => inodes'[path'].text = <<writes', writes'>>
    /\ editing' # 0 => /\ editing' = path' /\ writes' > 0
                       /\ inodes'[path'].text[1] = writes'
                       /\ inodes'[path'].text[2] = writes' - 1

LEMMA FileMoved ==
  ASSUME FileInv, FileGoesOn,
         UNCHANGED inodes \/ \E j \in Inodes : \E n : Rewritten(j, n)
  PROVE  FileInv'
<1>1. /\ inodes' \in [Inodes -> [text : Texts, time : Nat]]
      /\ \A i \in Inodes : Whole(inodes'[i].text) /\ inodes'[i].time <= time'
      /\ \A i \in Inodes : inodes'[i] = inodes[i] \/ inodes'[i].time = time'
      /\ \A d \in Clients, i \in Inodes : get[d] # Idle /\ get[d].handle = i
            => AtLeast(inodes'[i].text, inodes[i].text)
  <2>1. CASE UNCHANGED inodes
    BY <2>1 DEF FileInv, FileTyped, FileWorld, FileGoesOn, AtLeast, Texts
  <2>2. CASE \E j \in Inodes : \E n : Rewritten(j, n)
    <3>1. PICK j \in Inodes : \E n : Rewritten(j, n)
      BY <2>2
    <3>n. PICK n : Rewritten(j, n)
      BY <3>1
    <3>2. /\ n \in [text : Texts, time : Nat] /\ n.time = time' /\ Whole(n.text)
          /\ inodes'[j] = n /\ \A i \in Inodes \ {j} : inodes'[i] = inodes[i]
          /\ inodes' \in [Inodes -> [text : Texts, time : Nat]]
      BY <3>n DEF Rewritten, FileInv, FileTyped
    <3>3. \A i \in Inodes : inodes[i].time \in Nat /\ inodes[i].time <= time /\ Whole(inodes[i].text)
                            /\ inodes[i].text \in Texts
      BY DEF FileInv, FileTyped, FileWorld
    <3>4. time \in Nat /\ time' \in Nat /\ time <= time'
      BY DEF FileGoesOn, FileInv, FileTyped
    <3>5. \A i \in Inodes : Whole(inodes'[i].text) /\ inodes'[i].time <= time'
      BY <3>2, <3>3, <3>4
    <3>6. \A d \in Clients, i \in Inodes : get[d] # Idle /\ get[d].handle = i
            => AtLeast(inodes'[i].text, inodes[i].text)
      BY <3>n, <3>2, <3>3, FileFacts DEF Rewritten, AtLeast
    <3>7. QED
      BY <3>2, <3>5, <3>6
  <2>3. QED
    BY <2>1, <2>2
<1>2. UNCHANGED <<coarse, entry, lock, get>>
  BY DEF FileGoesOn
<1>3. FileTyped'
  BY <1>1, <1>2 DEF FileInv, FileTyped, FileGoesOn, Texts, Gets, Under, Idle
<1>4. FileWorld'
  BY <1>1 DEF FileWorld, FileGoesOn, Whole
<1>5. ASSUME ~coarse, NEW v, v[2] <= time, v[2] \in Nat, NEW i \in Inodes, File!StampOf(i)' = v
      PROVE  File!StampOf(i) = v /\ inodes'[i] = inodes[i]
  <2>1. inodes'[i].time <= time
    BY <1>5 DEF File!StampOf
  <2>2. time < time' /\ time \in Nat /\ time' \in Nat
    BY <1>5 DEF FileGoesOn, FileInv, FileTyped
  <2>3. inodes'[i] = inodes[i]
    BY <1>1, <2>1, <2>2
  <2>4. QED
    BY <1>5, <2>3 DEF File!StampOf
<1>6. ASSUME ~coarse, NEW v \in Texts, NEW x, Speaks(v, x) PROVE Speaks(v, x)'
  <2>1. v[2] \in Nat /\ v[2] <= time /\ v[2] <= time'
    BY <1>6, FileFacts DEF Speaks, FileGoesOn, FileInv, FileTyped
  <2>2. \A i \in Inodes : File!StampOf(i)' = v => inodes'[i].text = x
    BY <1>5, <1>6, <2>1 DEF Speaks
  <2>3. \A d \in Clients : get'[d] # Idle /\ get'[d].version = v => AtLeast(x, get'[d].asOf)
    BY <1>2, <1>6 DEF Speaks
  <2>4. QED
    BY <1>6, <2>1, <2>2, <2>3 DEF Speaks, AtLeast, Whole, Idle
<1>7. EntryOK(entry)'
  <2>1. CASE coarse
    BY <1>2, <2>1 DEF FileInv, EntryOK
  <2>2. CASE ~coarse
    <3>1. entry \in [version : Texts, text : Texts] /\ EntryOK(entry)
      BY DEF FileInv, FileTyped
    <3>2. PICK e : e = entry
      OBVIOUS
    <3>3. e.version # File!Unread => Speaks(e.version, e.text)'
      BY <1>6, <2>2, <3>1, <3>2 DEF EntryOK
    <3>4. QED
      BY <1>2, <2>2, <3>2, <3>3 DEF EntryOK, Speaks, File!Unread
  <2>3. QED
    BY <2>1, <2>2
<1>8. ASSUME NEW x \in Gets, NEW d \in Clients, x = get[d], GetOK(x) PROVE GetOK(x)'
  <2>1. x # Idle /\ HandleOK(x) /\ (IF coarse THEN CoarseOK(x) ELSE FineOK(x))
    BY <1>8, FileFacts DEF GetOK
  <2>2. x.asOf \in Texts /\ x.handle \in Inodes \cup {0} /\ x.stamp \in Texts /\ x.version \in Texts
    BY DEF Gets
  <2>3. Promised(x.asOf)'
    <3>1. x.asOf[1] \in Nat /\ x.asOf[2] \in Nat /\ writes \in Nat
      BY <2>2, FileFacts DEF FileInv, FileTyped
    <3>2. x.asOf[1] <= writes /\ x.asOf[2] <= writes
      BY <2>1, <3>1 DEF HandleOK, Promised
    <3>3. writes' \in Nat /\ writes <= writes' /\ (editing' # 0 => writes <= writes' - 1)
      BY DEF FileGoesOn
    <3>4. /\ x.asOf[1] <= writes'
          /\ editing' # 0 => x.asOf[2] <= writes' - 1
          /\ editing' = 0 => x.asOf[2] <= writes'
      <4>1. \A a, w, v \in Nat : a <= w => (w <= v => a <= v) /\ (w <= v - 1 => a <= v - 1)
        OBVIOUS
      <4>2. QED
        BY <3>1, <3>2, <3>3, <4>1
    <3>5. QED
      BY <3>4 DEF Promised
  <2>4. x.handle # 0 => AtLeast(inodes'[x.handle].text, x.asOf)
    <3> SUFFICES ASSUME x.handle # 0 PROVE AtLeast(inodes'[x.handle].text, x.asOf)
      OBVIOUS
    <3>1. x.handle \in Inodes
      BY <2>2
    <3>2. inodes[x.handle].text \in Texts /\ inodes'[x.handle].text \in Texts
      BY <1>1, <3>1 DEF FileInv, FileTyped
    <3>3. AtLeast(inodes'[x.handle].text, inodes[x.handle].text)
      BY <1>1, <1>8, <2>1, <3>1
    <3>4. AtLeast(inodes[x.handle].text, x.asOf)
      BY <2>1 DEF HandleOK
    <3>5. QED
      BY <2>2, <3>2, <3>3, <3>4, FileFacts DEF AtLeast
  <2>5. HandleOK(x)'
    BY <1>2, <2>1, <2>3, <2>4 DEF HandleOK, AtLeast, Whole, File!Unread, Under
  <2>6. CoarseOK(x) => CoarseOK(x)'
    BY DEF CoarseOK, AtLeast, Under
  <2>7. ASSUME ~coarse PROVE FineOK(x)'
    <3>1. FineOK(x) /\ x.version = x.stamp /\ x.stamp[2] <= time /\ x.stamp[2] \in Nat
      BY <2>1, <2>2, <2>7, FileFacts DEF FineOK
    <3>2. x.stamp[2] <= time'
      BY <3>1 DEF FileGoesOn, FileInv, FileTyped
    <3>3. \A i \in Inodes : File!StampOf(i)' = x.stamp
            => File!StampOf(i) = x.stamp /\ inodes'[i] = inodes[i]
      BY <1>5, <2>7, <3>1
    <3>4. \A i \in Inodes : File!StampOf(i)' = x.version => AtLeast(inodes'[i].text, x.asOf)
      BY <3>1, <3>3 DEF FineOK
    <3>5. x.at \in Under => x.handle \in Inodes
      BY <2>1, <2>2 DEF HandleOK
    <3>6. x.at = "halfway" /\ File!StampOf(x.handle)' = x.stamp
            => x.text[1] = inodes'[x.handle].text[1]
      BY <3>1, <3>3, <3>5 DEF FineOK, Under
    <3>7. x.at = "checking" /\ File!StampOf(x.handle)' = x.stamp => x.text = inodes'[x.handle].text
      BY <3>1, <3>3, <3>5 DEF FineOK, Under
    <3>8. x.at \in {"checked", "parsing"} => Speaks(x.version, x.text)'
      BY <1>6, <2>2, <2>7, <3>1 DEF FineOK
    <3>9. QED
      BY <3>1, <3>2, <3>4, <3>6, <3>7, <3>8 DEF FineOK, AtLeast, Under
  <2>8. QED
    BY <1>2, <2>1, <2>5, <2>6, <2>7 DEF GetOK
<1>9. ASSUME NEW d \in Clients PROVE GetOK(get[d])' /\ (HoldsEntry(get[d])' => lock' = d)
  <2>1. PICK x : x = get[d]
    OBVIOUS
  <2>2. x = Idle \/ (x \in Gets /\ GetOK(x))
    BY <2>1 DEF FileInv, FileTyped
  <2>3. GetOK(x)'
    BY <2>1, <2>2, <1>8 DEF GetOK, Idle
  <2>4. GetOK(get[d])'
    BY <1>2, <2>1, <2>3 DEF GetOK, HandleOK, CoarseOK, FineOK, Speaks, Idle
  <2>5. HoldsEntry(get[d]) => lock = d
    BY DEF FileInv
  <2>6. QED
    BY <1>2, <2>4, <2>5 DEF HoldsEntry
<1>10. QED
  BY <1>3, <1>4, <1>7, <1>9 DEF FileInv

LEMMA EditKeeps ==
  ASSUME FileInv, File!Edit
  PROVE  FileInv'
<1>1. /\ path \in Inodes /\ editing = 0 /\ writes' = writes + 1 /\ time' \in Nat
      /\ time <= time' /\ (~coarse => time < time') /\ editing' = path /\ path' = path
      /\ UNCHANGED <<coarse, entry, lock, get>>
  BY DEF File!Edit, File!Writes, FileInv, FileTyped
<1>2. /\ inodes[path] \in [text : Texts, time : Nat] /\ inodes[path].text = <<writes, writes>>
      /\ writes \in Nat
  BY <1>1, FileFacts DEF FileInv, FileTyped, FileWorld
<1>3. PICK n : n = [text |-> <<writes + 1, writes>>, time |-> time']
  OBVIOUS
<1>4. n.text = <<writes + 1, writes>> /\ n.time = time' /\ n \in [text : Texts, time : Nat]
      /\ n.text[1] = writes + 1 /\ n.text[2] = writes
  BY <1>1, <1>2, <1>3, FileFacts
<1>5. [inodes[path].text EXCEPT ![1] = writes + 1] = n.text
  BY <1>2, <1>4, FileFacts
<1>6. inodes' = [inodes EXCEPT ![path] = n]
  <2>1. [[inodes[path] EXCEPT !.text = n.text] EXCEPT !.time = time'] = n
    <3>1. PICK m : m = inodes[path]
      OBVIOUS
    <3>2. m \in [text : Texts, time : Nat] /\ n \in [text : Texts, time : Nat] /\ n.time = time'
      BY <1>2, <1>4, <3>1
    <3>3. [[m EXCEPT !.text = n.text] EXCEPT !.time = n.time] = n
      BY <3>2
    <3>4. QED
      BY <3>1, <3>2, <3>3
  <2>2. inodes' = [inodes EXCEPT ![path].text[1] = writes', ![path].time = time']
    BY DEF File!Edit
  <2>3. inodes'[path] = n /\ \A i \in Inodes \ {path} : inodes'[i] = inodes[i]
    BY <1>1, <1>2, <1>3, <1>5, <2>1, <2>2 DEF FileInv, FileTyped
  <2>4. QED
    BY <2>2, <2>3 DEF FileInv, FileTyped
<1>7. Whole(n.text) /\ AtLeast(n.text, inodes[path].text)
  BY <1>2, <1>4, FileFacts DEF Whole, AtLeast
<1>8. Rewritten(path, n)
  BY <1>4, <1>6, <1>7 DEF Rewritten
<1>9. inodes'[path'].text = n.text
  BY <1>1, <1>6 DEF FileInv, FileTyped
<1>10. FileGoesOn
  BY <1>1, <1>2, <1>4, <1>9, FileFacts DEF FileGoesOn
<1>11. QED
  BY <1>1, <1>8, <1>10, FileMoved

LEMMA EditRestKeeps ==
  ASSUME FileInv, File!EditRest
  PROVE  FileInv'
<1>1. /\ editing = path /\ path \in Inodes /\ writes' = writes /\ writes \in Nat /\ writes > 0
      /\ time' \in Nat /\ time <= time' /\ (~coarse => time < time') /\ editing' = 0
      /\ path' = path /\ UNCHANGED <<coarse, entry, lock, get>>
  BY DEF File!EditRest, FileInv, FileTyped, FileWorld
<1>2. /\ inodes[path] \in [text : Texts, time : Nat] /\ inodes[path].text[1] = writes
      /\ inodes[path].text[2] = writes - 1
  BY <1>1, FileFacts DEF FileInv, FileTyped, FileWorld
<1>3. PICK n : n = [text |-> <<writes, writes>>, time |-> time']
  OBVIOUS
<1>4. n.text = <<writes, writes>> /\ n.time = time' /\ n \in [text : Texts, time : Nat]
      /\ n.text[1] = writes /\ n.text[2] = writes
  BY <1>1, <1>3, FileFacts
<1>5. [inodes[path].text EXCEPT ![2] = writes] = n.text
  BY <1>1, <1>2, <1>4, FileFacts
<1>6. inodes' = [inodes EXCEPT ![path] = n]
  <2>1. [[inodes[path] EXCEPT !.text = n.text] EXCEPT !.time = time'] = n
    <3>1. PICK m : m = inodes[path]
      OBVIOUS
    <3>2. m \in [text : Texts, time : Nat] /\ n \in [text : Texts, time : Nat] /\ n.time = time'
      BY <1>2, <1>4, <3>1
    <3>3. [[m EXCEPT !.text = n.text] EXCEPT !.time = n.time] = n
      BY <3>2
    <3>4. QED
      BY <3>1, <3>2, <3>3
  <2>2. inodes' = [inodes EXCEPT ![path].text[2] = writes, ![path].time = time']
    BY <1>1 DEF File!EditRest
  <2>3. inodes'[path] = n /\ \A i \in Inodes \ {path} : inodes'[i] = inodes[i]
    BY <1>1, <1>2, <1>3, <1>5, <2>1, <2>2 DEF FileInv, FileTyped
  <2>4. QED
    BY <2>2, <2>3 DEF FileInv, FileTyped
<1>7. Whole(n.text) /\ AtLeast(n.text, inodes[path].text)
  BY <1>1, <1>2, <1>4, FileFacts DEF Whole, AtLeast
<1>8. Rewritten(path, n)
  BY <1>4, <1>6, <1>7 DEF Rewritten
<1>9. inodes'[path'].text = n.text
  BY <1>1, <1>6 DEF FileInv, FileTyped
<1>10. FileGoesOn
  BY <1>1, <1>4, <1>9, FileFacts DEF FileGoesOn
<1>11. QED
  BY <1>1, <1>8, <1>10, FileMoved

LEMMA ReplaceKeeps ==
  ASSUME FileInv, File!Replace
  PROVE  FileInv'
<1>1. /\ editing = 0 /\ writes' = writes + 1 /\ writes \in Nat /\ time' \in Nat
      /\ time <= time' /\ (~coarse => time < time') /\ editing' = 0
      /\ UNCHANGED <<coarse, entry, lock, get>>
  BY DEF File!Replace, File!Writes, FileInv, FileTyped
<1>2. PICK i \in Inodes \ (File!Held \cup {path}) :
          /\ path' = i
          /\ inodes' = [inodes EXCEPT ![i] = [text |-> <<writes', writes'>>, time |-> time']]
  BY DEF File!Replace
<1>3. PICK n : n = [text |-> <<writes', writes'>>, time |-> time']
  OBVIOUS
<1>4. n.text = <<writes', writes'>> /\ n.time = time' /\ n \in [text : Texts, time : Nat]
      /\ Whole(n.text)
  BY <1>1, <1>3, FileFacts DEF Whole
<1>5. \A d \in Clients : get[d] # Idle => get[d].handle # i
  BY <1>2, FileFacts DEF File!Held
<1>6. Rewritten(i, n)
  BY <1>2, <1>3, <1>4, <1>5 DEF Rewritten
<1>7. inodes'[path'].text = n.text
  BY <1>2, <1>3 DEF FileInv, FileTyped
<1>8. FileGoesOn
  BY <1>1, <1>2, <1>4, <1>7 DEF FileGoesOn
<1>9. QED
  BY <1>2, <1>6, <1>8, FileMoved

LEMMA RemoveKeeps ==
  ASSUME FileInv, File!Remove
  PROVE  FileInv'
<1>1. /\ writes' = writes + 1 /\ writes \in Nat /\ time' \in Nat /\ editing = 0
      /\ time <= time' /\ (~coarse => time < time') /\ editing' = 0 /\ path' = 0
      /\ UNCHANGED <<coarse, entry, lock, get, inodes>>
  BY DEF File!Remove, File!Writes, FileInv, FileTyped
<1>2. FileGoesOn
  BY <1>1 DEF FileGoesOn
<1>3. QED
  BY <1>1, <1>2, FileMoved

LEMMA FileStep == FileInv /\ [File!Next]_(File!vars) => FileInv'
<1> SUFFICES ASSUME FileInv, [File!Next]_(File!vars) PROVE FileInv'
  OBVIOUS
<1>1. CASE UNCHANGED File!vars
  <2>1. UNCHANGED <<path, inodes, coarse, time, writes, editing, entry, lock, get>>
    BY <1>1 DEF File!vars, File!file
  <2>2. FileTyped' /\ FileWorld'
    BY <2>1 DEF FileInv, FileTyped, FileWorld, Texts, Gets, Under, Idle, Whole
  <2>3. EntryOK(entry)'
    BY <2>1 DEF FileInv, EntryOK, Speaks, File!StampOf, File!Unread, AtLeast, Whole, Idle
  <2>4. \A d \in Clients : GetOK(get[d])' /\ (HoldsEntry(get[d])' => lock' = d)
    BY <2>1 DEF FileInv, GetOK, HandleOK, CoarseOK, FineOK, HoldsEntry, Speaks, Promised,
       File!StampOf, File!Unread, AtLeast, Whole, Idle, Under
  <2>5. QED
    BY <2>2, <2>3, <2>4 DEF FileInv
<1>2. CASE \E d \in Clients : File!Ask(d) \/ File!Serve(d)
  BY <1>2, FileAskKeeps, OpenKeeps, StatKeeps, LookKeepsFile, LockEntryKeeps, LookAgainKeeps,
     ReadFirstKeeps, ReadSecondKeeps, CheckHandleKeeps, CheckPathKeeps, ParseKeeps,
     MalformedKeeps DEF File!Serve
<1>3. CASE File!Edit \/ File!EditRest \/ File!Replace \/ File!Remove
  BY <1>3, EditKeeps, EditRestKeeps, ReplaceKeeps, RemoveKeeps
<1>4. QED
  BY <1>1, <1>2, <1>3 DEF File!Next

-----------------------------------------------------------------------------
(* The connection to a mounted peer.                                       *)

\* One dials at a time, and what there is to dial for; the hold is that of the last dial
\* that failed, so much of it as has not passed since.
Dialling ==
    \A c \in Clients : at[c] = "dialling" =>
        connected = "none" /\ \A d \in Clients : at[d] = "dialling" => d = c

Holding ==
    /\ hold > 0 => /\ failures > 0 /\ connected = "none"
                   /\ hold + quiet <= Mount!HoldAfter(failures)
    /\ failures > 0 => Mount!HoldAfter(failures) <= hold + quiet

MountInv == Mount!TypeOK /\ Dialling /\ Holding

LEMMA HoldsAreCapped ==
    /\ RetryAfter \in Nat /\ ConnectTime \in Nat /\ CallTime \in Nat /\ MaxLeft \in Nat
    /\ MaxFailures \in Nat
    /\ \A n \in 0 .. MaxFailures : Mount!HoldAfter(n) \in 0 .. RetryAfter
    /\ Mount!HoldAfter(0) = 0
<1>1. /\ RetryAfter \in Nat /\ ConnectTime \in Nat /\ CallTime \in Nat /\ MaxLeft \in Nat
      /\ MaxFailures \in Nat /\ FirstHold \in Nat
      /\ \A n \in 0 .. MaxFailures : 2 ^ n \in Nat
  BY MountBounds DEF Mount!MountConstants
<1>2. ASSUME NEW n \in 0 .. MaxFailures, n # 0
      PROVE  Mount!HoldAfter(n) \in 0 .. RetryAfter
  <2>1. n - 1 \in 0 .. MaxFailures
    BY <1>1, <1>2
  <2>2. PICK p \in Nat : p = 2 ^ (n - 1)
    BY <1>1, <2>1
  <2>3. FirstHold * p \in Nat
    BY <1>1
  <2>4. Mount!HoldAfter(n) = Mount!Least(RetryAfter, FirstHold * p)
    BY <1>2, <2>2 DEF Mount!HoldAfter
  <2>5. QED
    BY <1>1, <2>3, <2>4 DEF Mount!Least
<1>3. Mount!HoldAfter(0) = 0
  BY DEF Mount!HoldAfter
<1>4. QED
  BY <1>1, <1>2, <1>3

LEMMA MountImplied == MountInv => Mount!OneHandshake /\ Mount!OnlyFailedDialsHold
<1> SUFFICES ASSUME MountInv PROVE Mount!OneHandshake /\ Mount!OnlyFailedDialsHold
  OBVIOUS
<1>1. Mount!OnlyFailedDialsHold
  BY DEF MountInv, Holding, Mount!OnlyFailedDialsHold
<1>2. \A c \in Clients : at[c] = "dialling" =>
         connected = "none" /\ {d \in Clients : at[d] = "dialling"} = {c}
  BY DEF MountInv, Dialling
<1>3. QED
  BY <1>1, <1>2 DEF Mount!OneHandshake, Mount!Locked

LEMMA MountInit == Mount!Init => MountInv
<1> SUFFICES ASSUME Mount!Init PROVE MountInv
  OBVIOUS
<1>1. Mount!TypeOK
  BY HoldsAreCapped DEF Mount!Init, Mount!TypeOK, Mount!Unbounded
<1>2. Dialling /\ Holding
  BY DEF Mount!Init, Dialling, Holding
<1>3. QED
  BY <1>1, <1>2 DEF MountInv

LEMMA PeerTurnsKeeps ==
  ASSUME MountInv, NEW how \in {"up", "ailing", "down"}, Mount!PeerTurns(how)
  PROVE  MountInv'
<1>1. Mount!TypeOK'
  BY HoldsAreCapped DEF MountInv, Mount!PeerTurns, Mount!TypeOK,
     Mount!Ends, Mount!Call, Mount!rest, Mount!state, Mount!Locked, Mount!Unbounded, Mount!Least
<1>2. Dialling'
  BY DEF MountInv, Dialling, Mount!PeerTurns, Mount!TypeOK,
     Mount!Ends, Mount!Call, Mount!rest, Mount!state, Mount!Locked, Mount!Unbounded, Mount!Least
<1>3. Holding'
  BY DEF MountInv, Holding, Mount!PeerTurns, Mount!Ends, Mount!Call, Mount!rest, Mount!state, Mount!Locked, Mount!Unbounded, Mount!Least
<1>4. QED
  BY <1>1, <1>2, <1>3 DEF MountInv

LEMMA LostKeeps ==
  ASSUME MountInv, Mount!Lost
  PROVE  MountInv'
<1>1. Mount!TypeOK'
  BY HoldsAreCapped DEF MountInv, Mount!Lost, Mount!TypeOK,
     Mount!Ends, Mount!Call, Mount!rest, Mount!state, Mount!Locked, Mount!Unbounded, Mount!Least
<1>2. Dialling'
  BY DEF MountInv, Dialling, Mount!Lost, Mount!TypeOK,
     Mount!Ends, Mount!Call, Mount!rest, Mount!state, Mount!Locked, Mount!Unbounded, Mount!Least
<1>3. Holding'
  BY DEF MountInv, Holding, Mount!Lost, Mount!Ends, Mount!Call, Mount!rest, Mount!state, Mount!Locked, Mount!Unbounded, Mount!Least
<1>4. QED
  BY <1>1, <1>2, <1>3 DEF MountInv

LEMMA TickKeeps ==
  ASSUME MountInv, Mount!Tick
  PROVE  MountInv'
<1>1. Mount!TypeOK'
  BY HoldsAreCapped DEF MountInv, Mount!Tick, Mount!TypeOK,
     Mount!Ends, Mount!Call, Mount!rest, Mount!state, Mount!Locked, Mount!Unbounded, Mount!Least, Mount!Less, Mount!Waiting
<1>2. Dialling'
  BY DEF MountInv, Dialling, Mount!Tick, Mount!TypeOK,
     Mount!Ends, Mount!Call, Mount!rest, Mount!state, Mount!Locked, Mount!Unbounded, Mount!Least
<1>3. Holding'
  <2>1. failures \in 0 .. MaxFailures /\ hold \in Nat /\ quiet \in 0 .. RetryAfter
    BY HoldsAreCapped DEF MountInv, Mount!TypeOK
  <2>2. PICK h \in 0 .. RetryAfter : h = Mount!HoldAfter(failures)
    BY <2>1, HoldsAreCapped
  <2>3. /\ hold' = (IF hold = 0 THEN 0 ELSE hold - 1)
        /\ quiet' = (IF RetryAfter <= quiet + 1 THEN RetryAfter ELSE quiet + 1)
        /\ UNCHANGED <<failures, connected>>
    BY DEF Mount!Tick, Mount!Less, Mount!Least
  <2>4. hold' > 0 => failures' > 0 /\ connected' = "none" /\ hold' + quiet' <= h
    BY <2>1, <2>2, <2>3, HoldsAreCapped DEF MountInv, Holding
  <2>5. failures' > 0 => h <= hold' + quiet'
    BY <2>1, <2>2, <2>3, HoldsAreCapped DEF MountInv, Holding
  <2>6. Mount!HoldAfter(failures)' = h
    BY <2>2, <2>3 DEF Mount!HoldAfter
  <2>7. QED
    BY <2>4, <2>5, <2>6 DEF Holding
<1>4. QED
  BY <1>1, <1>2, <1>3 DEF MountInv

LEMMA MountAskKeeps ==
  ASSUME MountInv, NEW c \in Clients, NEW what \in {"issue", "entries"},
         NEW deadline \in 1 .. Mount!Unbounded, Mount!Ask(c, what, deadline)
  PROVE  MountInv'
<1>1. Mount!TypeOK'
  BY HoldsAreCapped DEF MountInv, Mount!Ask, Mount!TypeOK,
     Mount!Ends, Mount!Call, Mount!rest, Mount!state, Mount!Locked, Mount!Unbounded, Mount!Least
<1>2. Dialling'
  BY DEF MountInv, Dialling, Mount!Ask, Mount!TypeOK,
     Mount!Ends, Mount!Call, Mount!rest, Mount!state, Mount!Locked, Mount!Unbounded, Mount!Least
<1>3. Holding'
  BY DEF MountInv, Holding, Mount!Ask, Mount!Ends, Mount!Call, Mount!rest, Mount!state, Mount!Locked, Mount!Unbounded, Mount!Least
<1>4. QED
  BY <1>1, <1>2, <1>3 DEF MountInv

LEMMA RemainingKeeps ==
  ASSUME MountInv, NEW c \in Clients, Mount!Remaining(c)
  PROVE  MountInv'
<1>1. Mount!TypeOK'
  BY HoldsAreCapped DEF MountInv, Mount!Remaining, Mount!TypeOK,
     Mount!Ends, Mount!Call, Mount!rest, Mount!state, Mount!Locked, Mount!Unbounded, Mount!Least
<1>2. Dialling'
  BY DEF MountInv, Dialling, Mount!Remaining, Mount!TypeOK,
     Mount!Ends, Mount!Call, Mount!rest, Mount!state, Mount!Locked, Mount!Unbounded, Mount!Least
<1>3. Holding'
  BY DEF MountInv, Holding, Mount!Remaining, Mount!Ends, Mount!Call, Mount!rest, Mount!state, Mount!Locked, Mount!Unbounded, Mount!Least
<1>4. QED
  BY <1>1, <1>2, <1>3 DEF MountInv

LEMMA ConnectedKeeps ==
  ASSUME MountInv, NEW c \in Clients, Mount!Connected(c)
  PROVE  MountInv'
<1>1. Mount!TypeOK'
  BY HoldsAreCapped DEF MountInv, Mount!Connected, Mount!TypeOK,
     Mount!Ends, Mount!Call, Mount!rest, Mount!state, Mount!Locked, Mount!Unbounded, Mount!Least
<1>2. Dialling'
  BY DEF MountInv, Dialling, Mount!Connected, Mount!TypeOK,
     Mount!Ends, Mount!Call, Mount!rest, Mount!state, Mount!Locked, Mount!Unbounded, Mount!Least
<1>3. Holding'
  BY DEF MountInv, Holding, Mount!Connected, Mount!Ends, Mount!Call, Mount!rest, Mount!state, Mount!Locked, Mount!Unbounded, Mount!Least
<1>4. QED
  BY <1>1, <1>2, <1>3 DEF MountInv

LEMMA HeldOffKeeps ==
  ASSUME MountInv, NEW c \in Clients, Mount!HeldOff(c)
  PROVE  MountInv'
<1>1. Mount!TypeOK'
  BY HoldsAreCapped DEF MountInv, Mount!HeldOff, Mount!TypeOK,
     Mount!Ends, Mount!Call, Mount!rest, Mount!state, Mount!Locked, Mount!Unbounded, Mount!Least
<1>2. Dialling'
  BY DEF MountInv, Dialling, Mount!HeldOff, Mount!TypeOK,
     Mount!Ends, Mount!Call, Mount!rest, Mount!state, Mount!Locked, Mount!Unbounded, Mount!Least
<1>3. Holding'
  BY DEF MountInv, Holding, Mount!HeldOff, Mount!Ends, Mount!Call, Mount!rest, Mount!state, Mount!Locked, Mount!Unbounded, Mount!Least
<1>4. QED
  BY <1>1, <1>2, <1>3 DEF MountInv

LEMMA DialKeeps ==
  ASSUME MountInv, NEW c \in Clients, Mount!Dial(c)
  PROVE  MountInv'
<1>1. Mount!TypeOK'
  BY HoldsAreCapped DEF MountInv, Mount!Dial, Mount!TypeOK,
     Mount!Ends, Mount!Call, Mount!rest, Mount!state, Mount!Locked, Mount!Unbounded, Mount!Least
<1>2. Dialling'
  BY DEF MountInv, Dialling, Mount!Dial, Mount!TypeOK,
     Mount!Ends, Mount!Call, Mount!rest, Mount!state, Mount!Locked, Mount!Unbounded, Mount!Least
<1>3. Holding'
  BY DEF MountInv, Holding, Mount!Dial, Mount!Ends, Mount!Call, Mount!rest, Mount!state, Mount!Locked, Mount!Unbounded, Mount!Least
<1>4. QED
  BY <1>1, <1>2, <1>3 DEF MountInv

LEMMA DialConnectsKeeps ==
  ASSUME MountInv, NEW c \in Clients, Mount!DialConnects(c)
  PROVE  MountInv'
<1>1. Mount!TypeOK'
  BY HoldsAreCapped DEF MountInv, Mount!DialConnects, Mount!TypeOK,
     Mount!Ends, Mount!Call, Mount!rest, Mount!state, Mount!Locked, Mount!Unbounded, Mount!Least
<1>2. Dialling'
  BY DEF MountInv, Dialling, Mount!DialConnects, Mount!TypeOK,
     Mount!Ends, Mount!Call, Mount!rest, Mount!state, Mount!Locked, Mount!Unbounded, Mount!Least
<1>3. Holding'
  BY DEF MountInv, Holding, Mount!DialConnects, Mount!Ends, Mount!Call, Mount!rest, Mount!state, Mount!Locked, Mount!Unbounded, Mount!Least
<1>4. QED
  BY <1>1, <1>2, <1>3 DEF MountInv

LEMMA DialFailsKeeps ==
  ASSUME MountInv, NEW c \in Clients, Mount!DialFails(c)
  PROVE  MountInv'
<1>1. Mount!TypeOK'
  BY HoldsAreCapped DEF MountInv, Mount!DialFails, Mount!TypeOK,
     Mount!Ends, Mount!Call, Mount!rest, Mount!state, Mount!Locked, Mount!Unbounded, Mount!Least
<1>2. Dialling'
  BY DEF MountInv, Dialling, Mount!DialFails, Mount!TypeOK,
     Mount!Ends, Mount!Call, Mount!rest, Mount!state, Mount!Locked, Mount!Unbounded, Mount!Least
<1>3. Holding'
  <2>1. /\ failures' \in 0 .. MaxFailures /\ hold' = Mount!HoldAfter(failures')
        /\ quiet' = 0 /\ connected' = "none"
    BY HoldsAreCapped DEF MountInv, Dialling, Mount!TypeOK, Mount!DialFails, Mount!Least
  <2>2. Mount!HoldAfter(failures)' = Mount!HoldAfter(failures')
    BY DEF Mount!HoldAfter
  <2>3. hold' \in Nat /\ (hold' > 0 => failures' > 0)
    BY <2>1, HoldsAreCapped
  <2>4. QED
    BY <2>1, <2>2, <2>3 DEF Holding
<1>4. QED
  BY <1>1, <1>2, <1>3 DEF MountInv

LEMMA MountAnsweredKeeps ==
  ASSUME MountInv, NEW c \in Clients, Mount!Answered(c)
  PROVE  MountInv'
<1>1. Mount!TypeOK'
  BY HoldsAreCapped DEF MountInv, Mount!Answered, Mount!TypeOK,
     Mount!Ends, Mount!Call, Mount!rest, Mount!state, Mount!Locked, Mount!Unbounded, Mount!Least
<1>2. Dialling'
  BY DEF MountInv, Dialling, Mount!Answered, Mount!TypeOK,
     Mount!Ends, Mount!Call, Mount!rest, Mount!state, Mount!Locked, Mount!Unbounded, Mount!Least
<1>3. Holding'
  BY DEF MountInv, Holding, Mount!Answered, Mount!Ends, Mount!Call, Mount!rest, Mount!state, Mount!Locked, Mount!Unbounded, Mount!Least
<1>4. QED
  BY <1>1, <1>2, <1>3 DEF MountInv

LEMMA TimesOutKeeps ==
  ASSUME MountInv, NEW c \in Clients, Mount!TimesOut(c)
  PROVE  MountInv'
<1>1. Mount!TypeOK'
  BY HoldsAreCapped DEF MountInv, Mount!TimesOut, Mount!TypeOK,
     Mount!Ends, Mount!Call, Mount!rest, Mount!state, Mount!Locked, Mount!Unbounded, Mount!Least
<1>2. Dialling'
  BY DEF MountInv, Dialling, Mount!TimesOut, Mount!TypeOK,
     Mount!Ends, Mount!Call, Mount!rest, Mount!state, Mount!Locked, Mount!Unbounded, Mount!Least
<1>3. Holding'
  BY DEF MountInv, Holding, Mount!TimesOut, Mount!Ends, Mount!Call, Mount!rest, Mount!state, Mount!Locked, Mount!Unbounded, Mount!Least
<1>4. QED
  BY <1>1, <1>2, <1>3 DEF MountInv

LEMMA UnavailableKeeps ==
  ASSUME MountInv, NEW c \in Clients, Mount!Unavailable(c)
  PROVE  MountInv'
<1>1. Mount!TypeOK'
  BY HoldsAreCapped DEF MountInv, Mount!Unavailable, Mount!TypeOK,
     Mount!Ends, Mount!Call, Mount!rest, Mount!state, Mount!Locked, Mount!Unbounded, Mount!Least
<1>2. Dialling'
  BY DEF MountInv, Dialling, Mount!Unavailable, Mount!TypeOK,
     Mount!Ends, Mount!Call, Mount!rest, Mount!state, Mount!Locked, Mount!Unbounded, Mount!Least
<1>3. Holding'
  BY DEF MountInv, Holding, Mount!Unavailable, Mount!Ends, Mount!Call, Mount!rest, Mount!state, Mount!Locked, Mount!Unbounded, Mount!Least
<1>4. QED
  BY <1>1, <1>2, <1>3 DEF MountInv

LEMMA NoAnswerKeeps ==
  ASSUME MountInv, NEW c \in Clients, Mount!NoAnswer(c)
  PROVE  MountInv'
<1>1. Mount!TypeOK'
  BY HoldsAreCapped DEF MountInv, Mount!NoAnswer, Mount!TypeOK,
     Mount!Ends, Mount!Call, Mount!rest, Mount!state, Mount!Locked, Mount!Unbounded, Mount!Least
<1>2. Dialling'
  BY DEF MountInv, Dialling, Mount!NoAnswer, Mount!TypeOK,
     Mount!Ends, Mount!Call, Mount!rest, Mount!state, Mount!Locked, Mount!Unbounded, Mount!Least
<1>3. Holding'
  BY DEF MountInv, Holding, Mount!NoAnswer, Mount!Ends, Mount!Call, Mount!rest, Mount!state, Mount!Locked, Mount!Unbounded, Mount!Least
<1>4. QED
  BY <1>1, <1>2, <1>3 DEF MountInv

LEMMA DropConnectionKeeps ==
  ASSUME MountInv, NEW c \in Clients, Mount!DropConnection(c)
  PROVE  MountInv'
<1>1. Mount!TypeOK'
  BY HoldsAreCapped DEF MountInv, Mount!DropConnection, Mount!TypeOK,
     Mount!Ends, Mount!Call, Mount!rest, Mount!state, Mount!Locked, Mount!Unbounded, Mount!Least
<1>2. Dialling'
  BY DEF MountInv, Dialling, Mount!DropConnection, Mount!TypeOK,
     Mount!Ends, Mount!Call, Mount!rest, Mount!state, Mount!Locked, Mount!Unbounded, Mount!Least
<1>3. Holding'
  BY DEF MountInv, Holding, Mount!DropConnection, Mount!Ends, Mount!Call, Mount!rest, Mount!state, Mount!Locked, Mount!Unbounded, Mount!Least
<1>4. QED
  BY <1>1, <1>2, <1>3 DEF MountInv

LEMMA MountStep == MountInv /\ [Mount!Next]_(Mount!vars) => MountInv'
<1> SUFFICES ASSUME MountInv, [Mount!Next]_(Mount!vars) PROVE MountInv'
  OBVIOUS
<1>1. CASE UNCHANGED Mount!vars
  <2>1. UNCHANGED <<peer, connected, hold, failures, at, issues, mine, left, limit, timer,
                    outcome, quiet>>
    BY <1>1 DEF Mount!vars, Mount!state, Mount!client
  <2>2. Mount!TypeOK' /\ Dialling'
    BY <2>1 DEF MountInv, Mount!TypeOK, Dialling, Mount!Unbounded
  <2>3. Holding'
    BY <2>1 DEF MountInv, Holding, Mount!HoldAfter
  <2>4. QED
    BY <2>2, <2>3 DEF MountInv
<1>2. CASE \E how \in {"up", "ailing", "down"} : Mount!PeerTurns(how)
  BY <1>2, PeerTurnsKeeps
<1>3. CASE Mount!Lost \/ Mount!Tick
  BY <1>3, LostKeeps, TickKeeps
<1>4. ASSUME NEW c \in Clients,
             \/ \E deadline \in 1 .. Mount!Unbounded : Mount!Ask(c, "issue", deadline)
             \/ Mount!Ask(c, "entries", Mount!Unbounded)
      PROVE  MountInv'
  BY <1>4, MountAskKeeps, HoldsAreCapped DEF Mount!Unbounded
<1>5. CASE \E c \in Clients : Mount!Step(c)
  BY <1>5, RemainingKeeps, ConnectedKeeps, HeldOffKeeps, DialKeeps, DialConnectsKeeps,
     DialFailsKeeps, MountAnsweredKeeps, TimesOutKeeps, UnavailableKeeps, NoAnswerKeeps,
     DropConnectionKeeps DEF Mount!Step, Mount!Resolve
<1>6. QED
  BY <1>1, <1>2, <1>3, <1>4, <1>5 DEF Mount!Next

\* Whoever starts to dial finds the hold of the last failure passed.
LEMMA DialsAreHeldOff ==
  ASSUME MountInv, [Mount!Next]_(Mount!vars), NEW c \in Clients, at[c] # "dialling",
         at'[c] = "dialling"
  PROVE  failures = 0 \/ quiet >= Mount!HoldAfter(failures)
<1>1. at \in [Clients -> {"idle", "asked", "resolving", "dialling", "calling", "dropping"}]
      /\ failures \in Nat /\ failures \in 0 .. MaxFailures /\ quiet \in Nat
  BY HoldsAreCapped DEF MountInv, Mount!TypeOK
<1>2. ~UNCHANGED at
  OBVIOUS
<1>3. \E d \in Clients : Mount!Dial(d)
  BY <1>1, <1>2 DEF Mount!Next, Mount!Step, Mount!Resolve, Mount!PeerTurns, Mount!Lost, Mount!Tick,
     Mount!Ask, Mount!Remaining, Mount!Connected, Mount!HeldOff, Mount!DialConnects,
     Mount!DialFails, Mount!Answered, Mount!TimesOut, Mount!Unavailable, Mount!NoAnswer,
     Mount!DropConnection, Mount!Ends, Mount!Call, Mount!vars, Mount!client
<1>4. hold = 0
  BY <1>3 DEF Mount!Dial
<1>5. Mount!HoldAfter(failures) \in Nat
  BY <1>1, HoldsAreCapped
<1>6. QED
  BY <1>1, <1>4, <1>5 DEF MountInv, Holding

-----------------------------------------------------------------------------
(* The epochs of the watched roots.                                        *)

Counting == cuts \in [Browsed -> Stamps]

LEMMA CountingInit == Cached!Init => Counting
  BY DEF Cached!Init, Counting, Stamps

LEMMA CountingStep ==
  ASSUME Counting, [Cached!Next]_(Cached!vars)
  PROVE  /\ Counting'
         /\ \A r \in Browsed : cuts[r] # NoCounter => cuts'[r] # NoCounter /\ cuts'[r] >= cuts[r]
<1>1. CASE UNCHANGED cuts
  BY <1>1 DEF Counting, Stamps
<1>2. ASSUME NEW rs, Cached!Bump(rs)
      PROVE  /\ Counting'
             /\ \A r \in Browsed : cuts[r] # NoCounter
                                     => cuts'[r] # NoCounter /\ cuts'[r] >= cuts[r]
  BY <1>2, MemoConstants DEF Counting, Stamps, Cached!Bump
<1>3. ASSUME NEW g, Cached!Track(g)
      PROVE  /\ Counting'
             /\ \A r \in Browsed : cuts[r] # NoCounter
                                     => cuts'[r] # NoCounter /\ cuts'[r] >= cuts[r]
  BY <1>3, MemoConstants DEF Counting, Stamps, Cached!Track
<1>4. \/ UNCHANGED cuts
      \/ \E g \in DOMAIN watches : Cached!Apply(g)
      \/ Cached!LoadRules
  BY DEF Cached!Next, Cached!vars, Cached!Change, Cached!Edit, Cached!WatchNext, Cached!Reread,
     Cached!StartWatch, Cached!Rearrange, Cached!Swap, Cached!CutRoots, Cached!CutRemoved,
     Cached!Retire, Cached!Begin, Cached!Read, Cached!Resolve, Cached!Thread, Cached!Compute,
     Cached!Fill, Cached!Stamp, Cached!ReadFindings, Cached!Keep
<1>5. QED
  BY <1>1, <1>2, <1>3, <1>4 DEF Cached!Apply, Cached!LoadRules

-----------------------------------------------------------------------------
(* The cached reads.                                                       *)

Places == Dirs \cup {NoDir}
Paths == [dir : Dirs, what : {"text", "rules", "reread"}]
Events == Paths \cup {Cached!Pathless}
WatchSet == [of : [Browsed -> Places], hides : [Browsed -> BOOLEAN], events : Seq(Events),
             mode : {"held", "driven", "dropped", "ended"}]

\* Watch w holds an event that cuts the thread of a face of root r.
Cuts(e, w, r, face) ==
    /\ e # Cached!Pathless /\ e.dir = w.of[r]
    /\ face = "state" \/ e.what # "text" \/ ~w.hides[r]
DueIn(w, r, face) == \E i \in DOMAIN w.events : Cuts(w.events[i], w, r, face)

LEMMA WatchFacts ==
    /\ NoDir \notin Dirs /\ NoCounter \notin Nat /\ MaxChanges \in Nat /\ MaxEdits \in Nat
    /\ Cached!Idle = Idle
    /\ \A e \in Events : e # Cached!Pathless <=> e \in Paths
    /\ \A e \in Paths : e.dir \in Dirs
    /\ Cached!Pathless.what = "pathless" /\ Cached!Pathless.dir = NoDir
  BY CachedBounds DEF Cached!CachedConstants, Cached!Idle, Idle, Events, Paths, Cached!Pathless

\* What an event told to a watch leaves of it.
LEMMA Told ==
  ASSUME NEW w \in WatchSet, NEW e \in Events, NEW v, v = [w EXCEPT !.events = Append(@, e)]
  PROVE  /\ v \in WatchSet /\ v.of = w.of /\ v.hides = w.hides /\ v.mode = w.mode
         /\ \A r, face : DueIn(w, r, face) \/ Cuts(e, w, r, face) => DueIn(v, r, face)
<1>1. PICK s \in Seq(Events) : s = w.events
  BY DEF WatchSet
<1>2. /\ Append(s, e) \in Seq(Events)
      /\ DOMAIN s = 1 .. Len(s) /\ Len(s) \in Nat
      /\ DOMAIN Append(s, e) = 1 .. Len(s) + 1
      /\ \A k \in DOMAIN s : Append(s, e)[k] = s[k]
      /\ Append(s, e)[Len(s) + 1] = e
  BY <1>1
<1>3. v \in WatchSet /\ v.of = w.of /\ v.hides = w.hides /\ v.mode = w.mode /\ v.events = Append(s, e)
  BY <1>1, <1>2 DEF WatchSet
<1>4. (\A k \in DOMAIN w.events : k \in DOMAIN v.events /\ v.events[k] = w.events[k])
      /\ \E k \in DOMAIN v.events : v.events[k] = e
  BY <1>1, <1>2, <1>3
<1>5. QED
  BY <1>3, <1>4 DEF DueIn, Cuts

\* What applying its first event leaves of it.
LEMMA FirstApplied ==
  ASSUME NEW w \in WatchSet, w.events # <<>>, NEW v, v = [w EXCEPT !.events = Tail(@)]
  PROVE  /\ v \in WatchSet /\ v.of = w.of /\ v.hides = w.hides /\ v.mode = w.mode
         /\ \A r, face : DueIn(w, r, face) => DueIn(v, r, face) \/ Cuts(Head(w.events), w, r, face)
<1>1. PICK s \in Seq(Events) : s = w.events
  BY DEF WatchSet
<1>2. /\ Tail(s) \in Seq(Events) /\ DOMAIN s = 1 .. Len(s) /\ Len(s) \in Nat \ {0}
      /\ DOMAIN Tail(s) = 1 .. Len(s) - 1 /\ Head(s) = s[1]
      /\ \A k \in DOMAIN Tail(s) : Tail(s)[k] = s[k + 1]
  BY <1>1
<1>3. v \in WatchSet /\ v.of = w.of /\ v.hides = w.hides /\ v.mode = w.mode /\ v.events = Tail(s)
  BY <1>1, <1>2 DEF WatchSet
<1>4. ASSUME NEW k \in DOMAIN w.events
      PROVE  w.events[k] = Head(w.events) \/ \E i \in DOMAIN v.events : v.events[i] = w.events[k]
  <2>1. CASE k = 1
    BY <1>1, <1>2, <2>1
  <2>2. CASE k # 1
    <3>1. k - 1 \in DOMAIN Tail(s) /\ Tail(s)[k - 1] = s[k]
      BY <1>1, <1>2, <2>2
    <3>2. QED
      BY <1>1, <1>3, <3>1
  <2>3. QED
    BY <2>1, <2>2
<1>5. QED
  BY <1>3, <1>4 DEF DueIn, Cuts

\* What reading the rules of its first event's directory again leaves of it.
Relearned(w, h) == [w EXCEPT !.hides = h,
                             !.events = <<[Head(@) EXCEPT !.what = "reread"]>> \o Tail(@)]

LEMMA FirstReread ==
  ASSUME NEW w \in WatchSet, w.events # <<>>, Head(w.events).what = "rules",
         NEW h \in [Browsed -> BOOLEAN],
         \A r \in Browsed : w.of[r] # Head(w.events).dir => h[r] = w.hides[r],
         NEW v, v = Relearned(w, h)
  PROVE  /\ v \in WatchSet /\ v.of = w.of /\ v.hides = h /\ v.mode = w.mode
         /\ \A r \in Browsed : \A face :
              DueIn(w, r, face) \/ w.of[r] = Head(w.events).dir => DueIn(v, r, face)
<1>1. PICK s \in Seq(Events) : s = w.events
  BY DEF WatchSet
<1>2. /\ Tail(s) \in Seq(Events) /\ DOMAIN s = 1 .. Len(s) /\ Len(s) \in Nat \ {0}
      /\ DOMAIN Tail(s) = 1 .. Len(s) - 1 /\ Head(s) = s[1] /\ Head(s) \in Events
      /\ Len(Tail(s)) = Len(s) - 1
      /\ \A k \in DOMAIN Tail(s) : Tail(s)[k] = s[k + 1]
  BY <1>1
<1>3. PICK x \in Paths : x = Head(s)
  BY <1>1, <1>2, WatchFacts
<1>c. PICK e : e = [x EXCEPT !.what = "reread"]
  OBVIOUS
<1>e. e \in Events /\ e # Cached!Pathless /\ e.dir = x.dir /\ e.what = "reread"
  <2>1. e \in Paths /\ e.dir = x.dir /\ e.what = "reread"
    BY <1>c DEF Paths
  <2>2. QED
    BY <2>1, WatchFacts DEF Events
<1>4. PICK t : t = <<e>> \o Tail(s)
  OBVIOUS
<1>5. /\ t \in Seq(Events) /\ DOMAIN t = 1 .. Len(s) /\ t[1] = e
      /\ \A k \in 2 .. Len(s) : t[k] = s[k]
  <2>1. <<e>> \in Seq(Events) /\ Len(<<e>>) = 1 /\ <<e>>[1] = e
    BY <1>e
  <2>2. t \in Seq(Events) /\ Len(t) = 1 + (Len(s) - 1)
    BY <1>2, <1>4, <2>1, ConcatProperties
  <2>3. \A k \in 1 .. Len(t) : t[k] = IF k <= 1 THEN <<e>>[k] ELSE Tail(s)[k - 1]
    BY <1>2, <1>4, <2>1, <2>2, ConcatProperties
  <2>4. DOMAIN t = 1 .. Len(s) /\ t[1] = e
    BY <1>2, <2>1, <2>2, <2>3
  <2>5. ASSUME NEW k \in 2 .. Len(s) PROVE t[k] = s[k]
    <3>1. k \in 1 .. Len(t) /\ ~(k <= 1) /\ k - 1 \in DOMAIN Tail(s)
      BY <1>2, <2>2
    <3>2. t[k] = Tail(s)[k - 1]
      BY <2>3, <3>1
    <3>3. Tail(s)[k - 1] = s[(k - 1) + 1]
      BY <1>2, <3>1
    <3>4. QED
      BY <3>2, <3>3
  <2>6. QED
    BY <2>2, <2>4, <2>5
<1>6. v \in WatchSet /\ v.of = w.of /\ v.hides = h /\ v.mode = w.mode /\ v.events = t
  BY <1>1, <1>3, <1>c, <1>4, <1>5 DEF WatchSet, Relearned
<1>7. /\ 1 \in DOMAIN v.events /\ v.events[1].dir = Head(w.events).dir
      /\ v.events[1].what = "reread" /\ v.events[1] # Cached!Pathless
  BY <1>1, <1>2, <1>3, <1>e, <1>5, <1>6
<1>8. ASSUME NEW k \in DOMAIN w.events, w.events[k].dir # Head(w.events).dir
      PROVE  k \in DOMAIN v.events /\ v.events[k] = w.events[k]
  <2>1. k # 1 /\ k \in 2 .. Len(s)
    BY <1>1, <1>2, <1>8
  <2>2. QED
    BY <1>1, <1>2, <1>5, <1>6, <2>1
<1>9. ASSUME NEW r \in Browsed, NEW face, w.of[r] = Head(w.events).dir
      PROVE  DueIn(v, r, face)
  BY <1>6, <1>7, <1>9 DEF DueIn, Cuts
<1>10. ASSUME NEW r \in Browsed, NEW face, DueIn(w, r, face), w.of[r] # Head(w.events).dir
       PROVE  DueIn(v, r, face)
  <2>1. PICK k \in DOMAIN w.events : Cuts(w.events[k], w, r, face)
    BY <1>10 DEF DueIn
  <2>2. k \in DOMAIN v.events /\ v.events[k] = w.events[k]
    BY <1>8, <1>10, <2>1 DEF Cuts
  <2>3. Cuts(v.events[k], v, r, face)
    BY <1>6, <1>10, <2>1, <2>2 DEF Cuts
  <2>4. QED
    BY <2>2, <2>3 DEF DueIn
<1>11. QED
  BY <1>6, <1>9, <1>10

\* The watch of the arrangement, and the watches that are kept to their word: the one in force,
\* and the next one once it knows the rules.
Arr == watches[arrangement.watch]
Sworn == {inForce.watch} \cup
         (IF reload.at \in {"started", "swapped", "cut", "removed"} THEN {reload.watch} ELSE {})

SiteOK ==
    /\ disk \in [Dirs -> [text : Nat, hidden : BOOLEAN]] /\ \A d \in Dirs : disk[d].text <= changes
    /\ changes \in 0 .. MaxChanges /\ edits \in 0 .. MaxEdits /\ config \in [Browsed -> Places]

Reloads == [at : {"watching", "started", "swapped", "cut", "removed"}, dirs : [Browsed -> Places],
            watch : DOMAIN watches]

\* Who is in force: the arrangement changes at the swap, and the watch of each covers what the
\* platform accepted of it.
OrderOK ==
    /\ watches \in Seq(WatchSet)
    /\ inForce \in [dirs : [Browsed -> Places], watch : DOMAIN watches]
    /\ watches[inForce.watch].mode = "driven"
    /\ \A r \in Browsed : watches[inForce.watch].of[r] \in {inForce.dirs[r], NoDir}
    /\ reload # Idle =>
          /\ reload \in Reloads /\ reload.watch # inForce.watch
          /\ watches[reload.watch].mode = "held"
          /\ \A r \in Browsed : watches[reload.watch].of[r] \in {reload.dirs[r], NoDir}
    /\ arrangement = IF reload.at \in {"idle", "watching", "started"} THEN inForce
                     ELSE [dirs |-> reload.dirs, watch |-> reload.watch]

\* A watch is started for an edit.
WatchesAreForEdits ==
    Len(watches) + (IF config # (IF reload = Idle THEN inForce.dirs ELSE reload.dirs) THEN 1 ELSE 0)
        <= edits + 1

MissOK == missed \subseteq Browsed \X Cached!Faces /\ missedRows \subseteq Browsed

\* A face of r read in d is one that the arrangement's watch hears the changes of, unless a cut
\* is under way; and the answer is still what a read would give, or the watch was not told the
\* path of what changed it.
Heard(r, face, d) ==
    arrangement.dirs[r] = d /\ Arr.of[r] = d /\ (face = "file" => ~Arr.hides[r])
UnderWay(r, face) == reload.at = "swapped" \/ DueIn(Arr, r, face)
Current(r, face, d, value) ==
    \/ UnderWay(r, face)
    \/ Heard(r, face, d) /\ (Cached!Answer(d, face) = value \/ <<r, face>> \in missed)

Threads == {Cached!ROOTS_THREAD} \cup {Cached!Narrow(r) : r \in Browsed}
                                 \cup {Cached!Wide(r) : r \in Browsed}
Values == Nat \cup (Nat \X BOOLEAN)
Entries == [answer : {"kept"}, dir : Dirs, value : Values, threads : SUBSET Threads]

EntryOK2(r, face, e) ==
    e # Cached!NoEntry => /\ {Cached!ROOTS_THREAD, Cached!ThreadOf(r, face)} \subseteq e.threads
                          /\ Current(r, face, e.dir, e.value)
CacheOK ==
    /\ cache \in [Browsed -> [Cached!Faces -> {Cached!NoEntry} \cup Entries]]
    /\ \A r \in Browsed, face \in Cached!Faces : EntryOK2(r, face, cache[r][face])

Begun == [at : {"begun"}, root : Browsed, face : Cached!Faces, cuts : SUBSET Threads]
Resolved == [at : {"resolved"}, root : Browsed, face : Cached!Faces, cuts : SUBSET Threads,
             dir : Dirs]
Threaded == [at : {"threaded"}, root : Browsed, face : Cached!Faces, cuts : SUBSET Threads,
             dir : Dirs, threads : SUBSET Threads]
Computed == [at : {"computed"}, root : Browsed, face : Cached!Faces, cuts : SUBSET Threads,
             dir : Dirs, threads : SUBSET Threads, value : Values]

\* What the read under way holds: it will not be kept, or what it has is what an entry may have.
Doomed(q) == (q.threads \cup {Cached!ROOTS_THREAD}) \cap q.cuts # {}
ReadOK(q) ==
    \/ q = Idle \/ q \in Begun
    \/ q \in Resolved /\ (\/ Cached!ROOTS_THREAD \in q.cuts \/ reload.at = "swapped"
                          \/ arrangement.dirs[q.root] = q.dir)
    \/ q \in Threaded /\ (\/ q.threads = {}
                          \/ /\ q.threads = {Cached!ThreadOf(q.root, q.face)}
                             /\ \/ Doomed(q) \/ UnderWay(q.root, q.face)
                                \/ Heard(q.root, q.face, q.dir))
    \/ q \in Computed /\ (\/ q.threads = {}
                          \/ /\ q.threads = {Cached!ThreadOf(q.root, q.face)}
                             /\ Doomed(q) \/ Current(q.root, q.face, q.dir, q.value))

\* Rows x read in d at epoch e: the epoch has moved, or they are what a read would give, or a
\* watch holds the event that will move it, or was not told the path of the change.
Owed(w, r) == DueIn(w, r, "file") \/ r \in missedRows
FreshOK(r, e, d, x) ==
    /\ cuts[r] \in Nat /\ e <= cuts[r]
    /\ e = cuts[r] =>
          \A g \in Sworn : watches[g].of[r] = d /\ ~watches[g].hides[r]
                             => x = disk[d].text \/ Owed(watches[g], r)

KeptRows == [epoch : Nat, dir : Dirs, text : Nat]
RowsOK(r, m) == m # Cached!NoEntry => FreshOK(r, m.epoch, m.dir, m.text)
KeptOK == /\ kept \in [Browsed -> {Cached!NoEntry} \cup KeptRows]
          /\ \A r \in Browsed : RowsOK(r, kept[r])

Stamped == [at : {"stamped"}, root : Browsed, epoch : Nat]
Polled == [at : {"read"}, root : Browsed, epoch : Nat, dir : Dirs, text : Nat]
PollOK(p) ==
    \/ p = Idle
    \/ p \in Stamped /\ cuts[p.root] \in Nat /\ p.epoch <= cuts[p.root]
    \/ p \in Polled /\ FreshOK(p.root, p.epoch, p.dir, p.text)

CachedInv ==
    /\ SiteOK /\ OrderOK /\ WatchesAreForEdits /\ MissOK /\ CacheOK /\ ReadOK(reader)
    /\ KeptOK /\ PollOK(poll)

\* What a watch holds after a step.
LEMMA Later ==
  ASSUME NEW g
  PROVE  /\ \A r, face : DueIn(watches[g], r, face)' <=> DueIn(watches'[g], r, face)
         /\ \A r : Owed(watches[g], r)' <=> DueIn(watches'[g], r, "file") \/ r \in missedRows'
  BY DEF DueIn, Cuts, Owed, Cached!Pathless

LEMMA LaterArr == \A r, face : DueIn(Arr, r, face)' <=> DueIn(Arr', r, face)
  BY DEF DueIn, Cuts, Arr, Cached!Pathless

LEMMA OrderFacts ==
  ASSUME OrderOK
  PROVE  /\ DOMAIN watches = 1 .. Len(watches) /\ Len(watches) \in Nat
         /\ \A g \in DOMAIN watches : watches[g] \in WatchSet
         /\ arrangement.watch \in Sworn /\ arrangement.dirs \in [Browsed -> Places]
         /\ \A r \in Browsed : Arr.of[r] \in {arrangement.dirs[r], NoDir}
         /\ \A g \in Sworn : /\ g \in DOMAIN watches /\ watches[g].mode \in {"held", "driven"}
                             /\ watches[g].mode = "driven" => g = inForce.watch
         /\ reload.at = "idle" <=> reload = Idle
         /\ inForce.watch \in Sworn /\ inForce.watch \in DOMAIN watches
<1>1. DOMAIN watches = 1 .. Len(watches) /\ Len(watches) \in Nat
      /\ \A g \in DOMAIN watches : watches[g] \in WatchSet
  BY DEF OrderOK
<1>2. inForce.watch \in DOMAIN watches /\ inForce.dirs \in [Browsed -> Places]
      /\ watches[inForce.watch].mode = "driven"
  BY DEF OrderOK
<1>3. CASE reload = Idle
  <2>1. reload.at = "idle"
    BY <1>3 DEF Idle
  <2>2. arrangement = inForce /\ Sworn = {inForce.watch}
    BY <2>1 DEF OrderOK, Sworn
  <2>3. QED
    BY <1>1, <1>2, <1>3, <2>1, <2>2 DEF OrderOK, Arr
<1>4. CASE reload # Idle
  <2>1. /\ reload.at \in {"watching", "started", "swapped", "cut", "removed"}
        /\ reload.dirs \in [Browsed -> Places] /\ reload.watch \in DOMAIN watches
        /\ watches[reload.watch].mode = "held"
        /\ \A r \in Browsed : watches[reload.watch].of[r] \in {reload.dirs[r], NoDir}
    BY <1>4 DEF OrderOK, Reloads
  <2>2. \A g \in Sworn : g = inForce.watch \/ g = reload.watch
    BY DEF Sworn
  <2>3. CASE reload.at \in {"watching", "started"}
    <3>1. arrangement = inForce /\ inForce.watch \in Sworn
      BY <2>3 DEF OrderOK, Sworn
    <3>2. QED
      BY <1>1, <1>2, <1>4, <2>1, <2>2, <3>1 DEF OrderOK, Arr
  <2>4. CASE reload.at \in {"swapped", "cut", "removed"}
    <3>1. /\ arrangement.dirs = reload.dirs /\ arrangement.watch = reload.watch
          /\ inForce.watch \in Sworn /\ reload.watch \in Sworn
      BY <2>4 DEF OrderOK, Sworn
    <3>2. QED
      BY <1>1, <1>2, <1>4, <2>1, <2>2, <3>1 DEF OrderOK, Arr
  <2>5. QED
    BY <2>1, <2>3, <2>4
<1>5. QED
  BY <1>3, <1>4

\* Watches that are told and applied: who is in force stays.
LEMMA WatchesMove ==
  ASSUME OrderOK, WatchesAreForEdits,
         UNCHANGED <<config, edits, inForce, reload, arrangement>>,
         watches' \in Seq(WatchSet), Len(watches') = Len(watches),
         \A g \in DOMAIN watches : watches[g].mode \in {"held", "driven"}
            => watches'[g].of = watches[g].of /\ watches'[g].mode = watches[g].mode
  PROVE  OrderOK' /\ WatchesAreForEdits' /\ Sworn' = Sworn
<1>1. DOMAIN watches' = DOMAIN watches
  BY OrderFacts
<1>2. OrderOK'
  <2>1. inForce.watch \in DOMAIN watches /\ watches[inForce.watch].mode = "driven"
    BY DEF OrderOK
  <2>2. /\ watches'[inForce.watch].of = watches[inForce.watch].of
        /\ watches'[inForce.watch].mode = "driven"
    BY <2>1
  <2>3. ASSUME reload # Idle
        PROVE  /\ reload \in Reloads' /\ reload.watch # inForce.watch
               /\ watches'[reload.watch].mode = "held"
               /\ \A r \in Browsed : watches'[reload.watch].of[r] \in {reload.dirs[r], NoDir}
    <3>1. /\ reload \in Reloads /\ reload.watch # inForce.watch /\ reload.watch \in DOMAIN watches
          /\ watches[reload.watch].mode = "held"
          /\ \A r \in Browsed : watches[reload.watch].of[r] \in {reload.dirs[r], NoDir}
      BY <2>3 DEF OrderOK, Reloads
    <3>2. reload \in Reloads'
      BY <1>1, <3>1 DEF Reloads
    <3>3. QED
      BY <3>1, <3>2
  <2>4. QED
    BY <1>1, <2>1, <2>2, <2>3 DEF OrderOK
<1>3. WatchesAreForEdits'
  BY DEF WatchesAreForEdits
<1>4. QED
  BY <1>2, <1>3 DEF Sworn

\* What a step that cuts the threads of C has to leave of what was read.
Gone(C, r, face) == Cached!ROOTS_THREAD \in C \/ Cached!ThreadOf(r, face) \in C
Carries(C) ==
    /\ \A r \in Browsed, face \in Cached!Faces :
          \/ Gone(C, r, face)
          \/ \A d : /\ UnderWay(r, face) \/ Heard(r, face, d) => (UnderWay(r, face) \/ Heard(r, face, d))'
                    /\ \A v : Current(r, face, d, v) => Current(r, face, d, v)'
    /\ \/ Cached!ROOTS_THREAD \in C \/ reload'.at = "swapped"
       \/ reload.at # "swapped" /\ arrangement'.dirs = arrangement.dirs

Cutting(C) == Cached!Cut(C) \/ (C = {} /\ UNCHANGED <<cache, reader>>)

\* What follows of the watch of an arrangement that stays.
LEMMA CarriesBy ==
  ASSUME UNCHANGED <<arrangement, reload>>, Arr'.of = Arr.of, NEW C,
         \A r \in Browsed, face \in Cached!Faces :
            \/ Gone(C, r, face)
            \/ /\ DueIn(Arr, r, face) => DueIn(Arr', r, face)
               /\ Arr'.hides[r] = Arr.hides[r] \/ DueIn(Arr', r, face)
               /\ <<r, face>> \in missed => <<r, face>> \in missed'
               /\ \A d : Heard(r, face, d) => \/ Cached!Answer(d, face)' = Cached!Answer(d, face)
                                              \/ DueIn(Arr', r, face)
                                              \/ <<r, face>> \in missed'
  PROVE  Carries(C)
<1>1. ASSUME NEW r \in Browsed, NEW face \in Cached!Faces, ~Gone(C, r, face), NEW d
      PROVE  /\ UnderWay(r, face) \/ Heard(r, face, d) => (UnderWay(r, face) \/ Heard(r, face, d))'
             /\ \A v : Current(r, face, d, v) => Current(r, face, d, v)'
  <2>1. /\ DueIn(Arr, r, face) => DueIn(Arr', r, face)
        /\ Arr'.hides[r] = Arr.hides[r] \/ DueIn(Arr', r, face)
        /\ <<r, face>> \in missed => <<r, face>> \in missed'
        /\ Heard(r, face, d) => \/ Cached!Answer(d, face)' = Cached!Answer(d, face)
                                \/ DueIn(Arr', r, face) \/ <<r, face>> \in missed'
    BY <1>1
  <2>2. UnderWay(r, face) => UnderWay(r, face)'
    BY <2>1, LaterArr DEF UnderWay
  <2>3. Heard(r, face, d) => Heard(r, face, d)' \/ UnderWay(r, face)'
    BY <2>1, LaterArr DEF Heard, UnderWay
  <2>4. Heard(r, face, d) => \/ Cached!Answer(d, face)' = Cached!Answer(d, face)
                             \/ UnderWay(r, face)' \/ <<r, face>> \in missed'
    BY <2>1, LaterArr DEF UnderWay
  <2>5. QED
    BY <2>1, <2>2, <2>3, <2>4 DEF Current
<1>2. \/ reload'.at = "swapped"
      \/ reload.at # "swapped" /\ arrangement'.dirs = arrangement.dirs
  OBVIOUS
<1>3. QED
  BY <1>1, <1>2 DEF Carries

\* A cut removes every entry that hangs from one of its threads, ...
LEMMA CutCache ==
  ASSUME CacheOK, NEW C, Cutting(C), Carries(C)
  PROVE  CacheOK'
<1>1. ASSUME NEW r \in Browsed, NEW face \in Cached!Faces
      PROVE  /\ cache'[r][face] \in {Cached!NoEntry, cache[r][face]}
             /\ cache'[r][face] # Cached!NoEntry => cache[r][face].threads \cap C = {}
  BY <1>1 DEF Cutting, Cached!Cut
<1>2. cache' \in [Browsed -> [Cached!Faces -> {Cached!NoEntry} \cup Entries]]
  <2>1. CASE UNCHANGED cache
    BY <2>1 DEF CacheOK, Entries
  <2>2. CASE Cached!Cut(C)
    <3>1. cache' = [r \in Browsed |-> [f \in Cached!Faces |->
                      IF cache[r][f] # Cached!NoEntry /\ cache[r][f].threads \cap C # {}
                      THEN Cached!NoEntry ELSE cache[r][f]]]
      BY <2>2 DEF Cached!Cut
    <3>2. \A r \in Browsed, f \in Cached!Faces : cache[r][f] \in {Cached!NoEntry} \cup Entries
      BY DEF CacheOK
    <3>3. QED
      BY <3>1, <3>2
  <2>3. QED
    BY <2>1, <2>2 DEF Cutting
<1>3. ASSUME NEW r \in Browsed, NEW face \in Cached!Faces
      PROVE  EntryOK2(r, face, cache[r][face])'
  <2>1. PICK e : e = cache'[r][face]
    OBVIOUS
  <2>2. ASSUME e # Cached!NoEntry
        PROVE  /\ {Cached!ROOTS_THREAD, Cached!ThreadOf(r, face)} \subseteq e.threads
               /\ Current(r, face, e.dir, e.value)'
    <3>1. e = cache[r][face] /\ e.threads \cap C = {}
      BY <1>1, <2>1, <2>2
    <3>2. /\ {Cached!ROOTS_THREAD, Cached!ThreadOf(r, face)} \subseteq e.threads
          /\ Current(r, face, e.dir, e.value)
      BY <2>2, <3>1 DEF CacheOK, EntryOK2
    <3>3. ~Gone(C, r, face)
      BY <3>1, <3>2 DEF Gone
    <3>4. QED
      BY <3>2, <3>3 DEF Carries
  <2>3. QED
    BY <2>1, <2>2 DEF EntryOK2, Current, UnderWay, Heard, Cached!ThreadOf, Cached!NoEntry,
       Cached!ROOTS_THREAD, Cached!Narrow, Cached!Wide, Cached!Answer
<1>4. QED
  BY <1>2, <1>3 DEF CacheOK, Entries, Threads, Values, Cached!NoEntry, Cached!Faces,
     Cached!ROOTS_THREAD, Cached!Narrow, Cached!Wide

\* ... and the read under way will not be kept when it hangs from one.
LEMMA CutReader ==
  ASSUME ReadOK(reader), NEW C \in SUBSET Threads, Cutting(C), Carries(C)
  PROVE  ReadOK(reader)'
<1>1. PICK q : q = reader
  OBVIOUS
<1>2. PICK n : n = reader'
  OBVIOUS
<1>3. q = Idle => n = Idle
  BY <1>1, <1>2 DEF Cutting, Cached!Cut, Cached!Idle, Idle
<1>4. q # Idle => n = [q EXCEPT !.cuts = @ \cup C] \/ (n = q /\ C = {})
  BY <1>1, <1>2 DEF Cutting, Cached!Cut, Cached!Idle, Idle
<1>5. CASE q \in Begun
  <2>1. q # Idle
    BY <1>5 DEF Begun, Idle
  <2>2. n \in Begun
    BY <1>4, <1>5, <2>1 DEF Begun
  <2>3. QED
    BY <1>2, <2>2 DEF ReadOK, Begun
<1>6. CASE q \in Resolved
  <2>1. q # Idle
    BY <1>6 DEF Resolved, Idle
  <2>2. n \in Resolved /\ n.cuts = q.cuts \cup C /\ n.root = q.root /\ n.dir = q.dir
    BY <1>4, <1>6, <2>1 DEF Resolved
  <2>3. \/ Cached!ROOTS_THREAD \in q.cuts \/ reload.at = "swapped"
        \/ arrangement.dirs[q.root] = q.dir
    BY <1>1, <1>6 DEF ReadOK, Begun, Resolved, Threaded, Computed, Idle
  <2>4. \/ Cached!ROOTS_THREAD \in n.cuts \/ reload'.at = "swapped"
        \/ arrangement'.dirs[n.root] = n.dir
    BY <2>2, <2>3 DEF Carries
  <2>5. QED
    BY <1>2, <2>2, <2>4 DEF ReadOK, Resolved, Cached!ROOTS_THREAD
<1>7. CASE q \in Threaded
  <2>1. q # Idle
    BY <1>7 DEF Threaded, Idle
  <2>2. /\ n \in Threaded /\ n.cuts = q.cuts \cup C /\ n.root = q.root /\ n.dir = q.dir
        /\ n.face = q.face /\ n.threads = q.threads /\ n.root \in Browsed /\ n.face \in Cached!Faces
    BY <1>4, <1>7, <2>1 DEF Threaded
  <2>3. \/ q.threads = {}
        \/ /\ q.threads = {Cached!ThreadOf(q.root, q.face)}
           /\ Doomed(q) \/ UnderWay(q.root, q.face) \/ Heard(q.root, q.face, q.dir)
    BY <1>1, <1>7 DEF ReadOK, Begun, Resolved, Threaded, Computed, Idle
  <2>4. CASE q.threads = {}
    BY <1>2, <2>2, <2>4 DEF ReadOK, Threaded
  <2>5. CASE q.threads = {Cached!ThreadOf(q.root, q.face)}
    <3>1. Doomed(q) => Doomed(n)
      BY <2>2 DEF Doomed
    <3>2. Gone(C, n.root, n.face) => Doomed(n)
      BY <2>2, <2>5 DEF Doomed, Gone
    <3>3. PICK r \in Browsed, face \in Cached!Faces : r = n.root /\ face = n.face
      BY <2>2
    <3>4. PICK d : d = n.dir
      OBVIOUS
    <3>5. ~Gone(C, r, face) /\ (UnderWay(r, face) \/ Heard(r, face, d))
             => (UnderWay(r, face) \/ Heard(r, face, d))'
      BY DEF Carries
    <3>6. \/ n.threads = {}
          \/ Doomed(n) \/ (UnderWay(r, face) \/ Heard(r, face, d))'
      BY <2>2, <2>3, <3>1, <3>2, <3>3, <3>4, <3>5
    <3>7. n.threads = {Cached!ThreadOf(n.root, n.face)}
      BY <2>2, <2>5
    <3>8. \/ n \in Threaded /\ (\/ n.threads = {}
                          \/ /\ n.threads = {Cached!ThreadOf(n.root, n.face)}
                             /\ Doomed(n) \/ (UnderWay(r, face) \/ Heard(r, face, d))')
      BY <2>2, <3>6, <3>7
    <3>9. QED
      BY <1>2, <3>3, <3>4, <3>8
         DEF ReadOK, UnderWay, Heard, Doomed, Cached!ThreadOf, Threaded, Cached!ROOTS_THREAD
  <2>6. QED
    BY <2>3, <2>4, <2>5
<1>8. CASE q \in Computed
  <2>1. q # Idle
    BY <1>8 DEF Computed, Idle
  <2>2. /\ n \in Computed /\ n.cuts = q.cuts \cup C /\ n.root = q.root /\ n.dir = q.dir
        /\ n.face = q.face /\ n.threads = q.threads /\ n.root \in Browsed /\ n.face \in Cached!Faces
        /\ n.value = q.value
    BY <1>4, <1>8, <2>1 DEF Computed
  <2>3. \/ q.threads = {}
        \/ /\ q.threads = {Cached!ThreadOf(q.root, q.face)}
           /\ Doomed(q) \/ Current(q.root, q.face, q.dir, q.value)
    BY <1>1, <1>8 DEF ReadOK, Begun, Resolved, Threaded, Computed, Idle
  <2>4. CASE q.threads = {}
    BY <1>2, <2>2, <2>4 DEF ReadOK, Computed
  <2>5. CASE q.threads = {Cached!ThreadOf(q.root, q.face)}
    <3>1. Doomed(q) => Doomed(n)
      BY <2>2 DEF Doomed
    <3>2. Gone(C, n.root, n.face) => Doomed(n)
      BY <2>2, <2>5 DEF Doomed, Gone
    <3>3. PICK r \in Browsed, face \in Cached!Faces : r = n.root /\ face = n.face
      BY <2>2
    <3>4. PICK d, v : d = n.dir /\ v = n.value
      OBVIOUS
    <3>5. ~Gone(C, r, face) /\ Current(r, face, d, v) => Current(r, face, d, v)'
      BY DEF Carries
    <3>6. n.threads = {} \/ Doomed(n) \/ Current(r, face, d, v)'
      BY <2>2, <2>3, <3>1, <3>2, <3>3, <3>4, <3>5
    <3>7. n.threads = {Cached!ThreadOf(n.root, n.face)}
      BY <2>2, <2>5
    <3>8. n \in Computed /\ n.threads = {Cached!ThreadOf(n.root, n.face)}
          /\ (n.threads = {} \/ Doomed(n) \/ Current(r, face, d, v)')
      BY <2>2, <3>6, <3>7
    <3>9. QED
      BY <1>2, <3>3, <3>4, <3>8
         DEF ReadOK, Current, UnderWay, Heard, Doomed, Cached!ThreadOf, Computed, Cached!ROOTS_THREAD
  <2>6. QED
    BY <2>3, <2>4, <2>5
<1>9. q = Idle \/ q \in Begun \/ q \in Resolved \/ q \in Threaded \/ q \in Computed
  BY <1>1 DEF ReadOK
<1>10. QED
  BY <1>2, <1>3, <1>5, <1>6, <1>7, <1>8, <1>9 DEF ReadOK, Idle

LEMMA ListOf ==
  ASSUME NEW S, NEW n \in Nat, NEW f \in [1 .. n -> S]
  PROVE  f \in Seq(S) /\ Len(f) = n
<1>1. f \in Seq(S)
  BY SeqDef
<1>2. DOMAIN f = 1 .. n /\ DOMAIN f = 1 .. Len(f) /\ Len(f) \in Nat
  BY <1>1, LenProperties
<1>3. QED
  BY <1>1, <1>2

\* Rows that were read stay what a read would give, or the change that made them old is due.
LEMMA FreshStays ==
  ASSUME NEW r \in Browsed, NEW d \in Dirs,
         cuts[r] \in Nat => cuts'[r] \in Nat /\ cuts'[r] >= cuts[r],
         cuts'[r] = cuts[r] =>
            \A g \in Sworn' : watches'[g].of[r] = d /\ ~watches'[g].hides[r] =>
               \/ DueIn(watches'[g], r, "file") \/ r \in missedRows'
               \/ /\ g \in Sworn /\ watches[g].of[r] = d /\ ~watches[g].hides[r]
                  /\ disk'[d].text = disk[d].text /\ ~Owed(watches[g], r)
  PROVE  \A e \in Nat : \A x : FreshOK(r, e, d, x) => FreshOK(r, e, d, x)'
<1> SUFFICES ASSUME NEW e \in Nat, NEW x, FreshOK(r, e, d, x) PROVE FreshOK(r, e, d, x)'
  OBVIOUS
<1>1. cuts[r] \in Nat /\ cuts'[r] \in Nat /\ e <= cuts[r] /\ e <= cuts'[r]
      /\ (e = cuts'[r] => cuts'[r] = cuts[r])
  BY DEF FreshOK
<1>2. ASSUME e = cuts'[r], NEW g \in Sworn', watches'[g].of[r] = d, ~watches'[g].hides[r]
      PROVE  x = disk'[d].text \/ DueIn(watches'[g], r, "file") \/ r \in missedRows'
  <2>1. cuts'[r] = cuts[r] /\ e = cuts[r]
    BY <1>1, <1>2
  <2>2. CASE DueIn(watches'[g], r, "file") \/ r \in missedRows'
    BY <2>2
  <2>3. CASE /\ g \in Sworn /\ watches[g].of[r] = d /\ ~watches[g].hides[r]
             /\ disk'[d].text = disk[d].text /\ ~Owed(watches[g], r)
    BY <1>2, <2>1, <2>3 DEF FreshOK
  <2>4. QED
    BY <1>2, <2>1, <2>2, <2>3
<1>3. QED
  BY <1>1, <1>2, Later DEF FreshOK

LEMMA RowsCarry ==
  ASSUME KeptOK, PollOK(poll), UNCHANGED <<kept, poll>>,
         \A r \in Browsed : cuts[r] \in Nat => cuts'[r] \in Nat /\ cuts'[r] >= cuts[r],
         \A r \in Browsed, d \in Dirs :
            \A e \in Nat : \A x : FreshOK(r, e, d, x) => FreshOK(r, e, d, x)'
  PROVE  KeptOK' /\ PollOK(poll)'
<1>1. ASSUME NEW r \in Browsed PROVE RowsOK(r, kept[r])'
  <2>1. PICK m : m = kept[r] /\ m = kept'[r]
    OBVIOUS
  <2>2. m # Cached!NoEntry => /\ m.epoch \in Nat /\ m.dir \in Dirs
                              /\ FreshOK(r, m.epoch, m.dir, m.text)
    BY <2>1 DEF KeptOK, RowsOK, KeptRows
  <2>3. m # Cached!NoEntry => FreshOK(r, m.epoch, m.dir, m.text)'
    BY <2>2
  <2>4. QED
    BY <2>1, <2>3 DEF RowsOK, FreshOK, Cached!NoEntry
<1>2. KeptOK'
  BY <1>1 DEF KeptOK, KeptRows, Cached!NoEntry
<1>3. PICK p : p = poll /\ p = poll'
  OBVIOUS
<1>4. CASE p \in Stamped /\ cuts[p.root] \in Nat /\ p.epoch <= cuts[p.root]
  <2>1. p.root \in Browsed /\ p.epoch \in Nat
    BY <1>4 DEF Stamped
  <2>2. cuts'[p.root] \in Nat /\ p.epoch <= cuts'[p.root]
    BY <1>4, <2>1
  <2>3. QED
    BY <1>2, <1>3, <1>4, <2>2 DEF PollOK, Stamped
<1>5. CASE p \in Polled /\ FreshOK(p.root, p.epoch, p.dir, p.text)
  <2>1. p.root \in Browsed /\ p.epoch \in Nat /\ p.dir \in Dirs
    BY <1>5 DEF Polled
  <2>2. FreshOK(p.root, p.epoch, p.dir, p.text)'
    BY <1>5, <2>1
  <2>3. QED
    BY <1>2, <1>3, <1>5, <2>2 DEF PollOK, FreshOK, Polled
<1>6. CASE p = Idle
  BY <1>2, <1>3, <1>6 DEF PollOK, Idle
<1>7. QED
  BY <1>3, <1>4, <1>5, <1>6 DEF PollOK

\* A change is told to every watch that the platform serves.
LEMMA ChangeKeeps ==
  ASSUME CachedInv, Counting, NEW d \in Dirs, NEW what \in {"text", "rules"},
         NEW told, Cached!Change(d, what, told)
  PROVE  CachedInv'
<1>1. /\ changes < MaxChanges /\ changes' = changes + 1
      /\ disk' = IF what = "text" THEN [disk EXCEPT ![d].text = @ + 1]
                                  ELSE [disk EXCEPT ![d].hidden = ~@]
      /\ watches' = [g \in DOMAIN watches |->
            IF g \notin Cached!Over(d) THEN watches[g]
            ELSE [watches[g] EXCEPT !.events =
                     Append(@, IF g \in told THEN [dir |-> d, what |-> what]
                                             ELSE Cached!Pathless)]]
      /\ UNCHANGED <<config, edits, arrangement, inForce, reload, cuts, cache, reader, kept, poll>>
  BY DEF Cached!Change, Cached!Tell, Cached!findings
<1>m. /\ missed \subseteq missed' /\ (missed \subseteq Browsed \X Cached!Faces
                                         => missed' \subseteq Browsed \X Cached!Faces)
      /\ missedRows \subseteq missedRows' /\ (missedRows \subseteq Browsed
                                                 => missedRows' \subseteq Browsed)
      /\ \A r \in Browsed, g \in Cached!Over(d) \ told : watches[g].of[r] = d =>
            r \in missedRows' /\ \A face \in Cached!Faces : <<r, face>> \in missed'
  <2>1. PICK blind : blind = {r \in Browsed : \E g \in Cached!Over(d) \ told : watches[g].of[r] = d}
    OBVIOUS
  <2>2. missed' = missed \cup (blind \X Cached!Faces) /\ missedRows' = missedRows \cup blind
    BY <2>1 DEF Cached!Change, Cached!Tell
  <2>3. QED
    BY <2>1, <2>2
<1>2. PICK e \in Paths : e = [dir |-> d, what |-> what]
  BY DEF Paths
<1>3. e.dir = d /\ e.what = what /\ e \in Events /\ e # Cached!Pathless
  <2>1. e \in Events
    BY DEF Events
  <2>2. QED
    BY <1>2, <2>1, WatchFacts
<1>o. OrderOK /\ WatchesAreForEdits /\ MissOK /\ CacheOK /\ ReadOK(reader) /\ KeptOK
      /\ PollOK(poll) /\ SiteOK
  BY DEF CachedInv
<1>4. ASSUME NEW g \in DOMAIN watches
      PROVE  /\ watches'[g] \in WatchSet /\ watches'[g].of = watches[g].of
             /\ watches'[g].hides = watches[g].hides /\ watches'[g].mode = watches[g].mode
             /\ \A r, face : DueIn(watches[g], r, face) => DueIn(watches'[g], r, face)
             /\ g \in Cached!Over(d) /\ g \in told
                => \A r, face : Cuts(e, watches[g], r, face) => DueIn(watches'[g], r, face)
  <2>1. PICK w \in WatchSet : w = watches[g]
    BY <1>o, OrderFacts
  <2>2. PICK v : v = watches'[g]
    OBVIOUS
  <2>3. CASE g \in Cached!Over(d)
    <3>1. PICK n : n = IF g \in told THEN e ELSE Cached!Pathless
      OBVIOUS
    <3>2. n \in Events
      BY <1>3, <3>1 DEF Events
    <3>3. v = [w EXCEPT !.events = Append(@, n)]
      BY <1>1, <1>2, <2>1, <2>2, <2>3, <3>1
    <3>4. /\ v \in WatchSet /\ v.of = w.of /\ v.hides = w.hides /\ v.mode = w.mode
          /\ \A r, face : DueIn(w, r, face) \/ Cuts(n, w, r, face) => DueIn(v, r, face)
      BY <3>2, <3>3, Told
    <3>5. QED
      BY <2>1, <2>2, <2>3, <3>1, <3>4
  <2>4. CASE g \notin Cached!Over(d)
    <3>1. v = w
      BY <1>1, <2>1, <2>2, <2>4
    <3>2. QED
      BY <2>1, <2>2, <2>4, <3>1
  <2>5. QED
    BY <2>3, <2>4
<1>b. ASSUME NEW g \in Sworn, NEW r \in Browsed, NEW face \in Cached!Faces,
             Cuts(e, watches[g], r, face)
      PROVE  \/ DueIn(watches'[g], r, face)
             \/ r \in missedRows' /\ <<r, face>> \in missed'
  <2>1. watches[g].of[r] = d
    BY <1>3, <1>b DEF Cuts
  <2>2. g \in DOMAIN watches /\ g \in Cached!Over(d)
    BY <1>o, <2>1, OrderFacts DEF Cached!Over
  <2>3. CASE g \in told
    BY <1>4, <1>b, <2>2, <2>3
  <2>4. CASE g \notin told
    BY <1>m, <2>1, <2>2, <2>4
  <2>5. QED
    BY <2>3, <2>4
<1>5. watches' \in Seq(WatchSet) /\ Len(watches') = Len(watches)
  <2>1. watches' \in [1 .. Len(watches) -> WatchSet] /\ Len(watches) \in Nat
    BY <1>1, <1>4, <1>o, OrderFacts
  <2>2. QED
    BY <2>1, ListOf
<1>6. OrderOK' /\ WatchesAreForEdits' /\ Sworn' = Sworn
  BY <1>1, <1>4, <1>5, <1>o, WatchesMove
<1>7. /\ \A b \in Dirs : b # d \/ (what = "rules") => disk'[b].text = disk[b].text
      /\ \A b \in Dirs : b # d \/ (what = "text") => disk'[b].hidden = disk[b].hidden
      /\ \A b \in Dirs : b # d => disk'[b] = disk[b]
  BY <1>1, <1>o DEF SiteOK
<1>8. SiteOK'
  <2>1. disk' \in [Dirs -> [text : Nat, hidden : BOOLEAN]]
    <3>1. PICK x \in [text : Nat, hidden : BOOLEAN] : x = disk[d]
      BY <1>o DEF SiteOK
    <3>2. PICK y : y = IF what = "text" THEN [x EXCEPT !.text = @ + 1] ELSE [x EXCEPT !.hidden = ~@]
      OBVIOUS
    <3>3. y \in [text : Nat, hidden : BOOLEAN]
      <4>1. CASE what = "text"
        BY <3>1, <3>2, <4>1
      <4>2. CASE what # "text"
        <5>1. PICK h : h = ~x.hidden
          OBVIOUS
        <5>2. h \in BOOLEAN
          BY <5>1, Zenon
        <5>3. y = [x EXCEPT !.hidden = h]
          BY <3>2, <4>2, <5>1
        <5>4. QED
          BY <3>1, <5>2, <5>3
      <4>3. QED
        BY <4>1, <4>2
    <3>4. disk' = [disk EXCEPT ![d] = y]
      BY <1>1, <3>1, <3>2, <1>o DEF SiteOK
    <3>5. QED
      BY <3>3, <3>4, <1>o DEF SiteOK
  <2>2. ASSUME NEW b \in Dirs PROVE disk'[b].text <= changes'
    <3>1. disk[b].text \in Nat /\ disk[b].text <= changes /\ changes \in Nat
      BY <1>o DEF SiteOK
    <3>2. disk'[b].text = disk[b].text \/ disk'[b].text = disk[b].text + 1
      BY <1>1, <1>o DEF SiteOK
    <3>3. QED
      BY <1>1, <3>1, <3>2
  <2>3. QED
    BY <1>1, <1>o, <2>1, <2>2, WatchFacts DEF SiteOK
<1>9. MissOK'
  BY <1>m, <1>o DEF MissOK
<1>10. Carries({})
  <2>1. arrangement.watch \in DOMAIN watches /\ Arr.mode \in {"held", "driven"}
    BY <1>o, OrderFacts DEF Arr
  <2>2. Arr'.of = Arr.of /\ Arr'.hides = Arr.hides
    BY <1>1, <1>4, <2>1 DEF Arr
  <2>3. \A r, face : DueIn(Arr, r, face) => DueIn(Arr', r, face)
    BY <1>1, <1>4, <2>1 DEF Arr
  <2>4. ASSUME NEW r \in Browsed, NEW face \in Cached!Faces, NEW b, Heard(r, face, b)
        PROVE  \/ Cached!Answer(b, face)' = Cached!Answer(b, face)
               \/ DueIn(Arr', r, face) \/ <<r, face>> \in missed'
    <3>1. Arr.of[r] = b /\ (face = "file" => ~Arr.hides[r])
      BY <2>4 DEF Heard
    <3>2. CASE b # d
      BY <1>1, <3>2 DEF Cached!Answer
    <3>3. CASE face = "file" /\ what = "rules" /\ b = d
      BY <1>1, <1>o, <3>3 DEF Cached!Answer, SiteOK
    <3>4. CASE b = d /\ (face = "state" \/ what = "text")
      <4>1. Cuts(e, Arr, r, face)
        BY <1>3, <3>1, <3>4 DEF Cuts, Cached!Faces
      <4>2. DueIn(watches'[arrangement.watch], r, face) \/ <<r, face>> \in missed'
        BY <1>b, <1>o, <4>1, OrderFacts DEF Arr
      <4>3. QED
        BY <1>1, <4>2 DEF Arr
    <3>5. QED
      BY <3>2, <3>3, <3>4 DEF Cached!Faces
  <2>5. QED
    BY <1>1, <1>m, <2>2, <2>3, <2>4, CarriesBy
<1>11. CacheOK' /\ ReadOK(reader)'
  BY <1>1, <1>10, <1>o, CutCache, CutReader DEF Cutting
<1>12. KeptOK' /\ PollOK(poll)'
  <2>1. \A r \in Browsed : cuts[r] \in Nat => cuts'[r] \in Nat /\ cuts'[r] >= cuts[r]
    BY <1>1
  <2>2. ASSUME NEW r \in Browsed, NEW b \in Dirs, NEW g \in Sworn, watches'[g].of[r] = b,
                 ~watches'[g].hides[r]
        PROVE  \/ DueIn(watches'[g], r, "file") \/ r \in missedRows'
               \/ /\ watches[g].of[r] = b /\ ~watches[g].hides[r]
                  /\ disk'[b].text = disk[b].text /\ ~Owed(watches[g], r)
    <3>1. g \in DOMAIN watches
      BY <1>o, OrderFacts
    <3>2. watches[g].of[r] = b /\ ~watches[g].hides[r]
      BY <1>4, <2>2, <3>1
    <3>3. Owed(watches[g], r) => DueIn(watches'[g], r, "file") \/ r \in missedRows'
      BY <1>4, <1>m, <3>1 DEF Owed
    <3>4. CASE disk'[b].text = disk[b].text
      BY <3>2, <3>3, <3>4
    <3>5. CASE disk'[b].text # disk[b].text
      <4>1. b = d /\ "file" \in Cached!Faces
        BY <1>7, <3>5 DEF Cached!Faces
      <4>2. Cuts(e, watches[g], r, "file")
        BY <1>3, <3>2, <4>1 DEF Cuts
      <4>3. QED
        BY <1>b, <4>1, <4>2
    <3>6. QED
      BY <3>4, <3>5
  <2>3. QED
    <3>1. ASSUME NEW r \in Browsed, NEW b \in Dirs
          PROVE  \A x \in Nat : \A y : FreshOK(r, x, b, y) => FreshOK(r, x, b, y)'
      BY <1>6, <2>1, <2>2, FreshStays
    <3>2. QED
      BY <1>1, <1>o, <2>1, <3>1, RowsCarry
<1>13. QED
  BY <1>6, <1>8, <1>9, <1>11, <1>12 DEF CachedInv

LEMMA EndedFacts == Cached!Ended \in WatchSet
<1>1. <<>> \in Seq(Events)
  BY EmptySeq
<1>2. PICK n : n = Cached!NoWatch
  OBVIOUS
<1>3. n \in [of : [Browsed -> Places], hides : [Browsed -> BOOLEAN], events : Seq(Events),
             mode : {"none"}]
  BY <1>1, <1>2 DEF Cached!NoWatch, Places
<1>4. [n EXCEPT !.mode = "ended"] \in WatchSet
  BY <1>3 DEF WatchSet
<1>5. QED
  BY <1>2, <1>4 DEF Cached!Ended

\* A step that replaces one watch by what it has become.
LEMMA OneMoves ==
  ASSUME OrderOK, WatchesAreForEdits,
         UNCHANGED <<config, edits, inForce, reload, arrangement>>,
         NEW g \in DOMAIN watches, NEW v \in WatchSet, watches' = [watches EXCEPT ![g] = v],
         watches[g].mode \in {"held", "driven"} => v.of = watches[g].of /\ v.mode = watches[g].mode
  PROVE  /\ OrderOK' /\ WatchesAreForEdits' /\ Sworn' = Sworn
         /\ watches'[g] = v /\ \A k \in DOMAIN watches : k # g => watches'[k] = watches[k]
<1>1. watches \in Seq(WatchSet) /\ g \in 1 .. Len(watches)
  BY OrderFacts DEF OrderOK
<1>2. watches' \in Seq(WatchSet) /\ Len(watches') = Len(watches)
      /\ \A k \in DOMAIN watches : watches'[k] = IF k = g THEN v ELSE watches[k]
  BY <1>1, ExceptSeq, OrderFacts
<1>3. QED
  BY <1>2, WatchesMove

\* The rules are read again before the cut that their change makes.
LEMMA RereadKeeps ==
  ASSUME CachedInv, NEW g \in DOMAIN watches, Cached!Reread(g)
  PROVE  CachedInv'
<1>o. OrderOK /\ WatchesAreForEdits /\ MissOK /\ CacheOK /\ ReadOK(reader) /\ KeptOK
      /\ PollOK(poll) /\ SiteOK
  BY DEF CachedInv
<1>u. UNCHANGED <<disk, changes, config, edits, arrangement, inForce, reload, cuts, cache, reader,
                  kept, poll, missed, missedRows>>
  BY DEF Cached!Reread, Cached!site, Cached!findings, Cached!untold
<1>1. PICK w \in WatchSet : w = watches[g]
  BY <1>o, OrderFacts
<1>2. w.events # <<>> /\ Head(w.events).what = "rules" /\ Head(w.events).dir \in Dirs
  <2>1. w.events # <<>> /\ Head(w.events).what = "rules"
    BY <1>1 DEF Cached!Reread, Cached!Ready
  <2>2. Head(w.events) \in Events
    BY <2>1, HeadTailProperties DEF WatchSet
  <2>3. QED
    BY <2>1, <2>2, WatchFacts
<1>3. PICK h : h = [r \in Browsed |-> IF w.of[r] = Head(w.events).dir THEN disk[w.of[r]].hidden
                                      ELSE w.hides[r]]
  OBVIOUS
<1>4. /\ h \in [Browsed -> BOOLEAN]
      /\ \A r \in Browsed : h[r] = IF w.of[r] = Head(w.events).dir THEN disk[w.of[r]].hidden
                                   ELSE w.hides[r]
  <2>2. \A r \in Browsed : w.of[r] = Head(w.events).dir => disk[w.of[r]].hidden \in BOOLEAN
    BY <1>2, <1>o DEF SiteOK
  <2>3. \A r \in Browsed : w.hides[r] \in BOOLEAN
    BY DEF WatchSet
  <2>4. QED
    BY <1>3, <2>2, <2>3
<1>5. PICK v : v = Relearned(w, h)
  OBVIOUS
<1>6. watches' = [watches EXCEPT ![g] = v]
  <2>1. \A r \in Browsed : w.of[r] = Head(w.events).dir <=> r \in Cached!Named(g)
    BY <1>1, <1>2, WatchFacts DEF Cached!Named, Cached!Watched
  <2>2. h = [r \in Browsed |-> IF r \in Cached!Named(g) THEN disk[watches[g].of[r]].hidden
                               ELSE watches[g].hides[r]]
    BY <1>1, <1>3, <2>1
  <2>3. QED
    BY <1>1, <1>5, <2>2 DEF Cached!Reread, Relearned
<1>7. /\ v \in WatchSet /\ v.of = w.of /\ v.hides = h /\ v.mode = w.mode
      /\ \A r \in Browsed : \A face :
           DueIn(w, r, face) \/ w.of[r] = Head(w.events).dir => DueIn(v, r, face)
  <2>1. \A r \in Browsed : w.of[r] # Head(w.events).dir => h[r] = w.hides[r]
    BY <1>4
  <2>2. h \in [Browsed -> BOOLEAN]
    BY <1>4
  <2>3. QED
    BY <1>2, <1>5, <2>1, <2>2, FirstReread
<1>8. /\ OrderOK' /\ WatchesAreForEdits' /\ Sworn' = Sworn
      /\ watches'[g] = v /\ \A k \in DOMAIN watches : k # g => watches'[k] = watches[k]
  BY <1>1, <1>6, <1>7, <1>o, <1>u, OneMoves
<1>9. SiteOK'
  BY <1>o, <1>u DEF SiteOK
<1>10. MissOK'
  BY <1>o, <1>u DEF MissOK
<1>11. Carries({})
  <2>1. arrangement.watch \in DOMAIN watches
    BY <1>o, OrderFacts
  <2>2. /\ Arr'.of = Arr.of
        /\ \A r \in Browsed : \A face : /\ DueIn(Arr, r, face) => DueIn(Arr', r, face)
                                        /\ Arr'.hides[r] = Arr.hides[r] \/ DueIn(Arr', r, face)
    BY <1>1, <1>4, <1>7, <1>8, <1>u, <2>1 DEF Arr
  <2>3. \A d, face : Cached!Answer(d, face)' = Cached!Answer(d, face)
    BY <1>u DEF Cached!Answer
  <2>4. QED
    BY <1>u, <2>2, <2>3, CarriesBy
<1>12. CacheOK' /\ ReadOK(reader)'
  BY <1>u, <1>11, <1>o, CutCache, CutReader DEF Cutting
<1>13. KeptOK' /\ PollOK(poll)'
  <2>1. \A r \in Browsed : cuts[r] \in Nat => cuts'[r] \in Nat /\ cuts'[r] >= cuts[r]
    BY <1>u
  <2>2. ASSUME NEW r \in Browsed, NEW b \in Dirs, NEW k \in Sworn, watches'[k].of[r] = b,
               ~watches'[k].hides[r]
        PROVE  \/ DueIn(watches'[k], r, "file") \/ r \in missedRows'
               \/ /\ watches[k].of[r] = b /\ ~watches[k].hides[r]
                  /\ disk'[b].text = disk[b].text /\ ~Owed(watches[k], r)
    <3>1. k \in DOMAIN watches
      BY <1>o, OrderFacts
    <3>2. CASE k # g
      BY <1>8, <1>u, <2>2, <3>1, <3>2 DEF Owed
    <3>3. CASE k = g
      BY <1>1, <1>4, <1>7, <1>8, <1>u, <2>2, <3>3 DEF Owed
    <3>4. QED
      BY <3>2, <3>3
  <2>3. ASSUME NEW r \in Browsed, NEW b \in Dirs
        PROVE  \A x \in Nat : \A y : FreshOK(r, x, b, y) => FreshOK(r, x, b, y)'
    BY <1>8, <2>1, <2>2, FreshStays
  <2>4. QED
    BY <1>u, <1>o, <2>1, <2>3, RowsCarry
<1>14. QED
  BY <1>8, <1>9, <1>10, <1>12, <1>13 DEF CachedInv

\* A cut forgets no change that it does not make up for.
LEMMA CutMissed ==
  ASSUME NEW C, Cached!Cut(C)
  PROVE  /\ missed' \subseteq missed
         /\ \A r \in Browsed, face \in Cached!Faces :
               ~Gone(C, r, face) /\ <<r, face>> \in missed => <<r, face>> \in missed'
  BY DEF Cached!Cut, Gone

\* An event is applied: what it made stale is cut, and the counters of its roots move.
LEMMA ApplyKeeps ==
  ASSUME CachedInv, Counting, NEW g \in DOMAIN watches, Cached!Apply(g)
  PROVE  CachedInv'
<1>o. OrderOK /\ WatchesAreForEdits /\ MissOK /\ CacheOK /\ ReadOK(reader) /\ KeptOK
      /\ PollOK(poll) /\ SiteOK
  BY DEF CachedInv
<1>u. UNCHANGED <<disk, changes, config, edits, arrangement, inForce, reload, kept, poll>>
  BY DEF Cached!Apply, Cached!site, Cached!findings
<1>1. PICK w \in WatchSet : w = watches[g]
  BY <1>o, OrderFacts
<1>2. /\ w.mode \in {"driven", "dropped"} /\ w.events # <<>> /\ Head(w.events).what # "rules"
      /\ Head(w.events) \in Events
  BY <1>1, HeadTailProperties DEF Cached!Apply, Cached!Ready, WatchSet
<1>3. PICK C : C = Cached!CutsFor(g)
  OBVIOUS
<1>4. /\ C \in SUBSET Threads
      /\ \A r \in Browsed, face \in Cached!Faces :
            Cuts(Head(w.events), w, r, face) => Cached!ThreadOf(r, face) \in C
  <2>a. Head(w.events) # Cached!Pathless => Head(w.events).dir # NoDir
    BY <1>2, WatchFacts
  <2>1. C = UNION {IF Head(w.events).what = "text" /\ w.hides[r] THEN {Cached!Wide(r)}
                   ELSE {Cached!Narrow(r), Cached!Wide(r)} :
                     r \in {q \in Browsed : /\ w.of[q] # NoDir
                                                       /\ w.of[q] = Head(w.events).dir}}
    <3>1. Cached!Named(g) = {q \in Browsed : w.of[q] # NoDir /\ w.of[q] = Head(w.events).dir}
      BY <1>1 DEF Cached!Named, Cached!Watched
    <3>2. QED
      BY <1>1, <1>3, <3>1 DEF Cached!CutsFor
  <2>2. C \in SUBSET Threads
    BY <2>1 DEF Threads
  <2>3. ASSUME NEW r \in Browsed, NEW face \in Cached!Faces, Cuts(Head(w.events), w, r, face)
        PROVE  Cached!ThreadOf(r, face) \in C
    <3>1. w.of[r] = Head(w.events).dir /\ w.of[r] # NoDir
          /\ (face = "state" \/ ~(Head(w.events).what = "text" /\ w.hides[r]))
      BY <2>a, <2>3 DEF Cuts
    <3>2. Cached!ThreadOf(r, face) \in (IF Head(w.events).what = "text" /\ w.hides[r]
                                 THEN {Cached!Wide(r)} ELSE {Cached!Narrow(r), Cached!Wide(r)})
      BY <3>1 DEF Cached!ThreadOf, Cached!Faces
    <3>3. QED
      BY <2>1, <3>1, <3>2
  <2>4. QED
    BY <2>2, <2>3
<1>5. Cutting(C)
  BY <1>3 DEF Cached!Apply, Cutting
<1>6. /\ \A r \in Browsed : cuts[r] \in Nat => cuts'[r] \in Nat /\ cuts'[r] >= cuts[r]
      /\ \A r \in Browsed : Cached!Narrow(r) \in C /\ cuts[r] \in Nat => cuts'[r] # cuts[r]
      /\ \A r \in Browsed : Cached!Narrow(r) \notin C /\ r \in missedRows => r \in missedRows'
      /\ missedRows' \subseteq missedRows
  <2>1. cuts' = [r \in Browsed |-> IF Cached!Narrow(r) \in C /\ cuts[r] # NoCounter
                                   THEN cuts[r] + 1 ELSE cuts[r]]
    BY <1>3 DEF Cached!Apply, Cached!Bump
  <2>2. missedRows' = missedRows \ {r \in Browsed : Cached!Narrow(r) \in C}
    BY <1>3 DEF Cached!Apply, Cached!Bump
  <2>3. \A r \in Browsed : cuts[r] \in Nat => cuts'[r] \in Nat /\ cuts'[r] >= cuts[r]
    BY <2>1, WatchFacts
  <2>4. \A r \in Browsed : Cached!Narrow(r) \in C /\ cuts[r] \in Nat => cuts'[r] # cuts[r]
    BY <2>1, WatchFacts
  <2>5. QED
    BY <2>2, <2>3, <2>4
<1>m. /\ missed' \subseteq missed
      /\ \A r \in Browsed, face \in Cached!Faces :
            ~Gone(C, r, face) /\ <<r, face>> \in missed => <<r, face>> \in missed'
  BY <1>3, CutMissed DEF Cached!Apply
<1>7. PICK u : u = [w EXCEPT !.events = Tail(@)]
  OBVIOUS
<1>8. /\ u \in WatchSet /\ u.of = w.of /\ u.hides = w.hides /\ u.mode = w.mode
      /\ \A r, face : DueIn(w, r, face) => DueIn(u, r, face) \/ Cuts(Head(w.events), w, r, face)
  BY <1>2, <1>7, FirstApplied
<1>9. PICK v : v = Cached!AfterRemoving(w, Tail(w.events))
  OBVIOUS
<1>10. v \in WatchSet /\ (w.mode \in {"held", "driven"} => v = u)
  <2>1. Cached!Ended \in WatchSet
    BY EndedFacts
  <2>2. v = Cached!Ended \/ v = u
    BY <1>7, <1>9 DEF Cached!AfterRemoving
  <2>3. w.mode \in {"held", "driven"} => v = u
    BY <1>7, <1>9 DEF Cached!AfterRemoving
  <2>4. QED
    BY <1>8, <2>1, <2>2, <2>3
<1>11. watches' = [watches EXCEPT ![g] = v]
  BY <1>1, <1>9 DEF Cached!Apply
<1>12. /\ OrderOK' /\ WatchesAreForEdits' /\ Sworn' = Sworn
       /\ watches'[g] = v /\ \A k \in DOMAIN watches : k # g => watches'[k] = watches[k]
  BY <1>1, <1>8, <1>10, <1>11, <1>o, <1>u, OneMoves
<1>13. \A k \in Sworn : k \in DOMAIN watches /\ (k = g => v = u /\ watches'[k] = u)
  BY <1>1, <1>10, <1>12, <1>o, OrderFacts
<1>14. SiteOK'
  BY <1>o, <1>u DEF SiteOK
<1>15. MissOK'
  BY <1>6, <1>m, <1>o DEF MissOK
<1>16. Carries(C)
  <2>1. arrangement.watch \in Sworn
    BY <1>o, OrderFacts
  <2>2. CASE arrangement.watch # g
    <3>1. Arr' = Arr
      BY <1>12, <1>13, <1>u, <2>1, <2>2 DEF Arr
    <3>2. \A d, face : Cached!Answer(d, face)' = Cached!Answer(d, face)
      BY <1>u DEF Cached!Answer
    <3>3. QED
      BY <1>m, <1>u, <3>1, <3>2, CarriesBy
  <2>3. CASE arrangement.watch = g
    <3>1. Arr = w /\ Arr' = u
      BY <1>1, <1>13, <1>u, <2>1, <2>3 DEF Arr
    <3>2. \A d, face : Cached!Answer(d, face)' = Cached!Answer(d, face)
      BY <1>u DEF Cached!Answer
    <3>3. ASSUME NEW r \in Browsed, NEW face \in Cached!Faces, ~Gone(C, r, face)
          PROVE  DueIn(Arr, r, face) => DueIn(Arr', r, face)
      BY <1>4, <1>8, <3>1, <3>3 DEF Gone
    <3>4. Arr'.of = Arr.of /\ Arr'.hides = Arr.hides
      BY <1>8, <3>1
    <3>5. QED
      BY <1>m, <1>u, <3>2, <3>3, <3>4, CarriesBy
  <2>4. QED
    BY <2>2, <2>3
<1>17. CacheOK' /\ ReadOK(reader)'
  BY <1>4, <1>5, <1>16, <1>o, CutCache, CutReader
<1>18. KeptOK' /\ PollOK(poll)'
  <2>2. ASSUME NEW r \in Browsed, NEW b \in Dirs, NEW k \in Sworn, watches'[k].of[r] = b,
               ~watches'[k].hides[r], cuts'[r] = cuts[r]
        PROVE  \/ DueIn(watches'[k], r, "file") \/ r \in missedRows'
               \/ /\ watches[k].of[r] = b /\ ~watches[k].hides[r]
                  /\ disk'[b].text = disk[b].text /\ ~Owed(watches[k], r)
               \/ cuts[r] \notin Nat
    <3>a. cuts[r] \in Nat => Cached!Narrow(r) \notin C
      BY <1>6, <2>2
    <3>1. CASE k # g
      BY <1>6, <1>12, <1>13, <1>u, <2>2, <3>1, <3>a DEF Owed
    <3>2. CASE k = g
      <4>1. Cuts(Head(w.events), w, r, "file") => Cached!Narrow(r) \in C
        BY <1>4 DEF Cached!ThreadOf, Cached!Faces
      <4>2. QED
        BY <1>1, <1>6, <1>8, <1>13, <1>u, <2>2, <3>2, <3>a, <4>1 DEF Owed
    <3>3. QED
      BY <3>1, <3>2
  <2>3. ASSUME NEW r \in Browsed, NEW b \in Dirs
        PROVE  \A x \in Nat : \A y : FreshOK(r, x, b, y) => FreshOK(r, x, b, y)'
    <3>1. CASE cuts[r] \in Nat
      BY <1>6, <1>12, <2>2, <3>1, FreshStays
    <3>2. CASE cuts[r] \notin Nat
      BY <3>2 DEF FreshOK
    <3>3. QED
      BY <3>1, <3>2
  <2>4. QED
    BY <1>u, <1>o, <1>6, <2>3, RowsCarry
<1>19. QED
  BY <1>12, <1>14, <1>15, <1>17, <1>18 DEF CachedInv

\* The platform is asked for a watch of the roots that the file names now.
LEMMA StartWatchKeeps ==
  ASSUME CachedInv, NEW accepted \in SUBSET Browsed, Cached!StartWatch(accepted)
  PROVE  CachedInv'
<1>o. OrderOK /\ WatchesAreForEdits /\ MissOK /\ CacheOK /\ ReadOK(reader) /\ KeptOK
      /\ PollOK(poll) /\ SiteOK
  BY DEF CachedInv
<1>u. UNCHANGED <<disk, changes, config, edits, arrangement, inForce, cuts, cache, reader, kept, poll,
                  missed, missedRows>>
  BY DEF Cached!StartWatch, Cached!site, Cached!findings, Cached!untold
<1>1. /\ reload = Idle /\ config # inForce.dirs
      /\ watches' = Append(watches, Cached!Watching(config, accepted))
      /\ reload' = [at |-> "watching", dirs |-> config, watch |-> Len(watches) + 1]
  BY WatchFacts DEF Cached!StartWatch
<1>2. PICK w : w = Cached!Watching(config, accepted)
  OBVIOUS
<1>3. w \in WatchSet /\ w.mode = "held" /\ \A r \in Browsed : w.of[r] \in {config[r], NoDir}
  <2>1. <<>> \in Seq(Events)
    BY EmptySeq
  <2>2. PICK n : n = Cached!NoWatch
    OBVIOUS
  <2>3. n \in [of : [Browsed -> Places], hides : [Browsed -> BOOLEAN], events : Seq(Events),
               mode : {"none"}]
    BY <2>1, <2>2 DEF Cached!NoWatch, Places
  <2>4. PICK o : o = [r \in Browsed |-> IF r \in accepted THEN config[r] ELSE NoDir]
    OBVIOUS
  <2>5. o \in [Browsed -> Places] /\ \A r \in Browsed : o[r] \in {config[r], NoDir}
    BY <2>4, <1>o DEF SiteOK, Places
  <2>6. w = [n EXCEPT !.of = o, !.mode = "held"]
    BY <1>2, <2>2, <2>4 DEF Cached!Watching
  <2>7. QED
    BY <2>3, <2>5, <2>6 DEF WatchSet
<1>4. /\ watches \in Seq(WatchSet) /\ DOMAIN watches = 1 .. Len(watches) /\ Len(watches) \in Nat
      /\ inForce.watch \in DOMAIN watches
  BY <1>o, OrderFacts DEF OrderOK
<1>5. /\ watches' \in Seq(WatchSet) /\ Len(watches') = Len(watches) + 1
      /\ DOMAIN watches' = 1 .. Len(watches) + 1
      /\ \A k \in DOMAIN watches : watches'[k] = watches[k]
      /\ watches'[Len(watches) + 1] = w
  BY <1>1, <1>2, <1>3, <1>4
<1>6. reload.at = "idle" /\ arrangement = inForce /\ Sworn = {inForce.watch}
  BY <1>1, <1>o DEF Idle, OrderOK, Sworn
<1>7. reload'.at = "watching" /\ reload'.dirs = config /\ reload'.watch = Len(watches) + 1
      /\ reload' # Idle /\ reload' \in Reloads'
  BY <1>1, <1>5, <1>o, <1>4 DEF Reloads, Idle, SiteOK
<1>8. OrderOK'
  <2>1. inForce \in [dirs : [Browsed -> Places], watch : DOMAIN watches']
    BY <1>4, <1>5, <1>o DEF OrderOK
  <2>2. inForce.watch # Len(watches) + 1
    BY <1>4
  <2>3. QED
    BY <1>3, <1>4, <1>5, <1>6, <1>7, <1>o, <1>u, <2>1, <2>2 DEF OrderOK
<1>9. WatchesAreForEdits'
  BY <1>1, <1>4, <1>5, <1>6, <1>7, <1>o, <1>u DEF WatchesAreForEdits, SiteOK
<1>10. Sworn' = Sworn /\ \A k \in Sworn : watches'[k] = watches[k]
  BY <1>4, <1>5, <1>6, <1>7, <1>u DEF Sworn
<1>11. SiteOK'
  BY <1>o, <1>u DEF SiteOK
<1>12. MissOK'
  BY <1>o, <1>u DEF MissOK
<1>13. Carries({})
  <2>1. Arr' = Arr
    BY <1>6, <1>10, <1>u DEF Arr
  <2>2. ASSUME NEW r, NEW face PROVE UnderWay(r, face) <=> UnderWay(r, face)'
    BY <1>6, <1>7, <2>1, LaterArr DEF UnderWay
  <2>3. ASSUME NEW r, NEW face, NEW d PROVE Heard(r, face, d) <=> Heard(r, face, d)'
    BY <1>u, <2>1 DEF Heard
  <2>4. ASSUME NEW face, NEW d PROVE Cached!Answer(d, face)' = Cached!Answer(d, face)
    BY <1>u DEF Cached!Answer
  <2>5. ASSUME NEW r, NEW face, NEW d, NEW v, Current(r, face, d, v) PROVE Current(r, face, d, v)'
    BY <1>u, <2>2, <2>3, <2>4, <2>5 DEF Current
  <2>6. QED
    BY <1>6, <1>u, <2>2, <2>3, <2>5 DEF Carries
<1>14. CacheOK' /\ ReadOK(reader)'
  BY <1>u, <1>13, <1>o, CutCache, CutReader DEF Cutting
<1>15. KeptOK' /\ PollOK(poll)'
  <2>1. \A r \in Browsed : cuts[r] \in Nat => cuts'[r] \in Nat /\ cuts'[r] >= cuts[r]
    BY <1>u
  <2>2. ASSUME NEW r \in Browsed, NEW b \in Dirs
        PROVE  \A x \in Nat : \A y : FreshOK(r, x, b, y) => FreshOK(r, x, b, y)'
    BY <1>10, <1>u, <2>1, FreshStays DEF Owed
  <2>3. QED
    BY <1>u, <1>o, <2>1, <2>2, RowsCarry
<1>16. QED
  BY <1>8, <1>9, <1>11, <1>12, <1>14, <1>15 DEF CachedInv

\* The re-arrangement under way.
LEMMA ReloadFacts ==
  ASSUME OrderOK, reload.at # "idle"
  PROVE  /\ reload \in Reloads /\ reload # Idle /\ reload.watch # inForce.watch
         /\ reload.watch \in DOMAIN watches /\ watches[reload.watch].mode = "held"
         /\ \A r \in Browsed : watches[reload.watch].of[r] \in {reload.dirs[r], NoDir}
  BY DEF OrderOK, Reloads, Idle

\* The rules are read before the new watch is relied upon, and every counter moves.
LEMMA LoadRulesKeeps ==
  ASSUME CachedInv, Counting, Cached!LoadRules
  PROVE  CachedInv'
<1>o. OrderOK /\ WatchesAreForEdits /\ MissOK /\ CacheOK /\ ReadOK(reader) /\ KeptOK
      /\ PollOK(poll) /\ SiteOK
  BY DEF CachedInv
<1>u. UNCHANGED <<disk, changes, config, edits, arrangement, inForce, cache, reader, kept, poll,
                  missed>>
  BY DEF Cached!LoadRules, Cached!site, Cached!findings
<1>m. missedRows' = {}
  BY DEF Cached!LoadRules, Cached!Track
<1>1. /\ reload.at = "watching" /\ reload' = [reload EXCEPT !.at = "started"]
      /\ watches' = [watches EXCEPT ![reload.watch] = Cached!Load(@)]
  BY DEF Cached!LoadRules
<1>2. PICK m \in Reloads : m = reload
  BY <1>1, <1>o, ReloadFacts
<1>3. /\ m.watch # inForce.watch /\ m.watch \in DOMAIN watches /\ watches[m.watch].mode = "held"
      /\ \A r \in Browsed : watches[m.watch].of[r] \in {m.dirs[r], NoDir}
      /\ inForce.watch \in DOMAIN watches
  BY <1>1, <1>2, <1>o, ReloadFacts, OrderFacts
<1>4. PICK n : n = reload'
  OBVIOUS
<1>5. n \in Reloads /\ n.at = "started" /\ n.dirs = m.dirs /\ n.watch = m.watch /\ n # Idle
  BY <1>1, <1>2, <1>4 DEF Reloads, Idle
<1>6. PICK w \in WatchSet : w = watches[m.watch]
  BY <1>3, <1>o, OrderFacts
<1>7. PICK v : v = Cached!Load(w)
  OBVIOUS
<1>8. /\ v \in WatchSet /\ v.of = w.of /\ v.mode = w.mode
      /\ \A r \in Browsed : v.of[r] # NoDir => v.hides[r] = disk[v.of[r]].hidden
  <2>1. PICK h : h = [r \in Browsed |-> w.of[r] # NoDir /\ disk[w.of[r]].hidden]
    OBVIOUS
  <2>2. \A r \in Browsed : (w.of[r] # NoDir /\ disk[w.of[r]].hidden) \in BOOLEAN
    OBVIOUS
  <2>3. h \in [Browsed -> BOOLEAN] /\ \A r \in Browsed : h[r] = (w.of[r] # NoDir /\ disk[w.of[r]].hidden)
    BY <2>1, <2>2
  <2>4. v = [w EXCEPT !.hides = h]
    BY <1>7, <2>1 DEF Cached!Load
  <2>5. v \in WatchSet /\ v.of = w.of /\ v.mode = w.mode /\ v.hides = h
    BY <2>3, <2>4 DEF WatchSet
  <2>6. \A r \in Browsed : w.of[r] # NoDir => w.of[r] \in Dirs
    BY DEF WatchSet, Places
  <2>7. ASSUME NEW r \in Browsed, v.of[r] # NoDir PROVE v.hides[r] = disk[v.of[r]].hidden
    <3>1. disk[v.of[r]].hidden \in BOOLEAN
      BY <1>o, <2>5, <2>6, <2>7 DEF SiteOK
    <3>2. QED
      BY <2>3, <2>5, <2>7, <3>1
  <2>8. QED
    BY <2>5, <2>7
<1>9. watches' = [watches EXCEPT ![m.watch] = v]
  BY <1>1, <1>2, <1>6, <1>7
<1>10. /\ watches' \in Seq(WatchSet) /\ Len(watches') = Len(watches)
       /\ DOMAIN watches' = DOMAIN watches
       /\ \A k \in DOMAIN watches : watches'[k] = IF k = m.watch THEN v ELSE watches[k]
  <2>1. watches \in Seq(WatchSet) /\ m.watch \in 1 .. Len(watches)
    BY <1>3, <1>o, OrderFacts DEF OrderOK
  <2>2. QED
    BY <1>8, <1>9, <2>1, ExceptSeq
<1>11. arrangement = inForce /\ Sworn = {inForce.watch} /\ Sworn' = {inForce.watch, m.watch}
  BY <1>1, <1>4, <1>5, <1>o, <1>u DEF OrderOK, Sworn
<1>12. OrderOK'
  <2>1. n \in Reloads'
    BY <1>5, <1>10 DEF Reloads
  <2>2. QED
    BY <1>3, <1>4, <1>5, <1>6, <1>8, <1>10, <1>11, <1>o, <1>u, <2>1 DEF OrderOK
<1>13. WatchesAreForEdits'
  <2>1. reload # Idle
    BY <1>1 DEF Idle
  <2>2. QED
    BY <1>2, <1>4, <1>5, <1>10, <1>o, <1>u, <2>1 DEF WatchesAreForEdits
<1>14. watches'[inForce.watch] = watches[inForce.watch] /\ watches'[m.watch] = v
  BY <1>3, <1>10
<1>15. SiteOK'
  BY <1>o, <1>u DEF SiteOK
<1>16. MissOK'
  BY <1>m, <1>o, <1>u DEF MissOK
<1>17. Carries({})
  <2>1. Arr' = Arr
    BY <1>11, <1>14, <1>u DEF Arr
  <2>2. ASSUME NEW r, NEW face PROVE UnderWay(r, face) <=> UnderWay(r, face)'
    BY <1>1, <1>4, <1>5, <2>1, LaterArr DEF UnderWay
  <2>3. ASSUME NEW r, NEW face, NEW d PROVE Heard(r, face, d) <=> Heard(r, face, d)'
    BY <1>u, <2>1 DEF Heard
  <2>4. ASSUME NEW face, NEW d PROVE Cached!Answer(d, face)' = Cached!Answer(d, face)
    BY <1>u DEF Cached!Answer
  <2>5. ASSUME NEW r, NEW face, NEW d, NEW x, Current(r, face, d, x) PROVE Current(r, face, d, x)'
    BY <1>u, <2>2, <2>3, <2>4, <2>5 DEF Current
  <2>6. QED
    BY <1>1, <1>u, <2>2, <2>3, <2>5 DEF Carries
<1>18. CacheOK' /\ ReadOK(reader)'
  BY <1>u, <1>17, <1>o, CutCache, CutReader DEF Cutting
<1>19. KeptOK' /\ PollOK(poll)'
  <2>1. \A r \in Browsed : cuts[r] \in Nat => cuts'[r] \in Nat /\ cuts'[r] >= cuts[r] /\ cuts'[r] # cuts[r]
    BY WatchFacts DEF Cached!LoadRules, Cached!Track
  <2>2. ASSUME NEW r \in Browsed, NEW b \in Dirs
        PROVE  \A x \in Nat : \A y : FreshOK(r, x, b, y) => FreshOK(r, x, b, y)'
    <3>1. CASE cuts[r] \in Nat
      BY <2>1, <3>1, FreshStays
    <3>2. CASE cuts[r] \notin Nat
      BY <3>2 DEF FreshOK
    <3>3. QED
      BY <3>1, <3>2
  <2>3. QED
    BY <1>u, <1>o, <2>1, <2>2, RowsCarry
<1>20. QED
  BY <1>12, <1>13, <1>15, <1>16, <1>18, <1>19 DEF CachedInv

\* A step of the re-arrangement that only moves it on, and cuts the threads of C.
LEMMA ReloadMoves ==
  ASSUME CachedInv, reload.at \in {"started", "swapped", "cut"},
         NEW x \in {"swapped", "cut", "removed"}, reload' = [reload EXCEPT !.at = x],
         UNCHANGED <<disk, changes, config, edits, inForce, watches, cuts, kept, poll, missedRows>>,
         missed' \subseteq missed,
         arrangement' = [dirs |-> reload.dirs, watch |-> reload.watch],
         NEW C \in SUBSET Threads, Cutting(C), Carries(C)
  PROVE  CachedInv'
<1>o. OrderOK /\ WatchesAreForEdits /\ MissOK /\ CacheOK /\ ReadOK(reader) /\ KeptOK
      /\ PollOK(poll) /\ SiteOK
  BY DEF CachedInv
<1>1. PICK m \in Reloads : m = reload
  BY <1>o, ReloadFacts
<1>2. PICK n : n = reload'
  OBVIOUS
<1>3. n \in Reloads /\ n.at = x /\ n.dirs = m.dirs /\ n.watch = m.watch /\ n # Idle
  BY <1>1, <1>2 DEF Reloads, Idle
<1>4. Sworn' = Sworn
  BY <1>1, <1>2, <1>3 DEF Sworn
<1>5. OrderOK'
  <2>1. /\ m.watch # inForce.watch /\ watches[m.watch].mode = "held"
        /\ \A r \in Browsed : watches[m.watch].of[r] \in {m.dirs[r], NoDir}
    BY <1>1, <1>o, ReloadFacts
  <2>2. n \in Reloads'
    BY <1>3 DEF Reloads
  <2>3. QED
    BY <1>1, <1>2, <1>3, <1>o, <2>1, <2>2 DEF OrderOK
<1>6. WatchesAreForEdits'
  <2>1. reload # Idle
    BY DEF Idle
  <2>2. QED
    BY <1>1, <1>2, <1>3, <1>o, <2>1 DEF WatchesAreForEdits
<1>7. SiteOK' /\ MissOK'
  BY <1>o DEF SiteOK, MissOK
<1>8. CacheOK' /\ ReadOK(reader)'
  BY <1>o, CutCache, CutReader
<1>9. KeptOK' /\ PollOK(poll)'
  <2>1. \A r \in Browsed : cuts[r] \in Nat => cuts'[r] \in Nat /\ cuts'[r] >= cuts[r]
    OBVIOUS
  <2>2. ASSUME NEW r \in Browsed, NEW b \in Dirs
        PROVE  \A e \in Nat : \A y : FreshOK(r, e, b, y) => FreshOK(r, e, b, y)'
    BY <1>4, <2>1, FreshStays DEF Owed
  <2>3. QED
    BY <1>o, <2>1, <2>2, RowsCarry
<1>10. QED
  BY <1>5, <1>6, <1>7, <1>8, <1>9 DEF CachedInv

LEMMA SwapKeeps ==
  ASSUME CachedInv, Cached!Swap
  PROVE  CachedInv'
<1>1. /\ reload.at = "started" /\ reload' = [reload EXCEPT !.at = "swapped"]
      /\ arrangement' = [dirs |-> reload.dirs, watch |-> reload.watch]
      /\ UNCHANGED <<disk, changes, config, edits, inForce, watches, cuts, cache, reader, kept,
                     poll, missed, missedRows>>
  BY DEF Cached!Swap, Cached!site, Cached!findings, Cached!untold
<1>2. reload'.at = "swapped"
  <2>1. PICK m \in Reloads : m = reload
    BY <1>1, ReloadFacts DEF CachedInv
  <2>2. QED
    BY <1>1, <2>1 DEF Reloads
<1>3. \A r, face : UnderWay(r, face)'
  BY <1>2 DEF UnderWay
<1>4. \A r, face, d, v : Current(r, face, d, v)'
  BY <1>3 DEF Current
<1>5. Carries({}) /\ Cutting({})
  BY <1>1, <1>2, <1>3, <1>4 DEF Carries, Cutting
<1>6. QED
  BY <1>1, <1>5, ReloadMoves

\* Everything that the old arrangement answered hangs from the thread of the roots.
LEMMA CutRootsKeeps ==
  ASSUME CachedInv, Cached!CutRoots
  PROVE  CachedInv'
<1>1. /\ reload.at = "swapped" /\ reload' = [reload EXCEPT !.at = "cut"]
      /\ Cached!Cut({Cached!ROOTS_THREAD})
      /\ UNCHANGED <<disk, changes, config, edits, arrangement, inForce, watches, cuts, kept,
                     poll, missedRows>>
  BY DEF Cached!CutRoots, Cached!site, Cached!findings
<1>m. missed' \subseteq missed
  BY <1>1, CutMissed
<1>2. PICK C : C = {Cached!ROOTS_THREAD}
  OBVIOUS
<1>3. C \in SUBSET Threads /\ Cutting(C) /\ Carries(C)
  BY <1>1, <1>2 DEF Threads, Carries, Cutting, Gone
<1>4. arrangement' = [dirs |-> reload.dirs, watch |-> reload.watch]
  BY <1>1 DEF CachedInv, OrderOK
<1>5. QED
  BY <1>1, <1>m, <1>3, <1>4, ReloadMoves

LEMMA CutRemovedKeeps ==
  ASSUME CachedInv, Cached!CutRemoved
  PROVE  CachedInv'
<1>1. /\ reload.at = "cut" /\ reload' = [reload EXCEPT !.at = "removed"]
      /\ Cached!Cut(UNION {{Cached!Narrow(r), Cached!Wide(r)} : r \in Cached!Removed})
      /\ UNCHANGED <<disk, changes, config, edits, arrangement, inForce, watches, cuts, kept,
                     poll, missedRows>>
  BY DEF Cached!CutRemoved, Cached!site, Cached!findings
<1>2. PICK C : C = UNION {{Cached!Narrow(r), Cached!Wide(r)} : r \in Cached!Removed}
  OBVIOUS
<1>3. C \in SUBSET Threads /\ Cutting(C)
  BY <1>1, <1>2 DEF Threads, Cutting, Cached!Removed
<1>m. /\ missed' \subseteq missed
      /\ \A r \in Browsed, face \in Cached!Faces :
            ~Gone(C, r, face) /\ <<r, face>> \in missed => <<r, face>> \in missed'
  BY <1>1, <1>2, CutMissed
<1>4. arrangement' = [dirs |-> reload.dirs, watch |-> reload.watch] /\ arrangement' = arrangement
  BY <1>1 DEF CachedInv, OrderOK
<1>5. Carries(C)
  <2>1. reload'.at = "removed"
    <3>1. PICK m \in Reloads : m = reload
      BY <1>1, ReloadFacts DEF CachedInv
    <3>2. QED
      BY <1>1, <3>1 DEF Reloads
  <2>2. Arr' = Arr
    BY <1>1 DEF Arr
  <2>3. ASSUME NEW r, NEW face PROVE UnderWay(r, face) <=> UnderWay(r, face)'
    BY <1>1, <2>1, <2>2, LaterArr DEF UnderWay
  <2>4. ASSUME NEW r, NEW face, NEW d PROVE Heard(r, face, d) <=> Heard(r, face, d)'
    BY <1>1, <2>2 DEF Heard
  <2>5. ASSUME NEW face, NEW d PROVE Cached!Answer(d, face)' = Cached!Answer(d, face)
    BY <1>1 DEF Cached!Answer
  <2>6. ASSUME NEW r \in Browsed, NEW face \in Cached!Faces, ~Gone(C, r, face),
               NEW d, NEW v, Current(r, face, d, v)
        PROVE  Current(r, face, d, v)'
    BY <1>m, <2>3, <2>4, <2>5, <2>6 DEF Current
  <2>7. QED
    BY <1>1, <1>4, <2>3, <2>4, <2>6 DEF Carries
<1>6. QED
  BY <1>1, <1>m, <1>3, <1>4, <1>5, ReloadMoves

\* The new watch is driven from where it stands and the old one is let go.
LEMMA RetireKeeps ==
  ASSUME CachedInv, NEW few, Cached!Retire(few)
  PROVE  CachedInv'
<1>o. OrderOK /\ WatchesAreForEdits /\ MissOK /\ CacheOK /\ ReadOK(reader) /\ KeptOK
      /\ PollOK(poll) /\ SiteOK
  BY DEF CachedInv
<1>u. UNCHANGED <<disk, changes, config, edits, arrangement, cuts, cache, reader, kept, poll,
                  missed, missedRows>>
  BY DEF Cached!Retire, Cached!site, Cached!findings, Cached!untold
<1>1. /\ reload.at = "removed" /\ reload' = Idle
      /\ inForce' = [dirs |-> reload.dirs, watch |-> reload.watch]
      /\ few \in 0 .. Len(watches[inForce.watch].events)
      /\ watches' = [watches EXCEPT
            ![reload.watch].mode = "driven",
            ![inForce.watch] = Cached!AfterRemoving([@ EXCEPT !.mode = "dropped"],
                                                    SubSeq(@.events, 1, few))]
  BY WatchFacts DEF Cached!Retire
<1>2. PICK m \in Reloads : m = reload
  BY <1>1, <1>o, ReloadFacts
<1>3. /\ m.watch # inForce.watch /\ m.watch \in DOMAIN watches /\ watches[m.watch].mode = "held"
      /\ \A r \in Browsed : watches[m.watch].of[r] \in {m.dirs[r], NoDir}
      /\ inForce.watch \in DOMAIN watches
  BY <1>1, <1>2, <1>o, ReloadFacts, OrderFacts
<1>4. PICK a \in WatchSet : a = watches[m.watch]
  BY <1>3, <1>o, OrderFacts
<1>5. PICK o \in WatchSet : o = watches[inForce.watch]
  BY <1>3, <1>o, OrderFacts
<1>6. PICK b : b = [a EXCEPT !.mode = "driven"]
  OBVIOUS
<1>7. b \in WatchSet /\ b.mode = "driven" /\ b.of = a.of /\ b.hides = a.hides /\ b.events = a.events
  BY <1>6 DEF WatchSet
<1>8. PICK p : p = Cached!AfterRemoving([o EXCEPT !.mode = "dropped"], SubSeq(o.events, 1, few))
  OBVIOUS
<1>9. p \in WatchSet
  <2>1. Cached!Ended \in WatchSet
    BY EndedFacts
  <2>2. PICK s \in Seq(Events) : s = SubSeq(o.events, 1, few)
    <3>1. o.events \in Seq(Events) /\ few \in 0 .. Len(o.events)
      BY <1>1, <1>5 DEF WatchSet
    <3>2. few \in Int /\ \A i \in 1 .. few : o.events[i] \in Events
      BY <3>1, ElementOfSeq, LenProperties
    <3>3. SubSeq(o.events, 1, few) \in Seq(Events)
      BY <3>2, SubSeqProperties
    <3>4. QED
      BY <3>3
  <2>3. PICK q : q = [o EXCEPT !.mode = "dropped"]
    OBVIOUS
  <2>4. q \in WatchSet
    BY <2>3 DEF WatchSet
  <2>5. p = Cached!Ended \/ p = [q EXCEPT !.events = s]
    BY <1>8, <2>2, <2>3 DEF Cached!AfterRemoving
  <2>6. [q EXCEPT !.events = s] \in WatchSet
    BY <2>2, <2>4 DEF WatchSet
  <2>7. QED
    BY <2>1, <2>5, <2>6
<1>10. PICK ws : ws = [watches EXCEPT ![m.watch] = b]
  OBVIOUS
<1>11. watches' = [ws EXCEPT ![inForce.watch] = p]
  <2>1. ws = [watches EXCEPT ![m.watch].mode = "driven"]
    BY <1>4, <1>6, <1>10
  <2>2. ws[inForce.watch] = o
    BY <1>3, <1>5, <1>10
  <2>3. watches' = [[watches EXCEPT ![m.watch].mode = "driven"] EXCEPT ![inForce.watch] = p]
    BY <1>1, <1>2, <1>3, <1>5, <1>8
  <2>4. QED
    BY <2>1, <2>3
<1>12. /\ watches' \in Seq(WatchSet) /\ Len(watches') = Len(watches)
       /\ DOMAIN watches' = DOMAIN watches
       /\ watches'[m.watch] = b
  <2>1. watches \in Seq(WatchSet) /\ m.watch \in 1 .. Len(watches) /\ inForce.watch \in 1 .. Len(watches)
    BY <1>3, <1>o, OrderFacts DEF OrderOK
  <2>2. ws \in Seq(WatchSet) /\ Len(ws) = Len(watches)
        /\ \A k \in 1 .. Len(watches) : ws[k] = IF k = m.watch THEN b ELSE watches[k]
    BY <1>7, <1>10, <2>1, ExceptSeq
  <2>3. watches' \in Seq(WatchSet) /\ Len(watches') = Len(ws)
        /\ \A k \in 1 .. Len(ws) : watches'[k] = IF k = inForce.watch THEN p ELSE ws[k]
    BY <1>9, <1>11, <2>1, <2>2, ExceptSeq
  <2>4. QED
    BY <1>3, <2>1, <2>2, <2>3
<1>13. /\ arrangement = inForce' /\ arrangement.watch = m.watch /\ arrangement.dirs = m.dirs
       /\ inForce'.watch = m.watch /\ inForce'.dirs = m.dirs /\ reload'.at = "idle"
       /\ Sworn' = {m.watch} /\ m.watch \in Sworn
  BY <1>1, <1>2, <1>o DEF OrderOK, Sworn, Idle
<1>14. OrderOK'
  <2>1. inForce' \in [dirs : [Browsed -> Places], watch : DOMAIN watches']
    BY <1>1, <1>2, <1>12 DEF Reloads
  <2>2. QED
    BY <1>1, <1>3, <1>4, <1>7, <1>12, <1>13, <1>u, <2>1 DEF OrderOK
<1>15. WatchesAreForEdits'
  <2>1. reload # Idle
    BY <1>1 DEF Idle
  <2>2. QED
    BY <1>1, <1>2, <1>12, <1>13, <1>o, <1>u, <2>1 DEF WatchesAreForEdits
<1>16. SiteOK'
  BY <1>o, <1>u DEF SiteOK
<1>17. \A r, face : DueIn(b, r, face) <=> DueIn(a, r, face)
  BY <1>7 DEF DueIn, Cuts
<1>18. MissOK'
  BY <1>o, <1>u DEF MissOK
<1>19. Carries({})
  <2>1. Arr' = b /\ Arr = a
    BY <1>4, <1>12, <1>13, <1>u DEF Arr
  <2>3. ASSUME NEW r, NEW face PROVE UnderWay(r, face) <=> UnderWay(r, face)'
    BY <1>1, <1>13, <1>17, <2>1, LaterArr DEF UnderWay
  <2>4. ASSUME NEW r, NEW face, NEW d PROVE Heard(r, face, d) <=> Heard(r, face, d)'
    BY <1>7, <1>u, <2>1 DEF Heard
  <2>5. ASSUME NEW face, NEW d PROVE Cached!Answer(d, face)' = Cached!Answer(d, face)
    BY <1>u DEF Cached!Answer
  <2>6. ASSUME NEW r, NEW face, NEW d, NEW v, Current(r, face, d, v) PROVE Current(r, face, d, v)'
    BY <1>u, <2>3, <2>4, <2>5, <2>6 DEF Current
  <2>7. QED
    BY <1>1, <1>u, <2>3, <2>4, <2>6 DEF Carries
<1>20. CacheOK' /\ ReadOK(reader)'
  BY <1>u, <1>19, <1>o, CutCache, CutReader DEF Cutting
<1>21. KeptOK' /\ PollOK(poll)'
  <2>1. \A r \in Browsed : cuts[r] \in Nat => cuts'[r] \in Nat /\ cuts'[r] >= cuts[r]
    BY <1>u
  <2>2. ASSUME NEW r \in Browsed, NEW d \in Dirs
        PROVE  \A e \in Nat : \A y : FreshOK(r, e, d, y) => FreshOK(r, e, d, y)'
    BY <1>4, <1>7, <1>12, <1>13, <1>17, <1>u, <2>1, FreshStays DEF Owed
  <2>3. QED
    BY <1>u, <1>o, <2>1, <2>2, RowsCarry
<1>22. QED
  BY <1>14, <1>15, <1>16, <1>18, <1>20, <1>21 DEF CachedInv

LEMMA PartsStay ==
  ASSUME CachedInv, UNCHANGED <<disk, watches, arrangement, inForce, reload, cuts, missed,
                               missedRows>>
  PROVE  /\ OrderOK' /\ MissOK'
         /\ UNCHANGED <<changes, config, edits>> => SiteOK' /\ WatchesAreForEdits'
         /\ UNCHANGED cache => CacheOK'
         /\ UNCHANGED reader => ReadOK(reader)'
         /\ UNCHANGED kept => KeptOK'
         /\ UNCHANGED poll => PollOK(poll)'
<1>1. /\ OrderOK' /\ MissOK'
      /\ UNCHANGED <<changes, config, edits>> => SiteOK' /\ WatchesAreForEdits'
  BY DEF CachedInv, SiteOK, OrderOK, Reloads, WatchesAreForEdits, MissOK, Sworn
<1>2. UNCHANGED cache => CacheOK'
  BY DEF CachedInv, CacheOK, EntryOK2, Current, UnderWay, Heard, Arr, Cached!Answer
<1>3. UNCHANGED reader => ReadOK(reader)'
  BY DEF CachedInv, ReadOK, Current, UnderWay, Heard, Arr, Doomed, Cached!Answer
<1>4. UNCHANGED kept => KeptOK'
  BY DEF CachedInv, KeptOK, RowsOK, FreshOK, Owed, Sworn
<1>5. UNCHANGED poll => PollOK(poll)'
  BY DEF CachedInv, PollOK, FreshOK, Owed, Sworn
<1>6. QED
  BY <1>1, <1>2, <1>3, <1>4, <1>5

LEMMA EditConfigKeeps ==
  ASSUME CachedInv, NEW dirs \in [Browsed -> Places], Cached!Edit(dirs)
  PROVE  CachedInv'
<1>1. /\ edits < MaxEdits /\ edits' = edits + 1 /\ config' = dirs
      /\ UNCHANGED <<disk, changes, watches, arrangement, inForce, reload, cuts, cache, reader, kept,
                     poll, missed, missedRows>>
  BY DEF Cached!Edit, Cached!findings, Cached!untold
<1>2. SiteOK'
  BY <1>1, WatchFacts DEF CachedInv, SiteOK
<1>3. WatchesAreForEdits'
  <2>1. Len(watches) \in Nat /\ edits \in Nat
    BY OrderFacts DEF CachedInv, SiteOK
  <2>2. QED
    BY <1>1, <2>1 DEF CachedInv, WatchesAreForEdits
<1>4. OrderOK' /\ MissOK' /\ CacheOK' /\ ReadOK(reader)' /\ KeptOK' /\ PollOK(poll)'
  BY <1>1, PartsStay
<1>5. QED
  BY <1>2, <1>3, <1>4 DEF CachedInv


\* The read under way is one of its phases.
LEMMA ReadInHand ==
  ASSUME ReadOK(reader), NEW q, q = reader
  PROVE  /\ q.at = "begun" => q \in Begun
         /\ q.at = "resolved" => q \in Resolved /\ (\/ Cached!ROOTS_THREAD \in q.cuts
                                                    \/ reload.at = "swapped"
                                                    \/ arrangement.dirs[q.root] = q.dir)
         /\ q.at = "threaded" => q \in Threaded /\ (\/ q.threads = {}
               \/ /\ q.threads = {Cached!ThreadOf(q.root, q.face)}
                  /\ Doomed(q) \/ UnderWay(q.root, q.face) \/ Heard(q.root, q.face, q.dir))
         /\ q.at = "computed" => q \in Computed /\ (\/ q.threads = {}
               \/ /\ q.threads = {Cached!ThreadOf(q.root, q.face)}
                  /\ Doomed(q) \/ Current(q.root, q.face, q.dir, q.value))
  BY DEF ReadOK, Idle, Begun, Resolved, Threaded, Computed

\* A step of the read that changes nothing else.
LEMMA ReaderMoves ==
  ASSUME CachedInv,
         UNCHANGED <<disk, changes, config, edits, watches, arrangement, inForce, reload, cuts,
                     cache, kept, poll, missed, missedRows>>,
         NEW n, n = reader', ReadOK(n)
  PROVE  CachedInv'
<1>1. ReadOK(reader)'
  BY DEF ReadOK, Current, UnderWay, Heard, Arr, Doomed, Cached!Answer
<1>2. QED
  BY <1>1, PartsStay DEF CachedInv

LEMMA BeginKeeps ==
  ASSUME CachedInv, NEW r \in Browsed, NEW face \in Cached!Faces, Cached!Begin(r, face)
  PROVE  CachedInv'
<1>1. PICK n : n = reader'
  OBVIOUS
<1>2. n \in Begun
  BY <1>1 DEF Cached!Begin, Begun
<1>3. UNCHANGED <<disk, changes, config, edits, watches, arrangement, inForce, reload, cuts, cache,
                  kept, poll, missed, missedRows>>
  BY DEF Cached!Begin, Cached!site, Cached!findings, Cached!untold
<1>4. QED
  BY <1>1, <1>2, <1>3, ReaderMoves DEF ReadOK

LEMMA ResolveKeeps ==
  ASSUME CachedInv, Cached!Resolve
  PROVE  CachedInv'
<1>1. PICK n : n = reader'
  OBVIOUS
<1>2. PICK q : q = reader
  OBVIOUS
<1>3. q \in Begun
  BY <1>2, ReadInHand DEF CachedInv, Cached!Resolve
<1>4. n = Idle \/ (n \in Resolved /\ arrangement.dirs[n.root] = n.dir)
  <2>1. q.root \in Browsed /\ q.face \in Cached!Faces /\ q.cuts \in SUBSET Threads
    BY <1>3 DEF Begun
  <2>2. arrangement.dirs[q.root] \in Places
    BY <2>1, OrderFacts DEF CachedInv
  <2>3. PICK d : d = arrangement.dirs[q.root]
    OBVIOUS
  <2>4. n = IF d = NoDir THEN Idle
            ELSE [at |-> "resolved", root |-> q.root, face |-> q.face, cuts |-> q.cuts, dir |-> d]
    BY <1>1, <1>2, <2>3, WatchFacts DEF Cached!Resolve
  <2>5. QED
    BY <2>1, <2>2, <2>3, <2>4 DEF Resolved, Places
<1>5. UNCHANGED <<disk, changes, config, edits, watches, arrangement, inForce, reload, cuts, cache,
                  kept, poll, missed, missedRows>>
  BY DEF Cached!Resolve, Cached!site, Cached!findings, Cached!untold
<1>6. QED
  BY <1>1, <1>4, <1>5, ReaderMoves DEF ReadOK

\* The second look at the arrangement gives a thread only to what its watch hears.
LEMMA ThreadKeeps ==
  ASSUME CachedInv, Cached!Thread
  PROVE  CachedInv'
<1>1. PICK n : n = reader'
  OBVIOUS
<1>2. PICK q : q = reader
  OBVIOUS
<1>3. q \in Resolved /\ (\/ Cached!ROOTS_THREAD \in q.cuts \/ reload.at = "swapped"
                         \/ arrangement.dirs[q.root] = q.dir)
  BY <1>2, ReadInHand DEF CachedInv, Cached!Thread
<1>4. PICK ts : ts = Cached!ThreadFor(q.root, q.face)
  OBVIOUS
<1>5. /\ q.root \in Browsed /\ q.face \in Cached!Faces /\ q.cuts \in SUBSET Threads
      /\ q.dir \in Dirs
  BY <1>3 DEF Resolved
<1>6. \/ ts = {}
      \/ /\ ts = {Cached!ThreadOf(q.root, q.face)} /\ Arr.of[q.root] # NoDir
         /\ q.face = "file" => ~Arr.hides[q.root]
  BY <1>4, <1>5 DEF Cached!ThreadFor, Cached!Watched, Cached!ThreadOf, Arr
<1>7. n = [at |-> "threaded", root |-> q.root, face |-> q.face, cuts |-> q.cuts, dir |-> q.dir,
           threads |-> ts]
  BY <1>1, <1>2, <1>4 DEF Cached!Thread
<1>8. n \in Threaded
  BY <1>5, <1>6, <1>7 DEF Threaded, Threads, Cached!ThreadOf
<1>9. Arr.of[q.root] \in {arrangement.dirs[q.root], NoDir}
  BY <1>5, OrderFacts DEF CachedInv
<1>10. ts = {} \/ Doomed(n) \/ UnderWay(n.root, n.face) \/ Heard(n.root, n.face, n.dir)
  BY <1>3, <1>6, <1>7, <1>9 DEF Doomed, UnderWay, Heard
<1>11. n.threads = {} \/ n.threads = {Cached!ThreadOf(n.root, n.face)}
  BY <1>6, <1>7
<1>12. ReadOK(n)
  BY <1>7, <1>8, <1>10, <1>11 DEF ReadOK
<1>13. UNCHANGED <<disk, changes, config, edits, watches, arrangement, inForce, reload, cuts, cache,
                   kept, poll, missed, missedRows>>
  BY DEF Cached!Thread, Cached!site, Cached!findings, Cached!untold
<1>14. QED
  BY <1>1, <1>12, <1>13, ReaderMoves

LEMMA ComputeKeeps ==
  ASSUME CachedInv, Cached!Compute
  PROVE  CachedInv'
<1>1. PICK n : n = reader'
  OBVIOUS
<1>2. PICK q : q = reader
  OBVIOUS
<1>3. q \in Threaded /\ (\/ q.threads = {}
               \/ /\ q.threads = {Cached!ThreadOf(q.root, q.face)}
                  /\ Doomed(q) \/ UnderWay(q.root, q.face) \/ Heard(q.root, q.face, q.dir))
  BY <1>2, ReadInHand DEF CachedInv, Cached!Compute
<1>4. PICK v : v = Cached!Answer(q.dir, q.face)
  OBVIOUS
<1>5. /\ q.root \in Browsed /\ q.face \in Cached!Faces /\ q.cuts \in SUBSET Threads
      /\ q.dir \in Dirs /\ q.threads \in SUBSET Threads
  BY <1>3 DEF Threaded
<1>6. v \in Values
  <2>1. disk[q.dir].text \in Nat /\ disk[q.dir].hidden \in BOOLEAN
    BY <1>5 DEF CachedInv, SiteOK
  <2>2. QED
    BY <1>4, <2>1 DEF Cached!Answer, Values
<1>7. n = [at |-> "computed", root |-> q.root, face |-> q.face, cuts |-> q.cuts, dir |-> q.dir,
           threads |-> q.threads, value |-> v]
  BY <1>1, <1>2, <1>4 DEF Cached!Compute
<1>8. n \in Computed
  BY <1>5, <1>6, <1>7 DEF Computed
<1>9. /\ n.threads = q.threads /\ n.root = q.root /\ n.face = q.face /\ n.dir = q.dir
      /\ n.value = v /\ n.cuts = q.cuts
  BY <1>7
<1>10. \/ n.threads = {}
       \/ /\ n.threads = {Cached!ThreadOf(n.root, n.face)}
          /\ Doomed(n) \/ Current(n.root, n.face, n.dir, n.value)
  BY <1>3, <1>4, <1>9 DEF Doomed, Current
<1>11. ReadOK(n)
  BY <1>8, <1>10 DEF ReadOK
<1>12. UNCHANGED <<disk, changes, config, edits, watches, arrangement, inForce, reload, cuts, cache,
                   kept, poll, missed, missedRows>>
  BY DEF Cached!Compute, Cached!site, Cached!findings, Cached!untold
<1>13. QED
  BY <1>1, <1>11, <1>12, ReaderMoves

\* Only a read none of whose threads was cut is kept, under all of them.
LEMMA FillKeeps ==
  ASSUME CachedInv, Cached!Fill
  PROVE  CachedInv'
<1>1. PICK q : q = reader
  OBVIOUS
<1>2. q \in Computed /\ (\/ q.threads = {}
               \/ /\ q.threads = {Cached!ThreadOf(q.root, q.face)}
                  /\ Doomed(q) \/ Current(q.root, q.face, q.dir, q.value))
  BY <1>1, ReadInHand DEF CachedInv, Cached!Fill
<1>3. /\ q.root \in Browsed /\ q.face \in Cached!Faces /\ q.dir \in Dirs /\ q.value \in Values
      /\ q.threads \in SUBSET Threads
  BY <1>2 DEF Computed
<1>4. PICK e : e = [answer |-> "kept", dir |-> q.dir, value |-> q.value,
                    threads |-> q.threads \cup {Cached!ROOTS_THREAD}]
  OBVIOUS
<1>5. e \in Entries /\ e.dir = q.dir /\ e.value = q.value
      /\ e.threads = q.threads \cup {Cached!ROOTS_THREAD}
  BY <1>3, <1>4 DEF Entries, Threads
<1>6. reader' = Idle /\ cache' = IF q.threads = {} \/ Doomed(q) THEN cache
                                 ELSE [cache EXCEPT ![q.root][q.face] = e]
  BY <1>1, <1>4, WatchFacts DEF Cached!Fill, Cached!Hang, Doomed
<1>7. UNCHANGED <<disk, changes, config, edits, watches, arrangement, inForce, reload, cuts, kept,
                  poll, missed, missedRows>>
  BY DEF Cached!Fill, Cached!site, Cached!findings, Cached!untold
<1>8. CacheOK'
  <2>1. CASE q.threads = {} \/ Doomed(q)
    BY <1>6, <1>7, <2>1, PartsStay
  <2>2. CASE ~(q.threads = {} \/ Doomed(q))
    <3>1. cache' = [cache EXCEPT ![q.root][q.face] = e]
      BY <1>6, <2>2
    <3>2. cache \in [Browsed -> [Cached!Faces -> {Cached!NoEntry} \cup Entries]]
          /\ \A r \in Browsed, face \in Cached!Faces : EntryOK2(r, face, cache[r][face])
      BY DEF CachedInv, CacheOK
    <3>3. cache' \in [Browsed -> [Cached!Faces -> {Cached!NoEntry} \cup Entries]]
      BY <1>3, <1>5, <3>1, <3>2
    <3>4. \A r \in Browsed, face \in Cached!Faces :
             cache'[r][face] = IF r = q.root /\ face = q.face THEN e ELSE cache[r][face]
      BY <1>3, <3>1, <3>2
    <3>5. EntryOK2(q.root, q.face, e)
      BY <1>2, <1>5, <2>2 DEF EntryOK2
    <3>6. ASSUME NEW r \in Browsed, NEW face \in Cached!Faces
          PROVE  EntryOK2(r, face, cache[r][face])'
      <4>1. PICK x : x = cache'[r][face]
        OBVIOUS
      <4>2. EntryOK2(r, face, x)
        BY <3>2, <3>4, <3>5, <4>1
      <4>3. QED
        BY <1>7, <4>1, <4>2 DEF EntryOK2, Current, UnderWay, Heard, Arr, Cached!ThreadOf, Cached!Answer,
           Cached!NoEntry, Cached!ROOTS_THREAD, Cached!Narrow, Cached!Wide
    <3>7. QED
      BY <3>3, <3>6 DEF CacheOK, Entries, Threads, Values, Cached!NoEntry, Cached!Faces,
         Cached!ROOTS_THREAD, Cached!Narrow, Cached!Wide
  <2>3. QED
    BY <2>1, <2>2
<1>9. ReadOK(reader)'
  BY <1>6 DEF ReadOK, Idle
<1>10. QED
  BY <1>7, <1>8, <1>9, PartsStay DEF CachedInv

\* The findings read: its epoch is taken before its rows.
LEMMA PollInHand ==
  ASSUME PollOK(poll), NEW p, p = poll
  PROVE  /\ p.at = "stamped" => p \in Stamped /\ cuts[p.root] \in Nat /\ p.epoch <= cuts[p.root]
         /\ p.at = "read" => p \in Polled /\ FreshOK(p.root, p.epoch, p.dir, p.text)
  BY DEF PollOK, Idle, Stamped, Polled

LEMMA PollMoves ==
  ASSUME CachedInv,
         UNCHANGED <<disk, changes, config, edits, watches, arrangement, inForce, reload, cuts,
                     cache, reader, kept, missed, missedRows>>,
         NEW n, n = poll', PollOK(n)
  PROVE  CachedInv'
<1>1. PollOK(poll)'
  BY DEF PollOK, FreshOK, Owed, Sworn
<1>2. QED
  BY <1>1, PartsStay DEF CachedInv

LEMMA CachedStampKeeps ==
  ASSUME CachedInv, Counting, NEW r \in Browsed, Cached!Stamp(r)
  PROVE  CachedInv'
<1>1. PICK n : n = poll'
  OBVIOUS
<1>2. n = [at |-> "stamped", root |-> r, epoch |-> cuts[r]] /\ cuts[r] \in Nat
  BY <1>1 DEF Cached!Stamp, Counting, Stamps
<1>3. PollOK(n)
  BY <1>2 DEF PollOK, Stamped
<1>4. UNCHANGED <<disk, changes, config, edits, watches, arrangement, inForce, reload, cuts, cache,
                  reader, kept, missed, missedRows>>
  BY DEF Cached!Stamp, Cached!site, Cached!untold
<1>5. QED
  BY <1>1, <1>3, <1>4, PollMoves

LEMMA ReadFindingsKeeps ==
  ASSUME CachedInv, Cached!ReadFindings
  PROVE  CachedInv'
<1>1. PICK n : n = poll'
  OBVIOUS
<1>2. PICK p : p = poll
  OBVIOUS
<1>3. p \in Stamped /\ cuts[p.root] \in Nat /\ p.epoch <= cuts[p.root]
  BY <1>2, PollInHand DEF CachedInv, Cached!ReadFindings
<1>4. p.root \in Browsed /\ p.epoch \in Nat
  BY <1>3 DEF Stamped
<1>5. PICK d : d = arrangement.dirs[p.root]
  OBVIOUS
<1>6. d \in Places
  BY <1>4, <1>5, OrderFacts DEF CachedInv
<1>7. n = IF d = NoDir THEN Idle
          ELSE [at |-> "read", root |-> p.root, epoch |-> p.epoch, dir |-> d, text |-> disk[d].text]
  BY <1>1, <1>2, <1>5, WatchFacts DEF Cached!ReadFindings
<1>8. d # NoDir => n \in Polled /\ FreshOK(n.root, n.epoch, n.dir, n.text)
  BY <1>3, <1>4, <1>6, <1>7 DEF Polled, FreshOK, Places, CachedInv, SiteOK
<1>9. PollOK(n)
  BY <1>7, <1>8 DEF PollOK
<1>10. UNCHANGED <<disk, changes, config, edits, watches, arrangement, inForce, reload, cuts, cache,
                   reader, kept, missed, missedRows>>
  BY DEF Cached!ReadFindings, Cached!site, Cached!untold
<1>11. QED
  BY <1>1, <1>9, <1>10, PollMoves

LEMMA KeepRowsKeeps ==
  ASSUME CachedInv, Cached!Keep
  PROVE  CachedInv'
<1>1. PICK p : p = poll
  OBVIOUS
<1>2. p \in Polled /\ FreshOK(p.root, p.epoch, p.dir, p.text)
  BY <1>1, PollInHand DEF CachedInv, Cached!Keep
<1>3. p.root \in Browsed /\ p.epoch \in Nat /\ p.dir \in Dirs /\ p.text \in Nat
  BY <1>2 DEF Polled
<1>4. PICK m : m = [epoch |-> p.epoch, dir |-> p.dir, text |-> p.text]
  OBVIOUS
<1>5. m \in KeptRows /\ m.epoch = p.epoch /\ m.dir = p.dir /\ m.text = p.text
  BY <1>3, <1>4 DEF KeptRows
<1>6. kept' = [kept EXCEPT ![p.root] = m] /\ poll' = Idle
  BY <1>1, <1>4, WatchFacts DEF Cached!Keep
<1>7. UNCHANGED <<disk, changes, config, edits, watches, arrangement, inForce, reload, cuts, cache,
                  reader, missed, missedRows>>
  BY DEF Cached!Keep, Cached!site, Cached!untold
<1>8. KeptOK'
  <2>1. /\ kept \in [Browsed -> {Cached!NoEntry} \cup KeptRows]
        /\ \A r \in Browsed : RowsOK(r, kept[r])
    BY DEF CachedInv, KeptOK
  <2>2. kept' \in [Browsed -> {Cached!NoEntry} \cup KeptRows]
    BY <1>3, <1>5, <1>6, <2>1
  <2>3. ASSUME NEW r \in Browsed PROVE RowsOK(r, kept[r])'
    <3>1. PICK x : x = kept'[r]
      OBVIOUS
    <3>2. RowsOK(r, x)
      <4>1. CASE r = p.root
        BY <1>2, <1>3, <1>5, <1>6, <2>1, <3>1, <4>1 DEF RowsOK
      <4>2. CASE r # p.root
        BY <1>6, <2>1, <3>1, <4>2
      <4>3. QED
        BY <4>1, <4>2
    <3>3. QED
      BY <1>7, <3>1, <3>2 DEF RowsOK, FreshOK, Owed, Sworn, Cached!NoEntry
  <2>4. QED
    BY <2>2, <2>3 DEF KeptOK, KeptRows, Cached!NoEntry
<1>9. PollOK(poll)'
  BY <1>6 DEF PollOK, Idle
<1>10. QED
  BY <1>7, <1>8, <1>9, PartsStay DEF CachedInv

LEMMA CachedInit ==
  ASSUME Cached!Init
  PROVE  CachedInv
<1>1. PICK accepted \in SUBSET {r \in Browsed : config[r] # NoDir} :
        /\ watches = <<[Cached!Load(Cached!Watching(config, accepted)) EXCEPT !.mode = "driven"]>>
        /\ cuts = [r \in Browsed |-> IF r \in accepted THEN 0 ELSE NoCounter]
  BY DEF Cached!Init
<1>2. /\ disk = [d \in Dirs |-> [text |-> 0, hidden |-> FALSE]] /\ changes = 0
      /\ config \in [Browsed -> Places] /\ edits = 0
      /\ arrangement = [dirs |-> config, watch |-> 1] /\ inForce = [dirs |-> config, watch |-> 1]
      /\ reload = Idle /\ reader = Idle /\ poll = Idle
      /\ cache = [r \in Browsed |-> [f \in Cached!Faces |-> Cached!NoEntry]]
      /\ kept = [r \in Browsed |-> Cached!NoEntry] /\ missed = {} /\ missedRows = {}
  BY WatchFacts DEF Cached!Init, Places
<1>3. PICK n : n = Cached!NoWatch
  OBVIOUS
<1>4. <<>> \in Seq(Events)
  BY EmptySeq
<1>5. n \in [of : [Browsed -> Places], hides : [Browsed -> BOOLEAN], events : Seq(Events),
             mode : {"none"}]
  BY <1>3, <1>4 DEF Cached!NoWatch, Places
<1>6. PICK o : o = [r \in Browsed |-> IF r \in accepted THEN config[r] ELSE NoDir]
  OBVIOUS
<1>7. o \in [Browsed -> Places] /\ \A r \in Browsed : o[r] \in {config[r], NoDir}
  BY <1>2, <1>6 DEF Places
<1>8. PICK w : w = Cached!Watching(config, accepted)
  OBVIOUS
<1>9. w \in WatchSet /\ w.of = o
  BY <1>3, <1>5, <1>6, <1>7, <1>8 DEF Cached!Watching, WatchSet
<1>10. PICK h : h = [r \in Browsed |-> w.of[r] # NoDir /\ disk[w.of[r]].hidden]
  OBVIOUS
<1>11. h \in [Browsed -> BOOLEAN] /\ \A r \in Browsed : h[r] = FALSE
  <2>1. ASSUME NEW r \in Browsed PROVE (w.of[r] # NoDir /\ disk[w.of[r]].hidden) = FALSE
    <3>1. w.of[r] \in Places
      BY <1>9 DEF WatchSet
    <3>2. w.of[r] # NoDir => disk[w.of[r]].hidden = FALSE
      BY <1>2, <3>1 DEF Places
    <3>3. QED
      BY <3>2
  <2>2. QED
    BY <1>10, <2>1
<1>12. PICK v : v = [Cached!Load(w) EXCEPT !.mode = "driven"]
  OBVIOUS
<1>13. v \in WatchSet /\ v.mode = "driven" /\ v.of = o /\ v.hides = h
  <2>1. Cached!Load(w) = [w EXCEPT !.hides = h]
    BY <1>10 DEF Cached!Load
  <2>2. PICK x : x = [w EXCEPT !.hides = h]
    OBVIOUS
  <2>3. x \in WatchSet /\ x.of = o /\ x.hides = h
    BY <1>9, <1>11, <2>2 DEF WatchSet
  <2>4. v = [x EXCEPT !.mode = "driven"]
    BY <1>12, <2>1, <2>2
  <2>5. QED
    BY <2>3, <2>4 DEF WatchSet
<1>14. watches = <<v>> /\ watches \in Seq(WatchSet) /\ Len(watches) = 1 /\ DOMAIN watches = {1}
       /\ watches[1] = v
  BY <1>1, <1>8, <1>12, <1>13
<1>15. SiteOK
  BY <1>2, WatchFacts DEF SiteOK
<1>16. reload.at = "idle" /\ inForce.watch = 1 /\ inForce.dirs = config /\ Sworn = {1}
  BY <1>2 DEF Idle, Sworn
<1>17. OrderOK
  BY <1>2, <1>7, <1>13, <1>14, <1>16 DEF OrderOK
<1>18. WatchesAreForEdits
  BY <1>2, <1>14, <1>16 DEF WatchesAreForEdits
<1>19. MissOK
  BY <1>2 DEF MissOK
<1>20. CacheOK /\ KeptOK
  BY <1>2 DEF CacheOK, EntryOK2, KeptOK, RowsOK
<1>21. ReadOK(reader) /\ PollOK(poll)
  BY <1>2 DEF ReadOK, PollOK
<1>22. QED
  BY <1>15, <1>17, <1>18, <1>19, <1>20, <1>21 DEF CachedInv

LEMMA CachedStep == CachedInv /\ Counting /\ [Cached!Next]_(Cached!vars) => CachedInv'
<1> SUFFICES ASSUME CachedInv, Counting, [Cached!Next]_(Cached!vars) PROVE CachedInv'
  OBVIOUS
<1>1. CASE UNCHANGED Cached!vars
  BY <1>1, PartsStay DEF Cached!vars, Cached!site, Cached!findings, Cached!untold, CachedInv
<1>2. CASE \E d \in Dirs, what \in {"text", "rules"} :
              \E told \in SUBSET Cached!Over(d) : Cached!Change(d, what, told)
  BY <1>2, ChangeKeeps
<1>3. CASE \E dirs \in [Browsed -> Places] : Cached!Edit(dirs)
  BY <1>3, EditConfigKeeps
<1>4. CASE \E g \in DOMAIN watches : Cached!Reread(g) \/ Cached!Apply(g)
  BY <1>4, RereadKeeps, ApplyKeeps
<1>5. CASE \E accepted \in SUBSET Browsed : Cached!StartWatch(accepted)
  BY <1>5, StartWatchKeeps
<1>6. CASE Cached!Rearrange
  BY <1>6, LoadRulesKeeps, SwapKeeps, CutRootsKeeps, CutRemovedKeeps, RetireKeeps
     DEF Cached!Rearrange
<1>7. CASE \E r \in Browsed, face \in Cached!Faces : Cached!Begin(r, face)
  BY <1>7, BeginKeeps
<1>8. CASE Cached!Read
  BY <1>8, ResolveKeeps, ThreadKeeps, ComputeKeeps, FillKeeps DEF Cached!Read
<1>9. CASE \E r \in Browsed : Cached!Stamp(r)
  BY <1>9, CachedStampKeeps
<1>10. CASE Cached!ReadFindings \/ Cached!Keep
  BY <1>10, ReadFindingsKeeps, KeepRowsKeeps
<1>11. QED
  BY <1>1, <1>2, <1>3, <1>4, <1>5, <1>6, <1>7, <1>8, <1>9, <1>10
     DEF Cached!Next, Cached!WatchNext, Places

\* What the cache and the memo hold is current, or what ends it is under way.
LEMMA CachedImplied ==
  ASSUME CachedInv, Counting
  PROVE  /\ Cached!TypeOK /\ Cached!StaleIsDue /\ Cached!CachedIsWatched
         /\ Cached!MemoIsFreshOrDue
<1>o. OrderOK /\ WatchesAreForEdits /\ CacheOK /\ ReadOK(reader) /\ KeptOK /\ PollOK(poll) /\ SiteOK
  BY DEF CachedInv
<1>1. /\ arrangement.watch \in DOMAIN watches /\ Arr \in WatchSet
      /\ Arr.mode \in {"held", "driven"} /\ arrangement.watch \in Sworn
      /\ \A r \in Browsed : Arr.of[r] \in {arrangement.dirs[r], NoDir}
  BY <1>o, OrderFacts DEF Arr
<1>2. ASSUME NEW r \in Browsed, NEW face \in Cached!Faces, DueIn(Arr, r, face)
      PROVE  Cached!EventIsDue(r, face)
  <2>1. PICK i \in DOMAIN Arr.events : Cuts(Arr.events[i], Arr, r, face)
    BY <1>2 DEF DueIn
  <2>2. QED
    BY <1>1, <2>1 DEF Arr, Cuts, Cached!EventIsDue
<1>3. ASSUME NEW r \in Browsed, NEW face \in Cached!Faces, cache[r][face] # Cached!NoEntry
      PROVE  \/ Cached!CutIsDue(r, face)
             \/ /\ Heard(r, face, cache[r][face].dir)
                /\ \/ Cached!Answer(cache[r][face].dir, face) = cache[r][face].value
                   \/ <<r, face>> \in missed
  <2>1. Current(r, face, cache[r][face].dir, cache[r][face].value)
    BY <1>3, <1>o DEF CacheOK, EntryOK2
  <2>2. UnderWay(r, face) => Cached!CutIsDue(r, face)
    BY <1>2 DEF UnderWay, Cached!CutIsDue
  <2>3. QED
    BY <2>1, <2>2 DEF Current
<1>4. Cached!StaleIsDue
  BY <1>3 DEF Cached!StaleIsDue, Cached!Stale, Cached!Kept, Heard
<1>5. Cached!CachedIsWatched
  BY <1>1, <1>3 DEF Cached!CachedIsWatched, Cached!Kept, Heard, Arr
<1>6. Cached!MemoIsFreshOrDue
  <2>1. ASSUME NEW r \in Browsed, Cached!Hit(r), kept[r].dir = arrangement.dirs[r],
               r \in Cached!Watched(arrangement.watch), ~watches[arrangement.watch].hides[r]
        PROVE  \/ kept[r].text = disk[kept[r].dir].text
               \/ Cached!EventIsDue(r, "file") \/ r \in missedRows
    <3>1. PICK m : m = kept[r]
      OBVIOUS
    <3>2. m # Cached!NoEntry /\ m.epoch = cuts[r]
      BY <2>1, <3>1 DEF Cached!Hit
    <3>3. FreshOK(r, m.epoch, m.dir, m.text)
      BY <1>o, <3>1, <3>2 DEF KeptOK, RowsOK
    <3>4. watches[arrangement.watch].of[r] = m.dir
      BY <1>1, <2>1, <3>1 DEF Arr, Cached!Watched
    <3>5. m.text = disk[m.dir].text \/ DueIn(Arr, r, "file") \/ r \in missedRows
      BY <1>1, <2>1, <3>1, <3>2, <3>3, <3>4 DEF FreshOK, Owed, Arr
    <3>6. QED
      BY <1>2, <3>1, <3>5 DEF Cached!Faces
  <2>2. QED
    BY <2>1 DEF Cached!MemoIsFreshOrDue
<1>7. Cached!TypeOK
  <2>1. disk \in [Dirs -> [text : 0 .. MaxChanges, hidden : BOOLEAN]]
    <3>1. ASSUME NEW d \in Dirs PROVE disk[d] \in [text : 0 .. MaxChanges, hidden : BOOLEAN]
      <4>1. PICK x \in [text : Nat, hidden : BOOLEAN] : x = disk[d]
        BY <1>o DEF SiteOK
      <4>2. x.text \in Nat /\ x.text <= changes /\ changes \in 0 .. MaxChanges /\ MaxChanges \in Nat
        BY <1>o, <4>1, WatchFacts DEF SiteOK
      <4>3. x.text \in 0 .. MaxChanges
        BY <4>2
      <4>4. QED
        BY <4>1, <4>3
    <3>2. QED
      BY <1>o, <3>1 DEF SiteOK
  <2>2. /\ changes \in 0 .. MaxChanges /\ edits \in 0 .. MaxEdits
        /\ config \in [Browsed -> Dirs \cup {NoDir}]
    BY <1>o DEF SiteOK, Places
  <2>3. Len(watches) \in 1 .. MaxEdits + 1
    <3>1. Len(watches) \in Nat /\ inForce.watch \in 1 .. Len(watches)
      BY <1>o, OrderFacts
    <3>2. Len(watches) <= edits + 1 /\ edits \in 0 .. MaxEdits /\ MaxEdits \in Nat
      BY <1>o, <3>1, WatchFacts DEF WatchesAreForEdits, SiteOK
    <3>3. QED
      BY <3>1, <3>2
  <2>4. ASSUME NEW g \in DOMAIN watches
        PROVE  /\ watches[g].of \in [Browsed -> Dirs \cup {NoDir}]
               /\ watches[g].hides \in [Browsed -> BOOLEAN]
               /\ watches[g].mode \in {"held", "driven", "dropped", "ended"}
               /\ \A i \in DOMAIN watches[g].events :
                     watches[g].events[i] \in [dir : Dirs, what : {"text", "rules", "reread"}]
                                              \cup {Cached!Pathless}
    <3>1. PICK w \in WatchSet : w = watches[g]
      BY <1>o, OrderFacts
    <3>2. w.events \in Seq(Events)
      BY DEF WatchSet
    <3>3. \A i \in DOMAIN w.events : w.events[i] \in Events
      BY <3>2, ElementOfSeq, LenProperties
    <3>4. QED
      BY <3>1, <3>3 DEF WatchSet, Places, Events, Paths
  <2>5. /\ inForce \in [dirs : [Browsed -> Dirs \cup {NoDir}], watch : DOMAIN watches]
        /\ watches[inForce.watch].mode = "driven"
    BY <1>o DEF OrderOK, Places
  <2>6. arrangement \in [dirs : [Browsed -> Dirs \cup {NoDir}], watch : DOMAIN watches]
    <3>1. CASE reload.at \in {"idle", "watching", "started"}
      BY <1>o, <2>5, <3>1 DEF OrderOK
    <3>2. CASE reload.at \notin {"idle", "watching", "started"}
      BY <1>o, <3>2, ReloadFacts DEF OrderOK, Reloads, Places
    <3>3. QED
      BY <3>1, <3>2
  <2>7. cuts \in [Browsed -> Nat \cup {NoCounter}]
    BY DEF Counting, Stamps
  <2>8. reload.at \in {"idle", "watching", "started", "swapped", "cut", "removed"}
    BY <1>o, ReloadFacts DEF Reloads
  <2>9. reader.at \in {"idle", "begun", "resolved", "threaded", "computed"}
    BY <1>o DEF ReadOK, Idle, Begun, Resolved, Threaded, Computed
  <2>10. poll.at \in {"idle", "stamped", "read"}
    BY <1>o DEF PollOK, Idle, Stamped, Polled
  <2>11. missed \subseteq Browsed \X Cached!Faces /\ missedRows \subseteq Browsed
    BY DEF CachedInv, MissOK
  <2>12. QED
    BY <2>1, <2>2, <2>3, <2>4, <2>5, <2>6, <2>7, <2>8, <2>9, <2>10, <2>11
       DEF Cached!TypeOK
<1>8. QED
  BY <1>4, <1>5, <1>6, <1>7

-----------------------------------------------------------------------------
(* The four beside each other.                                             *)

ReadsInv == MemoInv /\ FileInv /\ MountInv /\ Counting /\ CachedInv

LEMMA ReadsInvHolds == PartsSpec => []ReadsInv
<1>1. PartsInit => ReadsInv
  BY RowsInit, FileInit, MountInit, CountingInit, CachedInit DEF PartsInit, ReadsInv
<1>2. ReadsInv /\ [PartsNext]_partsVars => ReadsInv'
  <2> SUFFICES ASSUME ReadsInv, [PartsNext]_partsVars PROVE ReadsInv'
    OBVIOUS
  <2>1. /\ [Next]_vars /\ [File!Next]_(File!vars) /\ [Mount!Next]_(Mount!vars)
        /\ [Cached!Next]_(Cached!vars)
    BY DEF PartsNext, partsVars, cachedVars, fileVars, mountVars, File!vars, File!file,
       Mount!vars, Mount!state, Mount!client, Cached!vars, Cached!site, Cached!findings,
       Cached!untold
  <2>2. QED
    BY <2>1, MemoStep, FileStep, MountStep, CountingStep, CachedStep DEF ReadsInv
<1>3. QED
  BY <1>1, <1>2, PTL DEF PartsSpec

\* The four keep their types, the bounds of the watches and of the failures among them.
THEOREM ReadsTyping == PartsSpec => []PartsTypeOK
<1>1. ReadsInv => PartsTypeOK
  BY RowsImplied, FileImplied, CachedImplied DEF ReadsInv, PartsTypeOK, MountInv
<1>2. QED
  BY <1>1, ReadsInvHolds, PTL

\* roots.rs and browse.rs: a cached read or a kept row that a change, a rule or a re-arrangement
\* made stale is one whose cut, or whose epoch, is under way, unless a watch was not told the path
\* of a change of that root and no cut of the thread, or move of the epoch, came since; what is
\* cached is watched: for any roots, directories, refusals of the platform, changes that a watch
\* hears as an error, and any interleaving of reads and reloads.
THEOREM StaleReadsAreCut == PartsSpec => []StaleIsDue
<1>1. ReadsInv => StaleIsDue
  BY CachedImplied DEF ReadsInv, StaleIsDue
<1>2. QED
  BY <1>1, ReadsInvHolds, PTL

\* queue.rs and file_cache.rs: an answer of the findings rows and of a parsed file holds every
\* write that was done before it was asked for, whoever read it first; never one's that the
\* asker may not read, and none torn of two versions: for any requests, roots, files, writers.
THEOREM ReadsAreCurrent == PartsSpec => []AnswersAreCurrent
<1>1. ReadsInv => AnswersAreCurrent
  BY RowsImplied, FileImplied DEF ReadsInv, AnswersAreCurrent
<1>2. QED
  BY <1>1, ReadsInvHolds, PTL

\* Only whoever holds the lock of a slot replaces its rows, by rows no older.
LEMMA MemoAdvances ==
  ASSUME MemoInv, Next, NEW s \in Slots, memo[s] # Empty, NEW f \in Of(s[1])
  PROVE  memo'[s].rows[f] >= memo[s].rows[f]
<1>1. SlotOK(s, memo[s]) /\ s[1] \in Roots
  BY Distinct DEF MemoInv
<1>2. memo[s].rows \in [Of(s[1]) -> Nat]
  BY <1>1 DEF SlotOK, Covers
<1>3. memo[s].rows[f] \in Nat
  BY <1>2
<1>4. CASE UNCHANGED memo
  BY <1>3, <1>4
<1>5. CASE \E c \in Clients : Keep(c)
  <2>1. PICK c \in Clients : Keep(c)
    BY <1>5
  <2>2. /\ ask[c] \in Asked /\ ask[c] # Idle /\ AskOK(ask[c]) /\ Newer(ask[c])
        /\ ask[c].at = "learned"
    BY <2>1, InHand DEF Keep
  <2>3. ask[c].stamp # NoCounter /\ ask[c].rows \in [Of(ask[c].slot[1]) -> Nat]
    BY <2>2 DEF AskOK
  <2>4. memo' = [memo EXCEPT ![ask[c].slot] = [epoch |-> ask[c].stamp, rows |-> ask[c].rows]]
    BY <2>1 DEF Keep
  <2>5. CASE s = ask[c].slot
    <3>1. memo'[s].rows = ask[c].rows
      BY <2>4, <2>5 DEF MemoInv, Typed
    <3>2. memo[s].rows[f] <= ask[c].rows[f] /\ ask[c].rows[f] \in Nat
      BY <2>2, <2>3, <2>5 DEF Newer
    <3>3. QED
      BY <1>3, <3>1, <3>2
  <2>6. CASE s # ask[c].slot
    BY <1>3, <2>4, <2>6 DEF MemoInv, Typed
  <2>7. QED
    BY <2>5, <2>6
<1>6. UNCHANGED memo \/ \E c \in Clients : Keep(c)
  BY DEF Next, Serve, Ask, Look, HitOrMiss, Enter, Stamp, HitAgain, Read, Refused, Learn, Write,
     FindOwner, Touch, Rearrange
<1>7. QED
  BY <1>4, <1>5, <1>6

\* watch.rs and queue.rs: neither an epoch nor the rows kept at one ever go back.
THEOREM NothingKeptGoesBack == PartsSpec => NothingGoesBack
<1>1. ReadsInv /\ [PartsNext]_partsVars
        => /\ [\A r \in Browsed : cuts[r] # NoCounter =>
                  cuts'[r] # NoCounter /\ cuts'[r] >= cuts[r]]_(Cached!vars)
           /\ [\A s \in Slots : memo[s] # Empty =>
                  \A f \in Of(s[1]) : memo'[s].rows[f] >= memo[s].rows[f]]_vars
  <2> SUFFICES ASSUME ReadsInv, [PartsNext]_partsVars
               PROVE  /\ \A r \in Browsed : cuts[r] # NoCounter =>
                            cuts'[r] # NoCounter /\ cuts'[r] >= cuts[r]
                      /\ \/ UNCHANGED vars
                         \/ \A s \in Slots : memo[s] # Empty =>
                               \A f \in Of(s[1]) : memo'[s].rows[f] >= memo[s].rows[f]
    OBVIOUS
  <2>1. [Next]_vars /\ [Cached!Next]_(Cached!vars)
    BY DEF PartsNext, partsVars, cachedVars, Cached!vars, Cached!site, Cached!findings,
       Cached!untold
  <2>2. QED
    BY <2>1, CountingStep, MemoAdvances DEF ReadsInv
<1>2. QED
  BY <1>1, ReadsInvHolds, PTL DEF PartsSpec, NothingGoesBack, Cached!EpochsOnlyRise,
     MemoNeverGoesBack

\* mount.rs: a burst of first calls costs one handshake, a hold is of a dial that failed and
\* never of a call that was lost, and a peer that is down costs one dial per hold.
THEOREM HoldsAreDials == PartsSpec => HoldsAreOfDials
<1>1. ReadsInv => Mount!OneHandshake /\ Mount!OnlyFailedDialsHold
  BY MountImplied DEF ReadsInv
<1>2. ReadsInv /\ [PartsNext]_partsVars
        => [\A c \in Clients : at[c] # "dialling" /\ at'[c] = "dialling" =>
               failures = 0 \/ quiet >= Mount!HoldAfter(failures)]_(Mount!vars)
  <2> SUFFICES ASSUME ReadsInv, [PartsNext]_partsVars, NEW c \in Clients,
                      at[c] # "dialling", at'[c] = "dialling"
               PROVE  failures = 0 \/ quiet >= Mount!HoldAfter(failures)
    OBVIOUS
  <2>1. [Mount!Next]_(Mount!vars)
    BY DEF PartsNext, partsVars, mountVars, Mount!vars, Mount!state, Mount!client
  <2>2. QED
    BY <2>1, DialsAreHeldOff DEF ReadsInv
<1>3. QED
  BY <1>1, <1>2, ReadsInvHolds, PTL DEF PartsSpec, HoldsAreOfDials, Mount!OneDialPerHold

=============================================================================
