----------------------------- MODULE FilesProofs -----------------------------
(***************************************************************************)
(* What is proved of the parts of MCDisk that keep files, of which its run *)
(* checks small instances.  First the fold of the entitlements, as facts   *)
(* about any log of them, by induction on its length; then the invariant   *)
(* of the controller and of the applies beside it; then the roots file's,  *)
(* that of the restores into a directory, and that of the rotation of      *)
(* backups, with how many the oldest of a set are; and at the end all of   *)
(* them of the specification the run checks.                               *)
(***************************************************************************)
EXTENDS MCDisk, FiniteSetTheorems, WellFoundedInduction, TLAPS

-----------------------------------------------------------------------------
(* The inductions below rest on this: a set of naturals that is not empty   *)
(* has a least member.                                                      *)
LEMMA LeastOf ==
    ASSUME NEW T \in SUBSET Nat, T # {}
    PROVE  \E n \in T : \A m \in T : n <= m
<1> DEFINE R == OpToRel(<, Nat)
<1>1. PICK n \in T : \A m \in T : <<m, n>> \notin R
  <2>1. IsWellFoundedOn(R, Nat)
    BY NatLessThanWellFounded
  <2>2. QED
    BY <2>1, WFMin, Zenon
<1>2. \A m \in T : ~(m < n)
  BY <1>1 DEF OpToRel
<1>3. QED
  BY <1>2

-----------------------------------------------------------------------------
(* The fold.                                                               *)

NoneCurrent == [p \in Prints |-> None]
Following(L, f, n) ==
    IF n = 0 \/ n > Len(L) THEN NoneCurrent
    ELSE IF Accepts(f[n - 1], L[n]) THEN [f[n - 1] EXCEPT ![L[n].print] = n] ELSE f[n - 1]

Folds(L, f, m) == f = [n \in 0 .. m |-> Following(L, f, n)]

LEMMA FollowingAlike ==
    ASSUME NEW L, NEW f, NEW g, NEW i, i = 0 \/ f[i - 1] = g[i - 1]
    PROVE  Following(L, f, i) = Following(L, g, i)
BY Zenon DEF Following

\* The recursion has a solution, up to every length.
LEMMA FoldExists ==
    ASSUME NEW L, NEW k \in Nat
    PROVE  \E f : Folds(L, f, k)
<1> DEFINE T == {m \in Nat : ~ \E f : Folds(L, f, m)}
<1>1. SUFFICES ASSUME T # {} PROVE FALSE
  OBVIOUS
<1>2. PICK n \in T : \A m \in T : n <= m
  BY <1>1, LeastOf
<1>3. CASE n = 0
  <2> DEFINE f == [i \in 0 .. 0 |-> NoneCurrent]
  <2>1. Folds(L, f, 0)
    BY DEF Folds, Following
  <2>2. QED
    BY <1>3, <2>1
<1>4. CASE n # 0
  <2>1. n - 1 \in Nat /\ n - 1 \notin T
    BY <1>2, <1>4
  <2>2. PICK g : Folds(L, g, n - 1)
    BY <2>1
  <2> DEFINE f == [i \in 0 .. n |-> IF i = n THEN Following(L, g, n) ELSE g[i]]
  <2>3. f[n] = Following(L, g, n) /\ \A i \in 0 .. n - 1 : f[i] = g[i]
    BY <1>2
  <2>4. ASSUME NEW i \in 0 .. n PROVE f[i] = Following(L, f, i)
    <3>1. CASE i = 0
      <4>1. g[0] = Following(L, g, 0) /\ f[0] = g[0]
        BY <1>4, <2>1, <2>2, <2>3 DEF Folds
      <4>2. QED
        BY <3>1, <4>1, FollowingAlike
    <3>2. CASE i # 0
      <4>1. i - 1 \in 0 .. n - 1 /\ f[i - 1] = g[i - 1]
        BY <1>2, <2>3, <3>2
      <4>2. Following(L, f, i) = Following(L, g, i)
        BY <4>1, FollowingAlike
      <4>3. CASE i = n
        BY Zenon, <2>3, <4>2, <4>3
      <4>4. CASE i # n
        <5>1. i \in 0 .. n - 1
          BY <1>2, <4>4
        <5>2. g[i] = Following(L, g, i)
          BY <2>2, <5>1 DEF Folds
        <5>3. QED
          BY <2>3, <4>2, <5>1, <5>2
      <4>5. QED
        BY <4>3, <4>4
    <3>3. QED
      BY <3>1, <3>2
  <2>5. Folds(L, f, n)
    BY <2>4 DEF Folds
  <2>6. QED
    BY <2>5
<1>5. QED
  BY <1>3, <1>4

LEMMA CurrentFolds ==
    ASSUME NEW L
    PROVE  Folds(L, CurrentAfter(L), MaxSaid)
<1>1. \E f : Folds(L, f, MaxSaid)
  BY FoldExists, EntitlementConstants
<1>2. CurrentAfter(L) = CHOOSE f : Folds(L, f, MaxSaid)
  BY Zenon DEF CurrentAfter, Folds, Following, NoneCurrent
<1>3. QED
  BY <1>1, <1>2

Gives == {"gonk", "layer", "none"}
Entries == [print : Prints, name : Names, gives : Gives, request : Lobby \cup {NotMinted},
            supersedes : 0 .. MaxSaid]
Logs == {L \in Seq(Entries) : Len(L) <= MaxSaid}

\* One step of the fold.
LEMMA FoldStep ==
    ASSUME NEW L \in Logs, NEW f, Folds(L, f, MaxSaid)
    PROVE  /\ f[0] = NoneCurrent
           /\ \A n \in 1 .. Len(L) :
                f[n] = IF Accepts(f[n - 1], L[n]) THEN [f[n - 1] EXCEPT ![L[n].print] = n]
                       ELSE f[n - 1]
<1>1. Len(L) \in Nat /\ Len(L) <= MaxSaid /\ MaxSaid \in Nat
  BY EntitlementConstants DEF Logs
<1>2. \A n \in 0 .. MaxSaid : f[n] = Following(L, f, n)
  BY DEF Folds
<1>3. f[0] = NoneCurrent
  <2>1. f[0] = Following(L, f, 0)
    BY <1>1, <1>2
  <2>2. QED
    BY <2>1 DEF Following
<1>4. ASSUME NEW n \in 1 .. Len(L)
      PROVE  f[n] = IF Accepts(f[n - 1], L[n]) THEN [f[n - 1] EXCEPT ![L[n].print] = n]
                    ELSE f[n - 1]
  <2>1. f[n] = Following(L, f, n) /\ n # 0 /\ ~(n > Len(L))
    BY <1>1, <1>2
  <2>2. QED
    BY <2>1 DEF Following
<1>5. QED
  BY <1>3, <1>4

\* What the fold holds after n entries: for each fingerprint the last one accepted of it.
LastAccepted(L, f, n) ==
    /\ f[n] \in [Prints -> 0 .. n]
    /\ \A p \in Prints : f[n][p] # None =>
         L[f[n][p]].print = p /\ Accepts(f[f[n][p] - 1], L[f[n][p]])
    /\ \A m \in 1 .. n : Accepts(f[m - 1], L[m]) => m <= f[n][L[m].print]

LEMMA FoldLast ==
    ASSUME NEW L \in Logs, NEW f, Folds(L, f, MaxSaid), NEW k \in 0 .. Len(L)
    PROVE  LastAccepted(L, f, k)
<1> DEFINE T == {m \in 0 .. Len(L) : ~LastAccepted(L, f, m)}
<1>0. /\ f[0] = NoneCurrent
      /\ \A n \in 1 .. Len(L) :
           f[n] = IF Accepts(f[n - 1], L[n]) THEN [f[n - 1] EXCEPT ![L[n].print] = n] ELSE f[n - 1]
  BY FoldStep
<1>1. SUFFICES ASSUME T # {} PROVE FALSE
  OBVIOUS
<1>2. Len(L) \in Nat /\ L \in Seq(Entries) /\ \A n \in 1 .. Len(L) : L[n] \in Entries
  BY DEF Logs
<1>3. PICK n \in T : \A m \in T : n <= m
  <2>1. T \in SUBSET Nat
    BY <1>2
  <2>2. QED
    BY <1>1, <2>1, LeastOf
<1>4. CASE n = 0
  <2>1. f[0] \in [Prints -> 0 .. 0] /\ \A p \in Prints : f[0][p] = None
    BY <1>0 DEF NoneCurrent, None
  <2>2. LastAccepted(L, f, 0)
    BY <2>1 DEF LastAccepted
  <2>3. QED
    BY <1>3, <1>4, <2>2
<1>5. CASE n # 0
  <2>1. n \in 1 .. Len(L) /\ n \in Nat /\ n - 1 \in 0 .. Len(L) /\ n - 1 \notin T
    BY <1>2, <1>3, <1>5
  <2>2. LastAccepted(L, f, n - 1)
    BY <2>1
  <2>3. L[n] \in Entries /\ L[n].print \in Prints
    BY <1>2, <2>1 DEF Entries
  <2>4. CASE ~Accepts(f[n - 1], L[n])
    <3>1. f[n] = f[n - 1]
      BY <1>0, <2>1, <2>4
    <3>2. f[n] \in [Prints -> 0 .. n]
      BY <2>1, <2>2, <3>1 DEF LastAccepted
    <3>3. \A p \in Prints : f[n][p] # None =>
            L[f[n][p]].print = p /\ Accepts(f[f[n][p] - 1], L[f[n][p]])
      BY <2>2, <3>1 DEF LastAccepted
    <3>4. \A m \in 1 .. n : Accepts(f[m - 1], L[m]) => m <= f[n][L[m].print]
      <4>1. \A m \in 1 .. n : m = n \/ m \in 1 .. n - 1
        BY <2>1
      <4>2. QED
        BY <2>2, <2>4, <3>1, <4>1 DEF LastAccepted
    <3>5. LastAccepted(L, f, n)
      BY <3>2, <3>3, <3>4 DEF LastAccepted
    <3>6. QED
      BY <1>3, <3>5
  <2>5. CASE Accepts(f[n - 1], L[n])
    <3>1. f[n] = [f[n - 1] EXCEPT ![L[n].print] = n]
      BY <1>0, <2>1, <2>5
    <3>2. f[n - 1] \in [Prints -> 0 .. n - 1]
      BY <2>2 DEF LastAccepted
    <3>3. /\ f[n] \in [Prints -> 0 .. n] /\ f[n][L[n].print] = n
          /\ \A p \in Prints \ {L[n].print} : f[n][p] = f[n - 1][p]
      BY <2>1, <2>3, <3>1, <3>2
    <3>4. ASSUME NEW p \in Prints, f[n][p] # None
          PROVE  L[f[n][p]].print = p /\ Accepts(f[f[n][p] - 1], L[f[n][p]])
      <4>1. CASE p = L[n].print
        BY <2>5, <3>3, <4>1
      <4>2. CASE p # L[n].print
        BY <2>2, <3>3, <3>4, <4>2 DEF LastAccepted
      <4>3. QED
        BY <4>1, <4>2
    <3>5. ASSUME NEW m \in 1 .. n, Accepts(f[m - 1], L[m])
          PROVE  m <= f[n][L[m].print]
      <4>1. CASE m = n
        BY <3>3, <4>1
      <4>2. CASE m # n
        <5>1. m \in 1 .. n - 1 /\ m \in 1 .. Len(L) /\ m < n
          BY <1>2, <2>1, <4>2
        <5>2. L[m].print \in Prints
          BY <1>2, <5>1 DEF Entries
        <5>3. m <= f[n - 1][L[m].print]
          BY <2>2, <3>5, <5>1 DEF LastAccepted
        <5>4. QED
          BY <2>1, <3>3, <5>1, <5>2, <5>3
      <4>3. QED
        BY <4>1, <4>2
    <3>6. LastAccepted(L, f, n)
      BY <3>3, <3>4, <3>5 DEF LastAccepted
    <3>7. QED
      BY <1>3, <3>6
  <2>6. QED
    BY <2>4, <2>5
<1>6. QED
  BY <1>4, <1>5

\* An entry more leaves what was folded before it as it is.
LEMMA FoldOnlyGrows ==
    ASSUME NEW L \in Logs, NEW M \in Logs, Len(L) <= Len(M), \A n \in 1 .. Len(L) : M[n] = L[n],
           NEW f, Folds(L, f, MaxSaid), NEW g, Folds(M, g, MaxSaid), NEW k \in 0 .. Len(L)
    PROVE  g[k] = f[k]
<1> DEFINE T == {m \in 0 .. Len(L) : g[m] # f[m]}
<1>1. SUFFICES ASSUME T # {} PROVE FALSE
  OBVIOUS
<1>2. Len(L) \in Nat /\ Len(M) \in Nat
  BY DEF Logs
<1>3. PICK n \in T : \A m \in T : n <= m
  <2>1. T \in SUBSET Nat
    BY <1>2
  <2>2. QED
    BY <1>1, <2>1, LeastOf
<1>4. CASE n = 0
  BY <1>3, <1>4, FoldStep
<1>5. CASE n # 0
  <2>1. n \in 1 .. Len(L) /\ n \in 1 .. Len(M) /\ n - 1 \in 0 .. Len(L) /\ n - 1 \notin T
    BY <1>2, <1>3, <1>5
  <2>2. g[n - 1] = f[n - 1] /\ M[n] = L[n]
    BY <2>1
  <2>3. f[n] = IF Accepts(f[n - 1], L[n]) THEN [f[n - 1] EXCEPT ![L[n].print] = n] ELSE f[n - 1]
    BY <2>1, FoldStep
  <2>4. g[n] = IF Accepts(g[n - 1], M[n]) THEN [g[n - 1] EXCEPT ![M[n].print] = n] ELSE g[n - 1]
    BY <2>1, FoldStep
  <2>5. g[n] = f[n]
    <3>1. CASE Accepts(f[n - 1], L[n])
      BY <2>2, <2>3, <2>4, <3>1
    <3>2. CASE ~Accepts(f[n - 1], L[n])
      BY <2>2, <2>3, <2>4, <3>2
    <3>3. QED
      BY <3>1, <3>2
  <2>6. QED
    BY <1>3, <2>5
<1>6. QED
  BY <1>4, <1>5

\* What is current, and what is accepted, of a layer.
LEMMA LayerFolds ==
    ASSUME layer \in Logs
    PROVE  /\ Current \in [Prints -> 0 .. Len(layer)]
           /\ \A p \in Prints : Current[p] # None =>
                Current[p] \in DOMAIN layer /\ layer[Current[p]].print = p /\ Accepted(Current[p])
           /\ \A n \in DOMAIN layer : Accepted(n) => n <= Current[layer[n].print]
<1> DEFINE f == CurrentAfter(layer)
           c == Len(layer)
<1>1. c \in Nat /\ DOMAIN layer = 1 .. c /\ Folds(layer, f, MaxSaid)
  BY CurrentFolds DEF Logs
<1>2. LastAccepted(layer, f, c)
  BY <1>1, FoldLast
<1>3. /\ f[c] \in [Prints -> 0 .. c]
      /\ \A p \in Prints : f[c][p] # None =>
           layer[f[c][p]].print = p /\ Accepts(f[f[c][p] - 1], layer[f[c][p]])
      /\ \A m \in 1 .. c : Accepts(f[m - 1], layer[m]) => m <= f[c][layer[m].print]
  BY <1>2 DEF LastAccepted
<1>4. Current = f[c]
  BY DEF Current
<1>5. \A n : Accepted(n) <=> Accepts(f[n - 1], layer[n])
  BY DEF Accepted
<1> HIDE DEF f
<1>6. \A p \in Prints : Current[p] # None => Current[p] \in 1 .. c
  BY <1>1, <1>3, <1>4 DEF None
<1>7. QED
  BY <1>1, <1>3, <1>4, <1>5, <1>6

LEMMA OneEntitlementStands ==
    ASSUME layer \in Logs
    PROVE  OneStands
<1> DEFINE f == CurrentAfter(layer)
<1>1. Len(layer) \in Nat /\ DOMAIN layer = 1 .. Len(layer) /\ Folds(layer, f, MaxSaid)
  BY CurrentFolds DEF Logs
<1>2. \A n : Accepted(n) <=> Accepts(f[n - 1], layer[n])
  BY DEF Accepted
<1> HIDE DEF f
<1>3. SUFFICES ASSUME NEW n \in DOMAIN layer, InForce(n), Current[layer[n].print] # n
               PROVE  FALSE
  BY DEF OneStands
<1> DEFINE p == layer[n].print
           T == {m \in DOMAIN layer : m > n /\ Accepted(m) /\ layer[m].print = p}
<1>4. Accepted(n) /\ n \in Nat /\ p \in Prints /\ \A m \in DOMAIN layer : layer[m].print \in Prints
  <2>1. \A m \in DOMAIN layer : layer[m] \in Entries
    BY <1>1 DEF Logs
  <2>2. QED
    BY <1>1, <1>3, <2>1 DEF InForce, Entries
<1>5. n <= Current[p] /\ Current[p] \in 0 .. Len(layer)
  BY <1>3, <1>4, LayerFolds
<1>6. Current[p] # None /\ Current[p] > n
  BY <1>1, <1>3, <1>5 DEF None
<1>7. Current[p] \in T
  BY <1>4, <1>6, LayerFolds
<1> HIDE DEF p
<1>8. PICK m \in T : \A q \in T : m <= q
  <2>1. T \in SUBSET Nat
    BY <1>1
  <2>2. QED
    BY <1>7, <2>1, LeastOf
<1>9. m \in 1 .. Len(layer) /\ m - 1 \in 0 .. Len(layer) /\ n \in 1 .. m - 1
  BY <1>1, <1>4, <1>8
<1> DEFINE c == f[m - 1][p]
<1>10. LastAccepted(layer, f, m - 1)
  BY <1>1, <1>9, FoldLast
<1>11. f[m - 1] \in [Prints -> 0 .. m - 1]
  BY <1>10 DEF LastAccepted
<1>12. Accepts(f[n - 1], layer[n])
  BY <1>2, <1>4
<1>13. n <= f[m - 1][layer[n].print]
  BY <1>9, <1>10, <1>12 DEF LastAccepted
<1>14. c \in 1 .. m - 1 /\ n <= c /\ c # None
  BY <1>4, <1>9, <1>11, <1>13 DEF None, p
<1>15. layer[c].print = p /\ Accepts(f[c - 1], layer[c])
  BY <1>4, <1>10, <1>14 DEF LastAccepted
<1> HIDE DEF c
<1>16. c \in DOMAIN layer /\ c < m /\ Accepted(c)
  BY <1>1, <1>2, <1>9, <1>14, <1>15
<1>17. c = n
  <2>1. ~(c > n)
    BY <1>1, <1>8, <1>15, <1>16
  <2>2. QED
    BY <1>4, <1>9, <1>14, <2>1
<1>18. Accepts(f[m - 1], layer[m]) /\ layer[m].print = p
  BY <1>2, <1>8
<1>19. layer[m].supersedes = n
  BY <1>17, <1>18 DEF Accepts, c
<1>20. Superseded(n)
  BY <1>8, <1>19 DEF Superseded
<1>21. QED
  BY <1>3, <1>20 DEF InForce

LEMMA ReplaysAreRefused ==
    ASSUME layer \in Logs
    PROVE  ReplayIsRefused
<1> DEFINE f == CurrentAfter(layer)
<1>1. Len(layer) \in Nat /\ DOMAIN layer = 1 .. Len(layer) /\ Folds(layer, f, MaxSaid)
  BY CurrentFolds DEF Logs
<1>2. \A n : Accepted(n) <=> Accepts(f[n - 1], layer[n])
  BY DEF Accepted
<1> HIDE DEF f
<1>3. SUFFICES ASSUME NEW m \in DOMAIN layer, NEW n \in DOMAIN layer, m < n,
                      layer[m] = layer[n], Accepted(m), Accepted(n)
               PROVE  FALSE
  BY DEF ReplayIsRefused
<1> DEFINE p == layer[m].print
<1>4. m \in 1 .. Len(layer) /\ n \in 1 .. Len(layer) /\ p \in Prints
  <2>1. layer[m] \in Entries
    BY <1>1 DEF Logs
  <2>2. QED
    BY <1>1, <2>1 DEF Entries
<1>5. Accepts(f[m - 1], layer[m]) /\ Accepts(f[n - 1], layer[n])
  BY <1>2, <1>3
<1>6. layer[m].supersedes = f[m - 1][p] /\ layer[m].supersedes = f[n - 1][p]
  BY <1>3, <1>5 DEF Accepts
<1>7. m - 1 \in 0 .. Len(layer) /\ n - 1 \in 0 .. Len(layer) /\ m \in 1 .. n - 1
  BY <1>3, <1>4
<1>8. LastAccepted(layer, f, m - 1) /\ LastAccepted(layer, f, n - 1)
  BY <1>1, <1>7, FoldLast
<1>9. f[m - 1][p] \in 0 .. m - 1 /\ m <= f[n - 1][p]
  BY <1>4, <1>5, <1>7, <1>8 DEF LastAccepted
<1>10. QED
  BY <1>4, <1>6, <1>9

ApplyPlaces == {"next", "adding", "added", "enrolling", "removing", "unbundling"}
Applies == [at : ApplyPlaces, current : [Prints -> 0 .. MaxSaid],
            ours : [Prints -> Names \cup {NoGrant}], stands : [Prints -> BOOLEAN],
            left : SUBSET Prints, rotate : BOOLEAN, replaced : Prints \cup {None},
            newly : BOOLEAN]

\* The types, of what each actor is at too.
ActorOK(a) ==
    /\ a.at \in {"idle", "minting", "checked", "saying", "said", "marked", "reading"}
                  \cup ApplyPlaces
    /\ a.at = "minting" => a.invite \in Invites
    /\ a.at \in {"checked", "said", "marked"} =>
         a \in [at : {"checked", "said", "marked"}, request : Lobby]
    /\ a.at = "saying" => a.entry \in Entries
    /\ a.at \in ApplyPlaces => a \in Applies

EntTyped ==
    /\ TypeOK /\ layer \in Logs
    /\ DOMAIN actor = Actors /\ \A k \in Actors : ActorOK(actor[k])

\* What an apply read is still on the layer, and it is at one of those left to it.
FromLayer(a) ==
    /\ \A p \in Prints : a.current[p] # None =>
         a.current[p] \in DOMAIN layer /\ layer[a.current[p]].print = p /\ Accepted(a.current[p])
    /\ \A p \in a.left : a.current[p] # None
    /\ a.at # "next" => a.left # {}

Reads == \A k \in Actors : Applying(k) => FromLayer(actor[k])

\* An invite is minted by one actor at a time, with its code kept.
Minting ==
    \A k \in Actors : Doing(k, "minting") =>
        /\ invites[actor[k].invite] = NotMinted /\ actor[k].invite \in codes
        /\ \A m \in Actors : Doing(m, "minting") /\ actor[m].invite = actor[k].invite => m = k

\* A request that passed the check is of an invite that was minted, and whoever spends it has
\* said its entitlement.
Answering ==
    \A k \in Actors :
        /\ actor[k].at \in {"checked", "said", "marked"} => invites[actor[k].request[2]] # NotMinted
        /\ actor[k].at = "saying" /\ actor[k].entry.request # NotMinted =>
             invites[actor[k].entry.request[2]] # NotMinted
        /\ actor[k].at \in {"said", "marked"} =>
             \E n \in DOMAIN layer : layer[n].request = actor[k].request
        /\ actor[k].at = "marked" => invites[actor[k].request[2]] # Open

Spending == SpentIsSaid /\ Minting /\ Answering

\* A certificate the server does not trust is one the status tells of, or will once the apply
\* that brought it reports.
Told ==
    \A n \in Names : crt[n] # None /\ crt[n] \notin trusted =>
        crt[n] \in shutOut \/ pending \/ \E k \in Actors : Applying(k) /\ actor[k].newly

\* A bundle holds a certificate that was entitled under its name.
Bundled ==
    \A a \in Names : crt[a] # None =>
        \E n \in DOMAIN layer : Accepted(n) /\ layer[n].print = crt[a] /\ layer[n].name = a

\* A certificate that has to be in, and in its bundle.
Obliged(p) ==
    Enrols(p) /\ KeptItsName(p) /\ \A q \in Prints : Enrols(q) /\ q > p => Name(q) # Name(p)

\* An apply that no one overtook has the layer as it is, and has brought to it every
\* fingerprint before those that are left.
Brings(k) ==
    LET a == actor[k]
    IN  /\ a.current = Current
        /\ a.stands = [p \in Prints |-> Current[p] # None /\ InForce(Current[p])]
        /\ \A p \in a.left : a.ours[p] = NoGrant => clients[p] = NoGrant
        /\ \A p \in Prints \ a.left : Current[p] # None =>
             (\A q \in a.left : p < q) /\ Brought(p)
        /\ a.at = "adding" => Wanted(k) /\ a.rotate = (crt[Bundle(k)] # None)
        /\ a.at \in {"added", "enrolling"} => Wanted(k) /\ crt[Bundle(k)] = At(k)
        /\ a.at = "added" => \A p \in Prints \ a.left : Obliged(p) => p # a.replaced
        /\ a.at \in {"removing", "unbundling"} => ~Wanted(k)
        /\ a.at = "unbundling" => clients[At(k)] = NoGrant

BringsAll == \A k \in Actors \ disturbed : Applying(k) => Brings(k)

EntInv == EntTyped /\ Reads /\ Spending /\ Told /\ Bundled /\ BringsAll

LEMMA LayerStays ==
    ASSUME layer' = layer
    PROVE  /\ Current' = Current
           /\ \A n : (Accepted(n)' <=> Accepted(n)) /\ (InForce(n)' <=> InForce(n))
           /\ \A p : /\ (Enrols(p)' <=> Enrols(p)) /\ Name(p)' = Name(p)
                     /\ (KeptItsName(p)' <=> KeptItsName(p)) /\ (Obliged(p)' <=> Obliged(p))
<1>1. Current' = Current
  BY Zenon DEF Current
<1>2. \A n : Accepted(n)' <=> Accepted(n)
  BY Zenon DEF Accepted
<1>3. \A n : InForce(n)' <=> InForce(n)
  BY Zenon, <1>2 DEF InForce, Superseded
<1>4. \A p : (Enrols(p)' <=> Enrols(p)) /\ Name(p)' = Name(p)
  BY Zenon, <1>1, <1>3 DEF Enrols, Name
<1>5. \A p : KeptItsName(p)' <=> KeptItsName(p)
  BY Zenon, <1>2, <1>4 DEF KeptItsName
<1>6. \A p : Obliged(p)' <=> Obliged(p)
  BY Zenon, <1>4, <1>5 DEF Obliged
<1>7. QED
  BY Zenon, <1>1, <1>2, <1>3, <1>4, <1>5, <1>6

LEMMA LayerGrows ==
    ASSUME layer \in Logs, Len(layer) < MaxSaid, NEW e \in Entries, layer' = Append(layer, e)
    PROVE  /\ layer' \in Logs /\ Len(layer)' <= MaxSaid
           /\ \A n \in DOMAIN layer :
                n \in DOMAIN layer' /\ layer'[n] = layer[n] /\ (Accepted(n)' <=> Accepted(n))
           /\ \E n \in DOMAIN layer' : layer'[n] = e
<1> DEFINE f == CurrentAfter(layer)
           g == CurrentAfter(layer')
<1>1. Len(layer) \in Nat /\ DOMAIN layer = 1 .. Len(layer) /\ layer \in Seq(Entries)
  BY DEF Logs
<1>2. layer' \in Seq(Entries) /\ Len(layer') = Len(layer) + 1 /\ DOMAIN layer' = 1 .. Len(layer) + 1
  BY <1>1
<1>3. layer' \in Logs /\ Len(layer') <= MaxSaid
  BY <1>1, <1>2, EntitlementConstants DEF Logs
<1>4. \A n \in 1 .. Len(layer) : layer'[n] = layer[n]
  BY <1>1
<1>5. Folds(layer, f, MaxSaid) /\ Folds(layer', g, MaxSaid)
  BY CurrentFolds
<1>6. ASSUME NEW n \in DOMAIN layer PROVE Accepted(n)' <=> Accepted(n)
  <2>1. n - 1 \in 0 .. Len(layer) /\ n \in 1 .. Len(layer)
    BY <1>1
  <2>2. \A k \in 0 .. Len(layer) : g[k] = f[k]
    <3>0. PICK M : M = layer'
      OBVIOUS
    <3>1. M \in Logs /\ Len(layer) <= Len(M) /\ \A i \in 1 .. Len(layer) : M[i] = layer[i]
      BY <1>1, <1>2, <1>3, <1>4, <3>0
    <3>2. Folds(M, g, MaxSaid)
      BY <1>5, <3>0
    <3> HIDE DEF f, g
    <3>3. QED
      BY <1>5, <3>1, <3>2, FoldOnlyGrows
  <2>3. Accepted(n) <=> Accepts(f[n - 1], layer[n])
    BY DEF Accepted
  <2>4. Accepted(n)' <=> Accepts(g[n - 1], layer'[n])
    BY DEF Accepted
  <2> HIDE DEF f, g
  <2>5. g[n - 1] = f[n - 1] /\ layer'[n] = layer[n]
    BY <1>4, <2>1, <2>2
  <2>6. QED
    BY Zenon, <2>3, <2>4, <2>5
<1>7. layer'[Len(layer) + 1] = e /\ Len(layer) + 1 \in DOMAIN layer'
  BY <1>1, <1>2
<1>8. QED
  BY <1>1, <1>2, <1>3, <1>4, <1>6, <1>7

LEMMA EmptyLayer ==
    ASSUME layer = <<>>
    PROVE  layer \in Logs
BY EntitlementConstants DEF Logs

\* No request is the mark of an invite that has none.
LEMMA RequestsAreTold ==
    \A r \in Lobby : r # NotMinted /\ r # Open /\ r[1] \in Prints /\ r[2] \in Invites
<1>1. ASSUME NEW p \in Prints, NEW i \in Invites PROVE Len(<<p, i>>) = 2
  OBVIOUS
<1>2. Len(NotMinted) = 0 /\ Len(Open) = 1
  BY DEF NotMinted, Open
<1>3. ASSUME NEW r \in Lobby PROVE r # NotMinted /\ r # Open /\ r[1] \in Prints /\ r[2] \in Invites
  <2>0. r \in Prints \X Invites
    BY EntitlementConstants
  <2>1. PICK p \in Prints, i \in Invites : r = <<p, i>>
    BY <2>0
  <2>2. r[1] = p /\ r[2] = i
    BY <2>1
  <2>3. Len(r) = 2
    BY <1>1, <2>1
  <2>4. r # NotMinted
    BY <1>2, <2>3
  <2>5. r # Open
    BY <1>2, <2>3
  <2>6. QED
    BY <2>2, <2>4, <2>5
<1>4. QED
  BY <1>3

LEMMA NotMintedIsNotOpen == NotMinted # Open
BY DEF NotMinted, Open

\* The invariant gives what the run checks.
LEMMA EntImplies ==
    ASSUME EntInv
    PROVE  /\ TypeOK /\ OneStands /\ ReplayIsRefused /\ SpentIsSaid
           /\ AppliedIsEnrolled /\ RestartIsTold
<1>1. layer \in Logs
  BY DEF EntInv, EntTyped
<1>2. OneStands /\ ReplayIsRefused
  BY <1>1, OneEntitlementStands, ReplaysAreRefused
<1>3. RestartIsTold
  BY DEF EntInv, Told, RestartIsTold, Doing, Applying
<1>4. AppliedIsEnrolled
  <2>1. SUFFICES ASSUME NEW k \in Actors \ disturbed, Doing(k, "next"), actor[k].left = {},
                        NEW p \in Prints, Current[p] # None
                 PROVE  Brought(p)
    BY DEF AppliedIsEnrolled
  <2>2. Brings(k)
    BY <2>1 DEF EntInv, BringsAll, Doing, Applying
  <2>3. QED
    BY <2>1, <2>2 DEF Brings
<1>5. QED
  BY <1>2, <1>3, <1>4 DEF EntInv, EntTyped, Spending

LEMMA EntInitial ==
    ASSUME Init
    PROVE  EntInv
<1> USE DEF Init
<1>1. EntTyped
  <2>1. layer \in Logs /\ Len(layer) <= MaxSaid
    BY EmptyLayer, EntitlementConstants
  <2>2. TypeOK
    BY <2>1 DEF TypeOK
  <2>3. DOMAIN actor = Actors /\ \A k \in Actors : actor[k].at = "idle"
    BY DEF Idle
  <2>4. QED
    BY <2>1, <2>2, <2>3 DEF EntTyped, ActorOK, ApplyPlaces
<1>2. Reads /\ BringsAll
  BY DEF Reads, BringsAll, Applying, Idle
<1>3. Spending
  BY RequestsAreTold, NotMintedIsNotOpen DEF Spending, Minting, Answering, SpentIsSaid, Doing, Idle
<1>4. Told /\ Bundled
  BY DEF Told, Bundled
<1>5. QED
  BY <1>1, <1>2, <1>3, <1>4 DEF EntInv

\* The least fingerprint that is left, and what its entry says.
LEMMA AtIsLeast ==
    ASSUME EntTyped, Reads, NEW k \in Actors, Applying(k), actor[k].left # {}
    PROVE  /\ At(k) \in actor[k].left /\ At(k) \in Prints /\ At(k) # None
           /\ \A q \in actor[k].left : At(k) <= q
           /\ actor[k].current[At(k)] \in DOMAIN layer /\ Accepted(actor[k].current[At(k)])
           /\ actor[k].current[At(k)] # None
           /\ Entry(k) \in Entries /\ Entry(k).print = At(k) /\ Bundle(k) \in Names
<1>1. actor[k] \in Applies
  BY DEF EntTyped, ActorOK, Applying, ApplyPlaces
<1>2. actor[k].left \in SUBSET Prints
  BY <1>1 DEF Applies
<1>3. actor[k].left \in SUBSET Nat
  BY <1>2, EntitlementConstants
<1>4. \E p \in actor[k].left : \A q \in actor[k].left : p <= q
  BY <1>3, LeastOf
<1>5. At(k) \in actor[k].left /\ \A q \in actor[k].left : At(k) <= q
  BY <1>4 DEF At
<1>6. At(k) \in Prints /\ At(k) # None
  BY <1>2, <1>5, EntitlementConstants DEF None
<1>7. /\ actor[k].current[At(k)] \in DOMAIN layer /\ Accepted(actor[k].current[At(k)])
      /\ actor[k].current[At(k)] # None
      /\ layer[actor[k].current[At(k)]].print = At(k)
  BY <1>5, <1>6 DEF Reads, FromLayer
<1>8. Entry(k) \in Entries
  BY <1>7 DEF EntTyped, Logs, Entry
<1>9. QED
  BY <1>5, <1>6, <1>7, <1>8 DEF Entry, Bundle, Entries

LEMMA AtStays ==
    ASSUME layer' = layer, NEW k, actor'[k].left = actor[k].left,
           actor'[k].current = actor[k].current, actor'[k].stands = actor[k].stands
    PROVE  At(k)' = At(k) /\ Bundle(k)' = Bundle(k) /\ (Wanted(k)' <=> Wanted(k))
<1>1. At(k)' = At(k)
  BY Zenon DEF At
<1>2. Entry(k)' = Entry(k)
  BY Zenon, <1>1 DEF Entry
<1>3. QED
  BY Zenon, <1>1, <1>2 DEF Bundle, Wanted

\* The actors of which a step leaves everything as it was.
LEMMA BroughtStays ==
    ASSUME layer' = layer, clients' = clients, crt' = crt
    PROVE  \A p : Brought(p)' <=> Brought(p)
<1>1. \A p : /\ (Enrols(p)' <=> Enrols(p)) /\ Name(p)' = Name(p)
            /\ (KeptItsName(p)' <=> KeptItsName(p))
  BY LayerStays
<1>2. QED
  BY <1>1 DEF Brought

LEMMA BringsStays ==
    ASSUME layer' = layer, clients' = clients, crt' = crt, NEW k, actor'[k] = actor[k], Brings(k)
    PROVE  Brings(k)'
<1>1. At(k)' = At(k) /\ Bundle(k)' = Bundle(k) /\ (Wanted(k)' <=> Wanted(k))
  BY AtStays
<1>2. Current' = Current /\ \A p : (InForce(p)' <=> InForce(p)) /\ (Obliged(p)' <=> Obliged(p))
  BY LayerStays
<1>3. \A p : Brought(p)' <=> Brought(p)
  BY BroughtStays
<1>4. [p \in Prints |-> Current[p] # None /\ InForce(Current[p])]'
        = [p \in Prints |-> Current[p] # None /\ InForce(Current[p])]
  BY <1>2
<1>5. QED
  BY <1>1, <1>2, <1>3, <1>4 DEF Brings

\* A step that changes no entitlement, and no one's enrolment: of a caller of the door, say.
LEMMA BesideEnrolment ==
    ASSUME EntInv, NEW k \in Actors, layer' = layer, enrolment' = enrolment, pending' = pending,
           trusted' = trusted, shutOut' = shutOut, disturbed' = disturbed, DOMAIN actor' = Actors,
           \A m \in Actors : m # k => actor'[m] = actor[m],
           ~Applying(k), ~Applying(k)'
    PROVE  Reads' /\ Told' /\ Bundled' /\ BringsAll'
<1>1. \A m \in Actors : Applying(m)' => m # k /\ Applying(m) /\ actor'[m] = actor[m]
  BY DEF Applying
<1>2. \A n : Accepted(n)' <=> Accepted(n)
  BY LayerStays
<1>3. crt' = crt /\ clients' = clients
  BY DEF enrolment
<1>4. Reads'
  BY <1>1, <1>2 DEF EntInv, Reads, FromLayer
<1>5. \A m \in Actors : Applying(m) => m # k /\ Applying(m)' /\ actor'[m] = actor[m]
  BY DEF Applying
<1>6. Told'
  BY <1>3, <1>5 DEF EntInv, Told
<1>7. Bundled'
  BY <1>2, <1>3 DEF EntInv, Bundled
<1>8. BringsAll'
  <2>1. SUFFICES ASSUME NEW m \in Actors \ disturbed', Applying(m)' PROVE Brings(m)'
    BY DEF BringsAll
  <2>2. actor'[m] = actor[m] /\ Brings(m)
    BY <1>1, <2>1 DEF EntInv, BringsAll
  <2>3. QED
    BY <1>3, <2>2, BringsStays
<1>9. QED
  BY <1>4, <1>6, <1>7, <1>8

\* What is said on the layer takes no one's reading of it away, and every apply that is under
\* way has been overtaken.
LEMMA BesideReading ==
    ASSUME EntInv, NEW e \in Entries, Say(e), enrolment' = enrolment, pending' = pending,
           trusted' = trusted, shutOut' = shutOut, \A m \in Actors : Applying(m)' => m \in disturbed',
           \A m \in Actors : Applying(m) \/ Applying(m)' => Applying(m) /\ actor'[m] = actor[m]
    PROVE  Reads' /\ Told' /\ Bundled' /\ BringsAll'
<1>1. layer \in Logs /\ Len(layer) < MaxSaid /\ layer' = Append(layer, e)
  BY DEF EntInv, EntTyped, Say
<1>2. \A n \in DOMAIN layer :
        n \in DOMAIN layer' /\ layer'[n] = layer[n] /\ (Accepted(n)' <=> Accepted(n))
  BY <1>1, LayerGrows
<1>3. crt' = crt /\ clients' = clients
  BY DEF enrolment
<1>4. Reads'
  <2>1. SUFFICES ASSUME NEW m \in Actors, Applying(m)' PROVE FromLayer(actor[m])'
    BY DEF Reads
  <2>2. actor'[m] = actor[m] /\ FromLayer(actor[m])
    BY <2>1 DEF EntInv, Reads
  <2>3. QED
    BY <1>2, <2>2 DEF FromLayer
<1>5. Told'
  <2>1. \A m \in Actors : Applying(m) => Applying(m)' /\ actor'[m] = actor[m]
    BY DEF Applying
  <2>2. QED
    BY <1>3, <2>1 DEF EntInv, Told
<1>6. Bundled'
  BY <1>2, <1>3 DEF EntInv, Bundled
<1>7. BringsAll'
  BY DEF BringsAll
<1>8. QED
  BY <1>4, <1>5, <1>6, <1>7

LEMMA GoesTo ==
    ASSUME EntTyped, NEW k \in Actors, NEW b, Goes(k, b), ActorOK(b)
    PROVE  /\ DOMAIN actor' = Actors /\ actor'[k] = b
           /\ \A m \in Actors : m # k => actor'[m] = actor[m]
           /\ \A m \in Actors : ActorOK(actor'[m])
<1>1. DOMAIN actor = Actors
  BY DEF EntTyped
<1>2. DOMAIN actor' = Actors /\ actor'[k] = b /\ \A m \in Actors : m # k => actor'[m] = actor[m]
  BY <1>1 DEF Goes
<1>3. QED
  BY <1>2 DEF EntTyped

\* An actor that spends nothing goes from a step that spends nothing to another.
LEMMA SpendsNothing ==
    ASSUME EntInv, NEW k \in Actors, store' = store, layer' = layer,
           \A m \in Actors : m # k => actor'[m] = actor[m],
           actor'[k].at \notin {"minting", "checked", "saying", "said", "marked"}
    PROVE  Spending'
<1>1. invites' = invites /\ codes' = codes
  BY DEF store
<1>2. SpentIsSaid'
  BY <1>1 DEF EntInv, Spending, SpentIsSaid
<1>3. Minting'
  BY <1>1 DEF EntInv, Spending, Minting, Doing
<1>4. Answering'
  BY <1>1 DEF EntInv, Spending, Answering
<1>5. QED
  BY <1>2, <1>3, <1>4 DEF Spending

LEMMA EntMint ==
    ASSUME EntInv, NEW k \in Callers, NEW i \in Invites, Mint(k, i)
    PROVE  EntInv'
<1> USE DEF Mint
<1>0. k \in Actors /\ EntTyped
  BY DEF Actors, EntInv
<1>1. PICK b : b = [at |-> "minting", invite |-> i]
  OBVIOUS
<1>2. Goes(k, b) /\ ActorOK(b)
  BY <1>1 DEF ActorOK, ApplyPlaces
<1>3. /\ DOMAIN actor' = Actors /\ actor'[k] = b
      /\ \A m \in Actors : m # k => actor'[m] = actor[m]
      /\ \A m \in Actors : ActorOK(actor'[m])
  BY <1>0, <1>2, GoesTo
<1>4. EntTyped'
  <2>1. TypeOK'
    BY DEF EntInv, EntTyped, TypeOK, enrolment
  <2>2. QED
    BY <1>3, <2>1 DEF EntInv, EntTyped
<1>5. Reads' /\ Told' /\ Bundled' /\ BringsAll'
  <2>1. ~Applying(k) /\ ~Applying(k)'
    BY <1>1, <1>3 DEF Applying, Doing
  <2>2. QED
    BY <1>0, <1>3, <2>1, BesideEnrolment
<1>6. SpentIsSaid'
  BY DEF EntInv, Spending, SpentIsSaid
<1>7. Minting'
  <2>1. \A m \in Actors : Doing(m, "minting") => actor[m].invite # i
    BY DEF EntInv, Spending, Minting
  <2>2. QED
    BY <1>1, <1>3, <2>1 DEF EntInv, Spending, Minting, Doing
<1>8. Answering'
  BY <1>1, <1>3 DEF EntInv, Spending, Answering
<1>9. QED
  BY <1>4, <1>5, <1>6, <1>7, <1>8 DEF EntInv, Spending

LEMMA EntMinted ==
    ASSUME EntInv, NEW k \in Actors, Minted(k)
    PROVE  EntInv'
<1> USE DEF Minted
<1>0. EntTyped /\ Idle.at = "idle"
  BY DEF EntInv, Idle
<1>2. Goes(k, Idle) /\ ActorOK(Idle)
  BY DEF ActorOK, ApplyPlaces, Idle
<1>3. /\ DOMAIN actor' = Actors /\ actor'[k] = Idle
      /\ \A m \in Actors : m # k => actor'[m] = actor[m]
      /\ \A m \in Actors : ActorOK(actor'[m])
  BY <1>0, <1>2, GoesTo
<1> DEFINE i == actor[k].invite
<1>4. /\ i \in Invites /\ invites[i] = NotMinted /\ i \in codes
      /\ \A m \in Actors : Doing(m, "minting") /\ m # k => actor[m].invite # i
  <2>1. ActorOK(actor[k])
    BY DEF EntInv, EntTyped
  <2>2. QED
    BY <2>1 DEF EntInv, Spending, Minting, Doing, ActorOK
<1>5. DOMAIN invites = Invites /\ invites' = [invites EXCEPT ![i] = Open]
  BY DEF EntInv, EntTyped, TypeOK
<1>6. invites'[i] = Open /\ \A j \in Invites : j # i => invites'[j] = invites[j]
  BY <1>4, <1>5
<1>7. EntTyped'
  <2>1. TypeOK'
    BY <1>4, <1>5 DEF EntInv, EntTyped, TypeOK, enrolment
  <2>2. QED
    BY <1>3, <2>1 DEF EntInv, EntTyped
<1>8. Reads' /\ Told' /\ Bundled' /\ BringsAll'
  <2>1. ~Applying(k) /\ ~Applying(k)'
    BY <1>0, <1>3 DEF Applying, Doing
  <2>2. QED
    BY <1>3, <2>1, BesideEnrolment
<1> HIDE DEF i
<1>9. SpentIsSaid'
  BY <1>4, <1>6, RequestsAreTold DEF EntInv, Spending, SpentIsSaid
<1>10. Minting'
  <2>1. \A m \in Actors : m # k /\ Doing(m, "minting") => actor[m].invite \in Invites
    BY DEF EntInv, EntTyped, ActorOK, Doing
  <2>2. QED
    BY <1>0, <1>3, <1>4, <1>6, <2>1 DEF EntInv, Spending, Minting, Doing
<1>11. Answering'
  <2>1. \A j \in Invites : invites[j] # NotMinted => invites'[j] = invites[j]
    BY <1>4, <1>6
  <2>2. ASSUME NEW m \in Actors, m # k
        PROVE  /\ actor[m].at \in {"checked", "said", "marked"} => actor[m].request[2] \in Invites
               /\ actor[m].at = "saying" /\ actor[m].entry.request # NotMinted =>
                    actor[m].entry.request[2] \in Invites
    <3>1. ActorOK(actor[m])
      BY DEF EntInv, EntTyped
    <3>2. QED
      BY <3>1, RequestsAreTold DEF ActorOK, Entries
  <2>3. QED
    BY <1>0, <1>3, <2>1, <2>2 DEF EntInv, Spending, Answering
<1>12. QED
  BY <1>7, <1>8, <1>9, <1>10, <1>11 DEF EntInv, Spending

LEMMA EntExpire ==
    ASSUME EntInv, NEW i \in Invites, Expire(i)
    PROVE  EntInv'
<1> USE DEF Expire
<1>1. EntTyped'
  <2>1. TypeOK'
    BY DEF EntInv, EntTyped, TypeOK, enrolment
  <2>2. QED
    BY <2>1 DEF EntInv, EntTyped
<1>2. Spending'
  BY DEF EntInv, Spending, SpentIsSaid, Minting, Answering, Doing
<1>3. Reads'
  <2>1. \A n : Accepted(n)' <=> Accepted(n)
    BY LayerStays
  <2>2. QED
    BY <2>1 DEF EntInv, Reads, FromLayer, Applying
<1>4. Told' /\ Bundled'
  <2>1. \A n : Accepted(n)' <=> Accepted(n)
    BY LayerStays
  <2>2. QED
    BY <2>1 DEF EntInv, Told, Bundled, enrolment, Applying
<1>5. BringsAll'
  <2>1. SUFFICES ASSUME NEW m \in Actors \ disturbed', Applying(m)' PROVE Brings(m)'
    BY DEF BringsAll
  <2>2. actor'[m] = actor[m] /\ Brings(m)
    BY <2>1 DEF EntInv, BringsAll, Applying
  <2>3. QED
    BY <2>2, BringsStays DEF enrolment
<1>6. QED
  BY <1>1, <1>2, <1>3, <1>4, <1>5 DEF EntInv

\* A caller of the door goes on, and the store is as it was.
LEMMA DoorGoes ==
    ASSUME EntInv, NEW k \in Actors, NEW b, Goes(k, b), ActorOK(b), ~Applying(k),
           b.at \in {"idle", "reading", "checked", "saying"},
           b.at = "checked" => invites[b.request[2]] # NotMinted,
           b.at = "saying" /\ b.entry.request # NotMinted =>
               invites[b.entry.request[2]] # NotMinted,
           UNCHANGED <<layer, store, enrolment, pending, trusted, shutOut, starts, disturbed>>
    PROVE  EntInv'
<1>1. EntTyped
  BY DEF EntInv
<1>2. /\ DOMAIN actor' = Actors /\ actor'[k] = b
      /\ \A m \in Actors : m # k => actor'[m] = actor[m]
      /\ \A m \in Actors : ActorOK(actor'[m])
  BY <1>1, GoesTo
<1>3. EntTyped'
  <2>1. TypeOK'
    BY DEF EntInv, EntTyped, TypeOK, enrolment, store
  <2>2. QED
    BY <1>2, <2>1 DEF EntInv, EntTyped
<1>4. Reads' /\ Told' /\ Bundled' /\ BringsAll'
  <2>1. ~Applying(k)'
    BY <1>2 DEF Applying
  <2>2. QED
    BY <1>2, <2>1, BesideEnrolment
<1>5. invites' = invites /\ codes' = codes
  BY DEF store
<1>6. SpentIsSaid'
  BY <1>5 DEF EntInv, Spending, SpentIsSaid
<1>7. Minting'
  BY <1>2, <1>5 DEF EntInv, Spending, Minting, Doing
<1>8. Answering'
  BY <1>2, <1>5 DEF EntInv, Spending, Answering
<1>9. QED
  BY <1>3, <1>4, <1>6, <1>7, <1>8 DEF EntInv, Spending

LEMMA EntApprove ==
    ASSUME EntInv, NEW k \in Callers, NEW request \in Lobby, Approve(k, request)
    PROVE  EntInv'
<1>1. PICK b : b = [at |-> "checked", request |-> request]
  OBVIOUS
<1>2. k \in Actors /\ Goes(k, b) /\ ActorOK(b) /\ ~Applying(k)
  BY <1>1 DEF Approve, ActorOK, ApplyPlaces, Actors, Applying, Doing
<1>3. invites[b.request[2]] # NotMinted /\ b.at = "checked"
  BY <1>1, NotMintedIsNotOpen DEF Approve, Passes
<1>4. QED
  BY <1>2, <1>3, DoorGoes DEF Approve

LEMMA EntApproveFolds ==
    ASSUME EntInv, NEW k \in Actors, ApproveFolds(k)
    PROVE  EntInv'
<1> DEFINE r == actor[k].request
           e == [print |-> r[1], name |-> NameOf[r[2]], gives |-> GivesOf[r[2]], request |-> r,
                 supersedes |-> Current[r[1]]]
<1>1. PICK b : b = [at |-> "saying", entry |-> e]
  OBVIOUS
<1>2. r \in Lobby /\ r[1] \in Prints /\ r[2] \in Invites /\ invites[r[2]] # NotMinted
  <2>1. ActorOK(actor[k])
    BY DEF EntInv, EntTyped
  <2>2. actor[k].at = "checked"
    BY DEF ApproveFolds, Doing
  <2>3. r \in Lobby /\ invites[r[2]] # NotMinted
    BY <2>1, <2>2 DEF ActorOK, EntInv, Spending, Answering
  <2>4. QED
    BY <2>3, RequestsAreTold
<1>3. Current[r[1]] \in 0 .. MaxSaid
  <2>1. Current \in [Prints -> 0 .. Len(layer)] /\ Len(layer) \in Nat /\ Len(layer) <= MaxSaid
    BY LayerFolds DEF EntInv, EntTyped, Logs
  <2>2. \A q \in Prints : Current[q] \in 0 .. MaxSaid
    BY <2>1, EntitlementConstants
  <2>3. QED
    BY <1>2, <2>2
<1>4. e \in Entries
  BY <1>2, <1>3, EntitlementConstants DEF Entries, Gives
<1>5. Goes(k, b) /\ ~Applying(k)
  BY <1>1 DEF ApproveFolds, Applying, Doing
<1> HIDE DEF e
<1>6. b.at = "saying" /\ b.entry = e /\ ActorOK(b)
  BY <1>1, <1>4 DEF ActorOK, ApplyPlaces
<1>7. e.request = r
  BY DEF e
<1>8. QED
  BY <1>2, <1>5, <1>6, <1>7, DoorGoes DEF ApproveFolds

LEMMA EntRevoke ==
    ASSUME EntInv, NEW k \in Callers, NEW p \in Prints, Revoke(k, p)
    PROVE  EntInv'
<1> DEFINE c == layer[Current[p]]
           e == [c EXCEPT !.gives = "none", !.request = NotMinted, !.supersedes = Current[p]]
<1>1. PICK b : b = [at |-> "saying", entry |-> e]
  OBVIOUS
<1>2. Current[p] \in DOMAIN layer /\ Current[p] \in 0 .. MaxSaid
  <2>1. /\ Current \in [Prints -> 0 .. Len(layer)] /\ Len(layer) \in Nat /\ Len(layer) <= MaxSaid
        /\ Current[p] # None => Current[p] \in DOMAIN layer
    BY LayerFolds DEF EntInv, EntTyped, Logs
  <2>2. QED
    BY <2>1, EntitlementConstants DEF Revoke
<1>3. c \in Entries
  BY <1>2 DEF EntInv, EntTyped, Logs
<1> HIDE DEF c
<1>4. e \in Entries /\ e.request = NotMinted
  BY <1>2, <1>3 DEF Entries, Gives
<1>5. k \in Actors /\ Goes(k, b) /\ ~Applying(k)
  BY <1>1 DEF Revoke, Applying, Doing, Actors, NotMinted, c
<1> HIDE DEF e
<1>6. b.at = "saying" /\ b.entry = e /\ ActorOK(b)
  BY <1>1, <1>4 DEF ActorOK, ApplyPlaces
<1>7. QED
  BY <1>4, <1>5, <1>6, DoorGoes DEF Revoke

LEMMA EntApply ==
    ASSUME EntInv, NEW k \in Actors, Apply(k) \/ FoldFails(k)
    PROVE  EntInv'
<1>1. PICK b : b = [at |-> IF Apply(k) THEN "reading" ELSE "idle"]
  OBVIOUS
<1>2. Goes(k, b) /\ b.at \in {"reading", "idle"}
  BY <1>1 DEF Apply, FoldFails, Doing, Idle
<1>3. ~Applying(k) /\ ActorOK(b)
  BY <1>2 DEF Apply, FoldFails, Doing, Applying, ActorOK, ApplyPlaces
<1>4. QED
  BY <1>2, <1>3, DoorGoes DEF Apply, FoldFails

LEMMA EntSaySigned ==
    ASSUME EntInv, NEW k \in Actors, SaySigned(k)
    PROVE  EntInv'
<1> USE DEF SaySigned
<1> DEFINE e == actor[k].entry
<1>1. PICK b : b = IF e.request = <<>> THEN [at |-> "reading"]
                   ELSE [at |-> "said", request |-> e.request]
  OBVIOUS
<1>2. e \in Entries /\ actor[k].at = "saying"
  <2>1. ActorOK(actor[k]) /\ actor[k].at = "saying"
    BY DEF EntInv, EntTyped, Doing
  <2>2. QED
    BY <2>1 DEF ActorOK
<1>3. e.request \in Lobby \cup {NotMinted}
  BY <1>2 DEF Entries
<1>4. Goes(k, b) /\ ~Applying(k) /\ b.at \in {"reading", "said"} /\ ActorOK(b)
  BY <1>1, <1>2, <1>3 DEF Applying, ActorOK, ApplyPlaces, NotMinted
<1>5. b.at = "said" => b.request = e.request /\ e.request # NotMinted
  BY <1>1 DEF NotMinted
<1>6. EntTyped
  BY DEF EntInv
<1>7. /\ DOMAIN actor' = Actors /\ actor'[k] = b
      /\ \A m \in Actors : m # k => actor'[m] = actor[m]
      /\ \A m \in Actors : ActorOK(actor'[m])
  BY <1>4, <1>6, GoesTo
<1>8. layer \in Logs /\ Len(layer) < MaxSaid /\ layer' = Append(layer, e)
  BY <1>6 DEF EntTyped, Say
<1>9. /\ layer' \in Logs /\ Len(layer)' <= MaxSaid
      /\ \A n \in DOMAIN layer : n \in DOMAIN layer' /\ layer'[n] = layer[n]
      /\ \E n \in DOMAIN layer' : layer'[n] = e
  <2>1. PICK x : x = e
    OBVIOUS
  <2>2. x \in Entries /\ layer' = Append(layer, x)
    BY <1>2, <1>8, <2>1
  <2>3. /\ layer' \in Logs /\ Len(layer)' <= MaxSaid
        /\ \A n \in DOMAIN layer : n \in DOMAIN layer' /\ layer'[n] = layer[n]
        /\ \E n \in DOMAIN layer' : layer'[n] = x
    BY <1>8, <2>2, LayerGrows
  <2>4. QED
    BY <2>1, <2>3
<1>10. EntTyped'
  <2>1. TypeOK'
    BY <1>6, <1>9 DEF EntTyped, TypeOK, enrolment, store
  <2>2. QED
    BY <1>7, <1>9, <2>1 DEF EntTyped
<1>11. Reads' /\ Told' /\ Bundled' /\ BringsAll'
  <2>1. ~Applying(k)'
    BY <1>4, <1>7 DEF Applying
  <2>2. \A m \in Actors : Applying(m) \/ Applying(m)' => Applying(m) /\ actor'[m] = actor[m]
    BY <1>4, <1>7, <2>1 DEF Applying
  <2>3. \A m \in Actors : Applying(m)' => m \in disturbed'
    BY <2>1, <2>2 DEF Overtakes
  <2>4. PICK x : x = e
    OBVIOUS
  <2>5. x \in Entries /\ Say(x)
    BY <1>2, <2>4
  <2> HIDE DEF e
  <2>6. QED
    BY <2>2, <2>3, <2>5, BesideReading
<1>12. invites' = invites /\ codes' = codes
  BY DEF store
<1>13. SpentIsSaid'
  BY <1>9, <1>12 DEF EntInv, Spending, SpentIsSaid
<1>14. Minting'
  BY <1>4, <1>7, <1>12 DEF EntInv, Spending, Minting, Doing
<1>15. Answering'
  <2>1. e.request # NotMinted => invites[e.request[2]] # NotMinted
    BY <1>2 DEF EntInv, Spending, Answering
  <2>2. \E n \in DOMAIN layer' : layer'[n].request = e.request
    BY <1>9
  <2> HIDE DEF e
  <2>3. SUFFICES ASSUME NEW m \in Actors
        PROVE
        /\ actor'[m].at \in {"checked", "said", "marked"} => invites'[actor'[m].request[2]] # NotMinted
        /\ actor'[m].at = "saying" /\ actor'[m].entry.request # NotMinted =>
             invites'[actor'[m].entry.request[2]] # NotMinted
        /\ actor'[m].at \in {"said", "marked"} =>
             \E n \in DOMAIN layer' : layer'[n].request = actor'[m].request
        /\ actor'[m].at = "marked" => invites'[actor'[m].request[2]] # Open
    BY Zenon DEF Answering
  <2>4. CASE m = k
    BY <1>4, <1>5, <1>7, <1>12, <2>1, <2>2, <2>4
  <2>5. CASE m # k
    BY <1>7, <1>9, <1>12, <2>5 DEF EntInv, Spending, Answering
  <2>6. QED
    BY <2>4, <2>5
<1>16. QED
  BY <1>10, <1>11, <1>13, <1>14, <1>15 DEF EntInv, Spending

LEMMA EntReplay ==
    ASSUME EntInv, NEW n \in DOMAIN layer, Replay(n)
    PROVE  EntInv'
<1> USE DEF Replay
<1>1. PICK e : e = layer[n]
  OBVIOUS
<1>2. EntTyped /\ layer \in Logs /\ e \in Entries
  BY <1>1 DEF EntInv, EntTyped, Logs
<1>3. Len(layer) < MaxSaid /\ layer' = Append(layer, e) /\ Say(e)
  BY <1>1 DEF Say
<1>4. /\ layer' \in Logs /\ Len(layer)' <= MaxSaid
      /\ \A i \in DOMAIN layer : i \in DOMAIN layer' /\ layer'[i] = layer[i]
  BY <1>2, <1>3, LayerGrows
<1>5. EntTyped'
  <2>1. TypeOK'
    BY <1>2, <1>4 DEF EntTyped, TypeOK, enrolment, store
  <2>2. QED
    BY <1>2, <1>4, <2>1 DEF EntTyped
<1>6. Reads' /\ Told' /\ Bundled' /\ BringsAll'
  <2>1. \A m \in Actors : Applying(m)' <=> Applying(m)
    BY DEF Applying
  <2>2. \A m \in Actors : Applying(m)' => m \in disturbed'
    BY <2>1
  <2>3. QED
    BY <1>2, <1>3, <2>1, <2>2, BesideReading
<1>7. SpentIsSaid'
  BY <1>4 DEF EntInv, Spending, SpentIsSaid, store
<1>8. Minting'
  BY DEF EntInv, Spending, Minting, Doing, store
<1>9. Answering'
  BY <1>4 DEF EntInv, Spending, Answering, store
<1>10. QED
  BY <1>5, <1>6, <1>7, <1>8, <1>9 DEF EntInv, Spending

LEMMA EntMarkUsed ==
    ASSUME EntInv, NEW k \in Actors, MarkUsed(k)
    PROVE  EntInv'
<1> USE DEF MarkUsed
<1>1. PICK b : b = [actor[k] EXCEPT !.at = "marked"]
  OBVIOUS
<1>2. PICK r : r = actor[k].request
  OBVIOUS
<1>3. actor[k].at = "said" /\ actor[k] \in [at : {"checked", "said", "marked"}, request : Lobby]
  <2>1. ActorOK(actor[k]) /\ actor[k].at = "said"
    BY DEF EntInv, EntTyped, Doing
  <2>2. QED
    BY <2>1 DEF ActorOK
<1>4. r \in Lobby /\ b.at = "marked" /\ b.request = r /\ ActorOK(b)
  BY <1>1, <1>2, <1>3 DEF ActorOK, ApplyPlaces
<1>5. r[2] \in Invites /\ r # NotMinted /\ r # Open
  BY <1>4, RequestsAreTold
<1>6. EntTyped /\ Goes(k, b)
  BY <1>1 DEF EntInv
<1>7. /\ DOMAIN actor' = Actors /\ actor'[k] = b
      /\ \A m \in Actors : m # k => actor'[m] = actor[m]
      /\ \A m \in Actors : ActorOK(actor'[m])
  BY <1>4, <1>6, GoesTo
<1>8. invites' = [invites EXCEPT ![r[2]] = r]
  BY <1>2
<1>9. /\ invites'[r[2]] = r
      /\ \A j \in Invites : j # r[2] => invites'[j] = invites[j]
  BY <1>5, <1>8 DEF EntInv, EntTyped, TypeOK
<1>10. EntTyped'
  <2>1. TypeOK'
    BY <1>4, <1>8 DEF EntInv, EntTyped, TypeOK, enrolment
  <2>2. QED
    BY <1>7, <2>1 DEF EntInv, EntTyped
<1>11. Reads' /\ Told' /\ Bundled' /\ BringsAll'
  <2>1. ~Applying(k) /\ ~Applying(k)'
    BY <1>3, <1>4, <1>7 DEF Applying
  <2>2. QED
    BY <1>7, <2>1, BesideEnrolment
<1>12. /\ \E n \in DOMAIN layer : layer[n].request = r
       /\ invites[r[2]] # NotMinted
  BY <1>2, <1>3 DEF EntInv, Spending, Answering
<1>13. SpentIsSaid'
  BY <1>5, <1>9, <1>12 DEF EntInv, Spending, SpentIsSaid
<1>14. Minting'
  <2>1. \A m \in Actors : Doing(m, "minting") => actor[m].invite # r[2] /\ actor[m].invite \in Invites
    BY <1>12 DEF EntInv, Spending, Minting, EntTyped, ActorOK, Doing
  <2>2. QED
    BY <1>4, <1>7, <1>9, <2>1 DEF EntInv, Spending, Minting, Doing
<1>15. Answering'
  <2>1. SUFFICES ASSUME NEW m \in Actors
        PROVE
        /\ actor'[m].at \in {"checked", "said", "marked"} => invites'[actor'[m].request[2]] # NotMinted
        /\ actor'[m].at = "saying" /\ actor'[m].entry.request # NotMinted =>
             invites'[actor'[m].entry.request[2]] # NotMinted
        /\ actor'[m].at \in {"said", "marked"} =>
             \E n \in DOMAIN layer' : layer'[n].request = actor'[m].request
        /\ actor'[m].at = "marked" => invites'[actor'[m].request[2]] # Open
    BY Zenon DEF Answering
  <2>2. CASE m = k
    BY <1>4, <1>5, <1>7, <1>9, <1>12, <2>2
  <2>3. CASE m # k
    <3>1. \A j \in Invites : /\ invites[j] # NotMinted => invites'[j] # NotMinted
                             /\ invites[j] # Open => invites'[j] # Open
      BY <1>5, <1>9
    <3>2. ActorOK(actor[m]) /\ actor'[m] = actor[m]
      BY <1>7, <2>3 DEF EntInv, EntTyped
    <3>3. /\ actor[m].at \in {"checked", "said", "marked"} => actor[m].request[2] \in Invites
          /\ actor[m].at = "saying" /\ actor[m].entry.request # NotMinted =>
                actor[m].entry.request[2] \in Invites
      BY <3>2, RequestsAreTold DEF ActorOK, Entries
    <3>4. QED
      BY <3>1, <3>2, <3>3 DEF EntInv, Spending, Answering
  <2>4. QED
    BY <2>2, <2>3
<1>16. QED
  BY <1>10, <1>11, <1>13, <1>14, <1>15 DEF EntInv, Spending

LEMMA EntForgetCode ==
    ASSUME EntInv, NEW k \in Actors, ForgetCode(k)
    PROVE  EntInv'
<1> USE DEF ForgetCode
<1>1. PICK b : b = [at |-> "reading"]
  OBVIOUS
<1>2. PICK i : i = actor[k].request[2]
  OBVIOUS
<1>3. EntTyped /\ Goes(k, b) /\ ActorOK(b) /\ b.at = "reading"
  BY <1>1 DEF EntInv, ActorOK, ApplyPlaces
<1>4. /\ DOMAIN actor' = Actors /\ actor'[k] = b
      /\ \A m \in Actors : m # k => actor'[m] = actor[m]
      /\ \A m \in Actors : ActorOK(actor'[m])
  BY <1>3, GoesTo
<1>5. EntTyped'
  <2>1. TypeOK'
    BY <1>3 DEF EntTyped, TypeOK, enrolment
  <2>2. QED
    BY <1>3, <1>4, <2>1 DEF EntTyped
<1>6. Reads' /\ Told' /\ Bundled' /\ BringsAll'
  <2>1. ~Applying(k) /\ ~Applying(k)'
    BY <1>3, <1>4 DEF Applying, Doing
  <2>2. QED
    BY <1>4, <2>1, BesideEnrolment
<1>7. invites[i] # NotMinted /\ invites[i] # Open
  BY <1>2 DEF EntInv, Spending, Answering, Doing
<1>8. codes' = codes \ {i} /\ invites' = invites
  BY <1>2
<1>9. SpentIsSaid'
  BY <1>7, <1>8 DEF EntInv, Spending, SpentIsSaid
<1>10. Minting'
  <2>1. \A m \in Actors : Doing(m, "minting") => actor[m].invite # i
    BY <1>7 DEF EntInv, Spending, Minting
  <2>2. QED
    BY <1>3, <1>4, <1>8, <2>1 DEF EntInv, Spending, Minting, Doing
<1>11. Answering'
  BY <1>3, <1>4, <1>8 DEF EntInv, Spending, Answering
<1>12. QED
  BY <1>5, <1>6, <1>9, <1>10, <1>11 DEF EntInv, Spending

-----------------------------------------------------------------------------
(* The steps of an apply.                                                   *)

\* Of a step of k's apply: what the others have, and what the one before gives.
LoopStep(k, b) ==
    /\ Goes(k, b) /\ layer' = layer /\ store' = store /\ trusted' = trusted /\ shutOut' = shutOut
    /\ pending' = pending
    /\ Applying(k) /\ b \in Applies
    /\ b.current = actor[k].current /\ b.ours = actor[k].ours /\ b.stands = actor[k].stands
    /\ b.left \subseteq actor[k].left /\ (b.at # "next" => b.left # {})
    /\ actor[k].newly => b.newly

\* All that is the same for every step of an apply.
LEMMA LoopKeeps ==
    ASSUME EntInv, NEW k \in Actors, NEW b, LoopStep(k, b)
    PROVE  /\ DOMAIN actor' = Actors /\ actor'[k] = b
           /\ \A m \in Actors : m # k => actor'[m] = actor[m]
           /\ \A m \in Actors : ActorOK(actor'[m])
           /\ layer' \in Logs
           /\ Reads' /\ Spending'
<1>1. EntTyped
  BY DEF EntInv
<1>2. ActorOK(b)
  BY DEF LoopStep, Applies, ActorOK, ApplyPlaces
<1>3. /\ DOMAIN actor' = Actors /\ actor'[k] = b
      /\ \A m \in Actors : m # k => actor'[m] = actor[m]
      /\ \A m \in Actors : ActorOK(actor'[m])
  BY <1>1, <1>2, GoesTo DEF LoopStep
<1>4. Spending'
  <2>1. b.at \in ApplyPlaces
    BY DEF LoopStep, Applies
  <2>2. actor'[k].at \notin {"minting", "checked", "saying", "said", "marked"}
    BY <1>3, <2>1 DEF ApplyPlaces
  <2>3. QED
    BY <1>3, <2>2, SpendsNothing DEF LoopStep
<1>5. Reads'
  <2>1. layer' = layer /\ \A n : Accepted(n)' <=> Accepted(n)
    BY LayerStays DEF LoopStep
  <2>2. FromLayer(actor[k]) /\ b.left \subseteq actor[k].left /\ b.current = actor[k].current
    BY DEF LoopStep, EntInv, Reads
  <2>3. FromLayer(actor[k])'
    BY <1>3, <2>1, <2>2 DEF FromLayer, LoopStep
  <2>4. ASSUME NEW m \in Actors, m # k, Applying(m)' PROVE FromLayer(actor[m])'
    <3>1. actor'[m] = actor[m] /\ FromLayer(actor[m])
      BY <1>3, <2>4 DEF EntInv, Reads, Applying
    <3>2. QED
      BY <2>1, <3>1 DEF FromLayer
  <2>5. QED
    BY <2>3, <2>4 DEF Reads
<1>6. QED
  BY <1>1, <1>3, <1>4, <1>5 DEF EntTyped, LoopStep

\* A step that leaves the enrolment, or changes it and so overtakes every other apply.
LEMMA LoopOthers ==
    ASSUME EntInv, NEW k \in Actors, NEW b, LoopStep(k, b),
           \/ enrolment' = enrolment /\ disturbed \ {k} \subseteq disturbed'
           \/ Overtakes(k),
           NEW m \in Actors \ disturbed', m # k, Applying(m)'
    PROVE  Brings(m)'
<1>1. actor'[m] = actor[m] /\ Applying(m)
  BY LoopKeeps DEF Applying
<1>2. enrolment' = enrolment /\ m \notin disturbed
  BY <1>1 DEF Overtakes
<1>3. Brings(m)
  BY <1>1, <1>2 DEF EntInv, BringsAll
<1>4. QED
  BY <1>1, <1>2, <1>3, BringsStays DEF LoopStep, enrolment

\* A step that leaves the bundles, or empties one.
LEMMA LoopBundles ==
    ASSUME EntInv, NEW k \in Actors, NEW b, LoopStep(k, b),
           \A n \in Names : crt'[n] = crt[n] \/ crt'[n] = None
    PROVE  Told' /\ Bundled'
<1>1. /\ actor'[k] = b /\ \A m \in Actors : m # k => actor'[m] = actor[m]
      /\ Applying(k)'
  BY LoopKeeps DEF LoopStep, Applies, Applying, ApplyPlaces
<1>2. \A m \in Actors : Applying(m) /\ actor[m].newly => Applying(m)' /\ actor'[m].newly
  BY <1>1 DEF LoopStep, Applying
<1>3. Told'
  BY <1>2 DEF LoopStep, EntInv, Told
<1>4. Bundled'
  BY LayerStays DEF LoopStep, EntInv, Bundled
<1>5. QED
  BY <1>3, <1>4

\* What an undisturbed apply is at.
LEMMA LoopMeans ==
    ASSUME EntInv, NEW k \in Actors \ disturbed, Applying(k), actor[k].left # {}
    PROVE  /\ At(k) \in actor[k].left /\ At(k) \in Prints /\ Current[At(k)] # None
           /\ Bundle(k) = Name(At(k)) /\ Bundle(k) \in Names /\ (Wanted(k) <=> Enrols(At(k)))
           /\ \A p \in actor[k].left : At(k) <= p
           /\ \A p \in Prints \ actor[k].left : Current[p] # None => p < At(k)
<1>1. Brings(k) /\ EntTyped /\ Reads
  BY DEF EntInv, BringsAll
<1>2. /\ At(k) \in actor[k].left /\ At(k) \in Prints
      /\ \A q \in actor[k].left : At(k) <= q
      /\ actor[k].current[At(k)] # None /\ Bundle(k) \in Names
  BY <1>1, AtIsLeast
<1>3. /\ actor[k].current = Current
      /\ actor[k].stands = [p \in Prints |-> Current[p] # None /\ InForce(Current[p])]
      /\ \A p \in Prints \ actor[k].left : Current[p] # None => \A q \in actor[k].left : p < q
  BY <1>1 DEF Brings
<1>4. Entry(k) = layer[Current[At(k)]]
  BY <1>3 DEF Entry
<1>5. Wanted(k) <=> Enrols(At(k))
  BY <1>2, <1>3, <1>4 DEF Wanted, Enrols
<1>6. Bundle(k) = Name(At(k))
  BY <1>4 DEF Bundle, Name
<1>7. QED
  BY <1>2, <1>3, <1>5, <1>6

LEMMA BroughtMeans ==
    /\ \A p : Brought(p) <=> /\ Obliged(p) => clients[p] = Name(p) /\ crt[Name(p)] = p
                             /\ ~Enrols(p) => clients[p] = NoGrant
    /\ layer' = layer =>
         \A p : Brought(p)' <=> /\ Obliged(p) => clients'[p] = Name(p) /\ crt'[Name(p)] = p
                                /\ ~Enrols(p) => clients'[p] = NoGrant
<1>1. \A p : Brought(p) <=> /\ Obliged(p) => clients[p] = Name(p) /\ crt[Name(p)] = p
                            /\ ~Enrols(p) => clients[p] = NoGrant
  BY DEF Brought, Obliged
<1>2. ASSUME layer' = layer
      PROVE  \A p : Brought(p)' <=> /\ Obliged(p) => clients'[p] = Name(p) /\ crt'[Name(p)] = p
                                    /\ ~Enrols(p) => clients'[p] = NoGrant
  <2>1. \A p : Brought(p)' <=> /\ Obliged(p)' => clients'[p] = Name(p)' /\ crt'[Name(p)'] = p
                               /\ ~Enrols(p)' => clients'[p] = NoGrant
    BY DEF Brought, Obliged
  <2>2. \A p : /\ (Enrols(p)' <=> Enrols(p)) /\ Name(p)' = Name(p) /\ (Obliged(p)' <=> Obliged(p))
    BY <1>2, LayerStays
  <2>3. QED
    BY <2>1, <2>2
<1>3. QED
  BY <1>1, <1>2

LEMMA LoopEnds ==
    ASSUME EntInv, NEW k \in Actors, NEW b, LoopStep(k, b),
           \/ enrolment' = enrolment /\ disturbed \ {k} \subseteq disturbed'
           \/ Overtakes(k),
           clients' \in [Prints -> Names \cup {NoGrant}], crt' \in [Names -> Prints \cup {None}],
           Told', Bundled', k \notin disturbed' => Brings(k)'
    PROVE  EntInv'
<1>1. /\ DOMAIN actor' = Actors /\ \A m \in Actors : ActorOK(actor'[m])
      /\ layer' \in Logs /\ Reads' /\ Spending'
  BY LoopKeeps
<1>2. TypeOK'
  BY DEF EntInv, EntTyped, TypeOK, LoopStep, store
<1>3. BringsAll'
  <2>1. SUFFICES ASSUME NEW m \in Actors \ disturbed', Applying(m)' PROVE Brings(m)'
    BY DEF BringsAll
  <2>2. CASE m = k
    BY <2>2
  <2>3. CASE m # k
    BY <2>1, <2>3, LoopOthers
  <2>4. QED
    BY <2>2, <2>3
<1>4. QED
  BY <1>1, <1>2, <1>3 DEF EntInv, EntTyped

\* An apply goes on with the fingerprint it is at.
LEMMA LoopGoesOn ==
    ASSUME EntInv, NEW k \in Actors \ disturbed, NEW b, LoopStep(k, b),
           b.left = actor[k].left,
           \A p \in Prints \ b.left : Current[p] # None /\ Brought(p) => Brought(p)',
           \A p \in b.left : clients[p] = NoGrant => clients'[p] = NoGrant,
           b.at = "adding" => Wanted(k) /\ b.rotate = (crt'[Bundle(k)] # None),
           b.at \in {"added", "enrolling"} => Wanted(k) /\ crt'[Bundle(k)] = At(k),
           b.at = "added" => \A p \in Prints \ b.left : Obliged(p) => p # b.replaced,
           b.at \in {"removing", "unbundling"} => ~Wanted(k),
           b.at = "unbundling" => clients'[At(k)] = NoGrant
    PROVE  Brings(k)'
<1>1. actor'[k] = b /\ layer' = layer
  BY LoopKeeps DEF LoopStep
<1>2. At(k)' = At(k) /\ Bundle(k)' = Bundle(k) /\ (Wanted(k)' <=> Wanted(k))
  BY <1>1, AtStays DEF LoopStep
<1>3. Current' = Current /\ \A p : (InForce(p)' <=> InForce(p)) /\ (Obliged(p)' <=> Obliged(p))
  BY <1>1, LayerStays
<1>4. Brings(k)
  BY DEF EntInv, BringsAll, LoopStep
<1>5. b.current = Current' /\ b.stands = [p \in Prints |-> Current'[p] # None /\ InForce(Current[p])']
  BY <1>3, <1>4 DEF Brings, LoopStep
<1>6. \A p \in b.left : b.ours[p] = NoGrant => clients'[p] = NoGrant
  BY <1>4 DEF Brings, LoopStep
<1>7. \A p \in Prints \ b.left : Current'[p] # None => (\A q \in b.left : p < q) /\ Brought(p)'
  BY <1>3, <1>4 DEF Brings
<1>8. QED
  BY <1>1, <1>2, <1>3, <1>5, <1>6, <1>7 DEF Brings

\* An apply is done with the fingerprint it is at.
LEMMA LoopIsDone ==
    ASSUME EntInv, NEW k \in Actors \ disturbed, NEW b, LoopStep(k, b), actor[k].left # {},
           b.at = "next", b.left = actor[k].left \ {At(k)},
           \A p \in Prints \ actor[k].left : Current[p] # None /\ Brought(p) => Brought(p)',
           \A p \in b.left : clients[p] = NoGrant => clients'[p] = NoGrant,
           \A p \in Prints : p = At(k) => Brought(p)'
    PROVE  Brings(k)'
<1>1. actor'[k] = b /\ layer' = layer /\ Applying(k)
  BY LoopKeeps DEF LoopStep
<1>2. Current' = Current /\ \A p : InForce(p)' <=> InForce(p)
  BY <1>1, LayerStays
<1>3. Brings(k)
  BY <1>1 DEF EntInv, BringsAll
<1>4. b.current = Current' /\ b.stands = [p \in Prints |-> Current'[p] # None /\ InForce(Current[p])']
  BY <1>2, <1>3 DEF Brings, LoopStep
<1>5. \A p \in b.left : b.ours[p] = NoGrant => clients'[p] = NoGrant
  BY <1>3 DEF Brings, LoopStep
<1>6. /\ At(k) \in Prints /\ \A p \in actor[k].left : At(k) <= p
      /\ actor[k].left \subseteq Nat
  <2>1. actor[k] \in Applies
    BY <1>1 DEF EntInv, EntTyped, ActorOK, Applying, ApplyPlaces
  <2>2. actor[k].left \in SUBSET Prints /\ Prints \subseteq Nat
    BY <2>1, EntitlementConstants DEF Applies
  <2>3. QED
    BY <1>1, <2>2, LoopMeans
<1>7. \A p \in Prints \ b.left : Current'[p] # None => (\A q \in b.left : p < q) /\ Brought(p)'
  <2>1. \A q \in b.left : At(k) < q
    <3>1. At(k) \in Nat
      BY <1>6, EntitlementConstants
    <3>2. \A q \in b.left : q \in Nat /\ q # At(k) /\ At(k) <= q
      BY <1>6
    <3>3. QED
      BY <3>1, <3>2
  <2>2. \A p \in Prints \ b.left : p = At(k) \/ p \notin actor[k].left
    OBVIOUS
  <2>3. QED
    BY <1>2, <1>3, <2>1, <2>2 DEF Brings
<1>8. QED
  BY <1>1, <1>4, <1>5, <1>7 DEF Brings

\* The record an apply goes on with, and the one it is done with.
LEMMA LoopRecord ==
    ASSUME EntInv, NEW k \in Actors, Applying(k), NEW t \in ApplyPlaces
    PROVE  \A b : b = [actor[k] EXCEPT !.at = t] =>
             /\ b \in Applies /\ b.at = t /\ b.left = actor[k].left
             /\ b.current = actor[k].current /\ b.ours = actor[k].ours
             /\ b.stands = actor[k].stands /\ b.newly = actor[k].newly
             /\ b.rotate = actor[k].rotate /\ b.replaced = actor[k].replaced
<1>1. actor[k] \in Applies
  BY DEF EntInv, EntTyped, ActorOK, Applying, ApplyPlaces
<1>2. QED
  BY <1>1 DEF Applies

LEMMA DoneRecord ==
    ASSUME EntInv, NEW k \in Actors, Applying(k)
    PROVE  \A b : b = Done(k) =>
             /\ b \in Applies /\ b.at = "next" /\ b.left = actor[k].left \ {At(k)}
             /\ b.current = actor[k].current /\ b.ours = actor[k].ours
             /\ b.stands = actor[k].stands /\ b.newly = actor[k].newly
<1>1. actor[k] \in Applies
  BY DEF EntInv, EntTyped, ActorOK, Applying, ApplyPlaces
<1>2. PICK a, S : a = actor[k] /\ S = actor[k].left \ {At(k)}
  OBVIOUS
<1>3. Done(k) = [a EXCEPT !.at = "next", !.left = S] /\ a \in Applies
  BY <1>1, <1>2 DEF Done
<1>4. S \in SUBSET Prints
  BY <1>1, <1>2 DEF Applies
<1>5. ASSUME NEW b, b = [a EXCEPT !.at = "next", !.left = S]
      PROVE  /\ b \in Applies /\ b.at = "next" /\ b.left = S
             /\ b.current = a.current /\ b.ours = a.ours
             /\ b.stands = a.stands /\ b.newly = a.newly
  BY <1>3, <1>4, <1>5 DEF Applies, ApplyPlaces
<1>6. QED
  BY <1>2, <1>3, <1>5

\* A step that takes the next fingerprint and changes nothing that is enrolled.
LEMMA TakeKeeps ==
    ASSUME EntInv, NEW k \in Actors, NEW guard, NEW b, Take(k, guard, b),
           b \in Applies, b.current = actor[k].current, b.ours = actor[k].ours,
           b.stands = actor[k].stands, b.newly = actor[k].newly, b.left \subseteq actor[k].left,
           b.at # "next" => b.left # {},
           k \notin disturbed => Brings(k)'
    PROVE  EntInv'
<1>1. LoopStep(k, b) /\ enrolment' = enrolment /\ disturbed' = disturbed
  BY DEF Take, LoopStep, Applying, Doing
<1>2. clients' = clients /\ crt' = crt
  BY <1>1 DEF enrolment
<1>3. Told' /\ Bundled'
  BY <1>1, <1>2, LoopBundles
<1>4. clients' \in [Prints -> Names \cup {NoGrant}] /\ crt' \in [Names -> Prints \cup {None}]
  BY <1>2 DEF EntInv, EntTyped, TypeOK
<1>5. QED
  BY <1>1, <1>3, <1>4, LoopEnds

LEMMA EntUnchanged ==
    ASSUME EntInv, NEW k \in Actors, Unchanged(k) \/ NotOurs(k)
    PROVE  EntInv'
<1>1. PICK b : b = Done(k)
  OBVIOUS
<1>2. PICK guard : guard = IF Unchanged(k)
                           THEN Wanted(k) /\ crt[Bundle(k)] = At(k) /\ clients[At(k)] = Bundle(k)
                           ELSE ~Wanted(k) /\ actor[k].ours[At(k)] = NoGrant
  OBVIOUS
<1>3. Take(k, guard, b)
  BY <1>1, <1>2 DEF Unchanged, NotOurs, Take
<1>4. Applying(k) /\ actor[k].left # {} /\ guard
  BY <1>3 DEF Take, Applying, Doing
<1>5. /\ b \in Applies /\ b.at = "next" /\ b.left = actor[k].left \ {At(k)}
      /\ b.current = actor[k].current /\ b.ours = actor[k].ours
      /\ b.stands = actor[k].stands /\ b.newly = actor[k].newly
  BY <1>1, <1>4, DoneRecord
<1>6. ASSUME k \notin disturbed PROVE Brings(k)'
  <2>1. /\ At(k) \in actor[k].left /\ At(k) \in Prints /\ Bundle(k) = Name(At(k))
        /\ (Wanted(k) <=> Enrols(At(k)))
    BY <1>4, <1>6, LoopMeans
  <2>2. LoopStep(k, b) /\ layer' = layer /\ clients' = clients /\ crt' = crt
    BY <1>3, <1>5 DEF Take, LoopStep, Applying, Doing, enrolment
  <2>3. \A p : Brought(p)' <=> Brought(p)
    BY <2>2, BroughtStays
  <2>4. Brought(At(k))
    <3>1. CASE Unchanged(k)
      BY <1>2, <1>4, <2>1, <3>1, BroughtMeans DEF Obliged
    <3>2. CASE ~Unchanged(k)
      <4>1. ~Enrols(At(k)) /\ actor[k].ours[At(k)] = NoGrant
        BY <1>2, <1>4, <2>1, <3>2
      <4>2. clients[At(k)] = NoGrant
        BY <1>4, <1>6, <2>1, <4>1 DEF EntInv, BringsAll, Brings
      <4>3. QED
        BY <4>1, <4>2 DEF Brought
    <3>3. QED
      BY <3>1, <3>2
  <2>5. QED
    BY <1>4, <1>5, <1>6, <2>2, <2>3, <2>4, LoopIsDone
<1>7. QED
  BY <1>3, <1>5, <1>6, TakeKeeps

LEMMA EntTrusts ==
    ASSUME EntInv, NEW k \in Actors, Trusts(k)
    PROVE  EntInv'
<1>1. PICK b : b = [actor[k] EXCEPT !.at = "enrolling"]
  OBVIOUS
<1>2. PICK guard : guard = (Wanted(k) /\ crt[Bundle(k)] = At(k) /\ clients[At(k)] # Bundle(k))
  OBVIOUS
<1>3. Take(k, guard, b)
  BY <1>1, <1>2 DEF Trusts
<1>4. Applying(k) /\ actor[k].left # {} /\ guard
  BY <1>3 DEF Take, Applying, Doing
<1>5. /\ b \in Applies /\ b.at = "enrolling" /\ b.left = actor[k].left
      /\ b.current = actor[k].current /\ b.ours = actor[k].ours
      /\ b.stands = actor[k].stands /\ b.newly = actor[k].newly
  <2>1. "enrolling" \in ApplyPlaces
    BY DEF ApplyPlaces
  <2>2. QED
    BY <1>1, <1>4, <2>1, LoopRecord
<1>6. ASSUME k \notin disturbed PROVE Brings(k)'
  <2>1. LoopStep(k, b) /\ layer' = layer /\ clients' = clients /\ crt' = crt
    BY <1>3, <1>4, <1>5 DEF Take, LoopStep, enrolment
  <2>2. \A p : Brought(p)' <=> Brought(p)
    BY <2>1, BroughtStays
  <2>3. Wanted(k) /\ crt'[Bundle(k)] = At(k)
    BY <1>2, <1>4, <2>1
  <2>4. QED
    BY <1>5, <1>6, <2>1, <2>2, <2>3, LoopGoesOn
<1>7. QED
  BY <1>3, <1>4, <1>5, <1>6, TakeKeeps

LEMMA EntReadCertificate ==
    ASSUME EntInv, NEW k \in Actors, ReadCertificate(k)
    PROVE  EntInv'
<1>1. PICK b : b = [actor[k] EXCEPT !.at = "adding", !.rotate = crt[Bundle(k)] # None]
  OBVIOUS
<1>2. PICK guard : guard = (Wanted(k) /\ crt[Bundle(k)] # At(k))
  OBVIOUS
<1>3. Take(k, guard, b)
  BY <1>1, <1>2 DEF ReadCertificate
<1>4. Applying(k) /\ actor[k].left # {} /\ guard
  BY <1>3 DEF Take, Applying, Doing
<1>5. /\ b \in Applies /\ b.at = "adding" /\ b.left = actor[k].left
      /\ b.current = actor[k].current /\ b.ours = actor[k].ours
      /\ b.stands = actor[k].stands /\ b.newly = actor[k].newly
      /\ b.rotate = (crt[Bundle(k)] # None)
  <2>1. actor[k] \in Applies
    BY <1>4 DEF EntInv, EntTyped, ActorOK, Applying, ApplyPlaces
  <2>2. QED
    BY <1>1, <2>1 DEF Applies, ApplyPlaces
<1>6. ASSUME k \notin disturbed PROVE Brings(k)'
  <2>1. LoopStep(k, b) /\ layer' = layer /\ clients' = clients /\ crt' = crt
    BY <1>3, <1>4, <1>5 DEF Take, LoopStep, enrolment
  <2>2. \A p : Brought(p)' <=> Brought(p)
    BY <2>1, BroughtStays
  <2>3. Wanted(k) /\ b.rotate = (crt'[Bundle(k)] # None)
    BY <1>2, <1>4, <1>5, <2>1
  <2>4. QED
    BY <1>5, <1>6, <2>1, <2>2, <2>3, LoopGoesOn
<1>7. QED
  BY <1>3, <1>4, <1>5, <1>6, TakeKeeps

LEMMA EntUnwanted ==
    ASSUME EntInv, NEW k \in Actors, Unwanted(k)
    PROVE  EntInv'
<1>1. PICK b : b = [actor[k] EXCEPT !.at = "removing"]
  OBVIOUS
<1>2. PICK guard : guard = (~Wanted(k) /\ actor[k].ours[At(k)] # NoGrant)
  OBVIOUS
<1>3. Take(k, guard, b)
  BY <1>1, <1>2 DEF Unwanted
<1>4. Applying(k) /\ actor[k].left # {} /\ guard
  BY <1>3 DEF Take, Applying, Doing
<1>5. /\ b \in Applies /\ b.at = "removing" /\ b.left = actor[k].left
      /\ b.current = actor[k].current /\ b.ours = actor[k].ours
      /\ b.stands = actor[k].stands /\ b.newly = actor[k].newly
  <2>1. "removing" \in ApplyPlaces
    BY DEF ApplyPlaces
  <2>2. QED
    BY <1>1, <1>4, <2>1, LoopRecord
<1>6. ASSUME k \notin disturbed PROVE Brings(k)'
  <2>1. LoopStep(k, b) /\ layer' = layer /\ clients' = clients /\ crt' = crt
    BY <1>3, <1>4, <1>5 DEF Take, LoopStep, enrolment
  <2>2. \A p : Brought(p)' <=> Brought(p)
    BY <2>1, BroughtStays
  <2>3. QED
    BY <1>2, <1>4, <1>5, <1>6, <2>1, <2>2, LoopGoesOn
<1>7. QED
  BY <1>3, <1>4, <1>5, <1>6, TakeKeeps

LEMMA EntNoCertificate ==
    ASSUME EntInv, NEW k \in Actors, NoCertificate(k)
    PROVE  EntInv'
<1>1. PICK b : b = Done(k)
  OBVIOUS
<1>2. Applying(k) /\ actor[k].left # {}
  BY DEF NoCertificate, Applying, Doing
<1>3. /\ b \in Applies /\ b.at = "next" /\ b.left = actor[k].left \ {At(k)}
      /\ b.current = actor[k].current /\ b.ours = actor[k].ours
      /\ b.stands = actor[k].stands /\ b.newly = actor[k].newly
  BY <1>1, <1>2, DoneRecord
<1>4. LoopStep(k, b) /\ clients' = clients /\ crt' = crt /\ k \in disturbed'
  BY <1>1, <1>2, <1>3 DEF NoCertificate, LoopStep, enrolment
<1>5. Told' /\ Bundled'
  BY <1>4, LoopBundles
<1>6. clients' \in [Prints -> Names \cup {NoGrant}] /\ crt' \in [Names -> Prints \cup {None}]
  BY <1>4 DEF EntInv, EntTyped, TypeOK
<1>7. enrolment' = enrolment /\ disturbed \ {k} \subseteq disturbed'
  BY DEF NoCertificate
<1>8. QED
  BY <1>4, <1>5, <1>6, <1>7, LoopEnds

LEMMA EntAdd ==
    ASSUME EntInv, NEW k \in Actors, Add(k)
    PROVE  EntInv'
<1>1. Applying(k) /\ actor[k].at = "adding" /\ EntTyped /\ Reads
  BY DEF Add, Applying, Doing, EntInv
<1>2. actor[k] \in Applies /\ actor[k].left # {}
  BY <1>1 DEF EntTyped, ActorOK, Applying, ApplyPlaces, Reads, FromLayer
<1>3. /\ At(k) \in Prints /\ At(k) # None /\ Bundle(k) \in Names
      /\ actor[k].current[At(k)] \in DOMAIN layer /\ Accepted(actor[k].current[At(k)])
      /\ Entry(k).print = At(k)
  BY <1>1, <1>2, AtIsLeast
<1>4. PICK x, n : x = At(k) /\ n = Bundle(k)
  OBVIOUS
<1>5. /\ x \in Prints /\ x # None /\ n \in Names
      /\ DOMAIN crt = Names /\ crt \in [Names -> Prints \cup {None}]
  BY <1>1, <1>3, <1>4 DEF EntTyped, TypeOK
<1>6. layer' = layer /\ store' = store /\ clients' = clients /\ pending' = pending
      /\ trusted' = trusted /\ shutOut' = shutOut /\ Overtakes(k) /\ disturbed \subseteq disturbed'
  BY DEF Add, Overtakes
<1>7. CASE actor[k].rotate = (crt[n] # None)
  <2>1. PICK b : b = [actor[k] EXCEPT !.at = "added", !.newly = TRUE, !.replaced = crt[n]]
    OBVIOUS
  <2>2. crt' = [crt EXCEPT ![n] = x] /\ Goes(k, b)
    BY <1>4, <1>7, <2>1 DEF Add
  <2>3. crt'[n] = x /\ \A a \in Names : a # n => crt'[a] = crt[a]
    BY <1>5, <2>2
  <2>4. /\ b \in Applies /\ b.at = "added" /\ b.left = actor[k].left
        /\ b.current = actor[k].current /\ b.ours = actor[k].ours
        /\ b.stands = actor[k].stands /\ b.newly = TRUE /\ b.replaced = crt[n]
    BY <1>2, <1>5, <2>1 DEF Applies, ApplyPlaces
  <2>5. LoopStep(k, b)
    BY <1>1, <1>2, <1>6, <2>2, <2>4 DEF LoopStep
  <2>6. actor'[k] = b /\ \A m \in Actors : m # k => actor'[m] = actor[m]
    BY <2>5, LoopKeeps
  <2>7. Told'
    <3>1. Applying(k)' /\ actor'[k].newly
      BY <2>4, <2>6 DEF Applying
    <3>2. QED
      BY <3>1 DEF Told
  <2>8. Bundled'
    <3>1. \A i : Accepted(i)' <=> Accepted(i)
      BY <1>6, LayerStays
    <3>2. SUFFICES ASSUME NEW a \in Names, crt'[a] # None
                   PROVE  \E i \in DOMAIN layer :
                            Accepted(i) /\ layer[i].print = crt'[a] /\ layer[i].name = a
      BY <1>6, <3>1 DEF Bundled
    <3>3. CASE a = n
      BY <1>3, <1>4, <2>3, <3>3 DEF Entry, Bundle
    <3>4. CASE a # n
      BY <2>3, <3>2, <3>4 DEF EntInv, Bundled
    <3>5. QED
      BY <3>3, <3>4
  <2>9. ASSUME k \notin disturbed' PROVE Brings(k)'
    <3>1. k \in Actors \ disturbed
      BY <1>6, <2>9
    <3>2. Brings(k)
      BY <1>1, <3>1 DEF EntInv, BringsAll
    <3>3. /\ n = Name(x) /\ (Wanted(k) <=> Enrols(x))
          /\ \A p \in Prints \ actor[k].left : Current[p] # None => p < x
      BY <1>1, <1>2, <1>4, <3>1, LoopMeans
    <3>4. Wanted(k) /\ Enrols(x)
      BY <1>1, <3>2, <3>3 DEF Brings
    <3>5. \A p \in Prints \ actor[k].left : Obliged(p) => Name(p) # n
      <4>1. \A p : Obliged(p) => Current[p] # None
        BY DEF Obliged, Enrols
      <4>2. x \in Nat /\ Prints \subseteq Nat
        BY <1>5, EntitlementConstants
      <4>3. \A p \in Prints \ actor[k].left : Obliged(p) => x > p
        BY <3>3, <4>1, <4>2
      <4>4. QED
        BY <1>5, <3>3, <3>4, <4>3 DEF Obliged
    <3>6. \A p \in Prints : Obliged(p) => Name(p) \in Names
      <4>1. \A p \in Prints : Current[p] # None => layer[Current[p]] \in Entries
        BY <1>1, LayerFolds DEF EntTyped, Logs
      <4>2. QED
        BY <4>1 DEF Obliged, Enrols, Name, Entries
    <3>7. \A p \in Prints \ b.left : Current[p] # None /\ Brought(p) => Brought(p)'
      BY <1>6, <2>3, <2>4, <3>5, <3>6, BroughtMeans
    <3>8. ASSUME NEW p \in Prints \ b.left, Obliged(p), p = b.replaced PROVE FALSE
      <4>1. crt[n] = p /\ p # None
        BY <2>4, <3>8, EntitlementConstants DEF None
      <4>2. PICK i \in DOMAIN layer : Accepted(i) /\ layer[i].print = p /\ layer[i].name = n
        BY <1>5, <4>1 DEF EntInv, Bundled
      <4>3. n = Name(p)
        BY <3>8, <4>2 DEF Obliged, KeptItsName
      <4>4. QED
        BY <2>4, <3>5, <3>8, <4>3
    <3>9. QED
      BY <1>4, <1>6, <2>3, <2>4, <2>5, <3>1, <3>4, <3>7, <3>8, LoopGoesOn
  <2>10. clients' \in [Prints -> Names \cup {NoGrant}] /\ crt' \in [Names -> Prints \cup {None}]
    BY <1>1, <1>5, <1>6, <2>2 DEF EntTyped, TypeOK
  <2>11. QED
    BY <1>6, <2>5, <2>7, <2>8, <2>9, <2>10, LoopEnds
<1>8. CASE actor[k].rotate # (crt[n] # None)
  <2>1. PICK b : b = Done(k)
    OBVIOUS
  <2>2. crt' = crt /\ Goes(k, b)
    BY <1>4, <1>8, <2>1 DEF Add
  <2>3. /\ b \in Applies /\ b.at = "next" /\ b.left = actor[k].left \ {At(k)}
        /\ b.current = actor[k].current /\ b.ours = actor[k].ours
        /\ b.stands = actor[k].stands /\ b.newly = actor[k].newly
    BY <1>1, <2>1, DoneRecord
  <2>4. LoopStep(k, b)
    BY <1>1, <1>6, <2>2, <2>3 DEF LoopStep
  <2>5. Told' /\ Bundled'
    BY <2>2, <2>4, LoopBundles
  <2>6. k \in disturbed'
    <3>1. ASSUME k \notin disturbed PROVE FALSE
      <4>1. Brings(k)
        BY <1>1, <3>1 DEF EntInv, BringsAll
      <4>2. QED
        BY <1>1, <1>4, <1>8, <4>1 DEF Brings
    <3>2. QED
      BY <1>6, <3>1
  <2>7. clients' \in [Prints -> Names \cup {NoGrant}] /\ crt' \in [Names -> Prints \cup {None}]
    BY <1>1, <1>5, <1>6, <2>2 DEF EntTyped, TypeOK
  <2>8. QED
    BY <1>6, <2>4, <2>5, <2>6, <2>7, LoopEnds
<1>9. QED
  BY <1>7, <1>8

LEMMA EntReplace ==
    ASSUME EntInv, NEW k \in Actors, Replace(k)
    PROVE  EntInv'
<1>1. Applying(k) /\ actor[k].at = "added" /\ EntTyped /\ Reads
  BY DEF Replace, Applying, Doing, EntInv
<1>2. actor[k] \in Applies /\ actor[k].left # {}
  BY <1>1 DEF EntTyped, ActorOK, Applying, ApplyPlaces, Reads, FromLayer
<1>3. PICK b : b = [actor[k] EXCEPT !.at = "enrolling"]
  OBVIOUS
<1>4. /\ b \in Applies /\ b.at = "enrolling" /\ b.left = actor[k].left
      /\ b.current = actor[k].current /\ b.ours = actor[k].ours
      /\ b.stands = actor[k].stands /\ b.newly = actor[k].newly
  <2>1. "enrolling" \in ApplyPlaces
    BY DEF ApplyPlaces
  <2>2. QED
    BY <1>1, <1>3, <2>1, LoopRecord
<1>5. /\ layer' = layer /\ crt' = crt /\ Overtakes(k) /\ disturbed \subseteq disturbed'
      /\ Goes(k, b) /\ store' = store /\ pending' = pending /\ trusted' = trusted /\ shutOut' = shutOut
  BY <1>3 DEF Replace, Overtakes
<1>6. LoopStep(k, b)
  BY <1>1, <1>2, <1>4, <1>5 DEF LoopStep
<1>7. Told' /\ Bundled'
  BY <1>5, <1>6, LoopBundles
<1>8. /\ clients' \in [Prints -> Names \cup {NoGrant}] /\ crt' \in [Names -> Prints \cup {None}]
      /\ \A p \in Prints : clients'[p] = IF p = actor[k].replaced /\ p # At(k) THEN NoGrant
                                          ELSE clients[p]
  BY <1>1, <1>5 DEF EntTyped, TypeOK, Replace
<1>9. ASSUME k \notin disturbed' PROVE Brings(k)'
  <2>1. k \in Actors \ disturbed
    BY <1>5, <1>9
  <2>2. Brings(k)
    BY <1>1, <2>1 DEF EntInv, BringsAll
  <2>3. Wanted(k) /\ crt'[Bundle(k)] = At(k)
    BY <1>1, <1>5, <2>2 DEF Brings
  <2>4. \A p \in Prints \ b.left : Obliged(p) => p # actor[k].replaced
    BY <1>1, <1>4, <2>2 DEF Brings
  <2>5. \A p \in Prints \ b.left : Current[p] # None /\ Brought(p) => Brought(p)'
    BY <1>5, <1>8, <2>4, BroughtMeans
  <2>6. \A p \in b.left : clients[p] = NoGrant => clients'[p] = NoGrant
    BY <1>4, <1>8 DEF Applies
  <2>7. QED
    BY <1>4, <1>6, <2>1, <2>3, <2>5, <2>6, LoopGoesOn
<1>10. QED
  BY <1>5, <1>6, <1>7, <1>8, <1>9, LoopEnds

LEMMA EntEnrol ==
    ASSUME EntInv, NEW k \in Actors, Enrol(k)
    PROVE  EntInv'
<1>1. Applying(k) /\ actor[k].at = "enrolling" /\ EntTyped /\ Reads
  BY DEF Enrol, Applying, Doing, EntInv
<1>2. actor[k] \in Applies /\ actor[k].left # {}
  BY <1>1 DEF EntTyped, ActorOK, Applying, ApplyPlaces, Reads, FromLayer
<1>3. PICK b, x, n : b = Done(k) /\ x = At(k) /\ n = Bundle(k)
  OBVIOUS
<1>4. x \in Prints /\ n \in Names /\ x \in actor[k].left
  BY <1>1, <1>2, <1>3, AtIsLeast
<1>5. /\ b \in Applies /\ b.at = "next" /\ b.left = actor[k].left \ {At(k)}
      /\ b.current = actor[k].current /\ b.ours = actor[k].ours
      /\ b.stands = actor[k].stands /\ b.newly = actor[k].newly
  BY <1>1, <1>3, DoneRecord
<1>6. /\ layer' = layer /\ crt' = crt /\ Overtakes(k) /\ disturbed \subseteq disturbed'
      /\ Goes(k, b) /\ store' = store /\ pending' = pending /\ trusted' = trusted /\ shutOut' = shutOut
      /\ clients' = [clients EXCEPT ![x] = n]
  BY <1>3 DEF Enrol, Overtakes
<1>7. LoopStep(k, b)
  BY <1>1, <1>5, <1>6 DEF LoopStep
<1>8. Told' /\ Bundled'
  BY <1>6, <1>7, LoopBundles
<1>9. /\ clients' \in [Prints -> Names \cup {NoGrant}] /\ crt' \in [Names -> Prints \cup {None}]
      /\ clients'[x] = n /\ \A p \in Prints : p # x => clients'[p] = clients[p]
  BY <1>1, <1>4, <1>6 DEF EntTyped, TypeOK
<1>10. ASSUME k \notin disturbed' PROVE Brings(k)'
  <2>1. k \in Actors \ disturbed
    BY <1>6, <1>10
  <2>2. Brings(k) /\ n = Name(x) /\ (Wanted(k) <=> Enrols(x))
    BY <1>1, <1>2, <1>3, <2>1, LoopMeans DEF EntInv, BringsAll
  <2>3. Enrols(x) /\ crt'[n] = x
    BY <1>1, <1>3, <1>6, <2>2 DEF Brings
  <2>4. \A p \in Prints : p = At(k) => Brought(p)'
    BY <1>3, <1>6, <1>9, <2>2, <2>3, BroughtMeans
  <2>5. \A p \in Prints \ actor[k].left : Current[p] # None /\ Brought(p) => Brought(p)'
    BY <1>4, <1>6, <1>9, BroughtMeans
  <2>6. \A p \in b.left : clients[p] = NoGrant => clients'[p] = NoGrant
    BY <1>3, <1>5, <1>9 DEF Applies
  <2>7. QED
    BY <1>2, <1>5, <1>7, <2>1, <2>4, <2>5, <2>6, LoopIsDone
<1>11. QED
  BY <1>6, <1>7, <1>8, <1>9, <1>10, LoopEnds

LEMMA EntUnenrol ==
    ASSUME EntInv, NEW k \in Actors, Unenrol(k)
    PROVE  EntInv'
<1>1. Applying(k) /\ actor[k].at = "removing" /\ EntTyped /\ Reads
  BY DEF Unenrol, Applying, Doing, EntInv
<1>2. actor[k] \in Applies /\ actor[k].left # {}
  BY <1>1 DEF EntTyped, ActorOK, Applying, ApplyPlaces, Reads, FromLayer
<1>3. PICK b, x : b = [actor[k] EXCEPT !.at = "unbundling"] /\ x = At(k)
  OBVIOUS
<1>4. x \in Prints /\ x \in actor[k].left
  BY <1>1, <1>2, <1>3, AtIsLeast
<1>5. /\ b \in Applies /\ b.at = "unbundling" /\ b.left = actor[k].left
      /\ b.current = actor[k].current /\ b.ours = actor[k].ours
      /\ b.stands = actor[k].stands /\ b.newly = actor[k].newly
  <2>1. "unbundling" \in ApplyPlaces
    BY DEF ApplyPlaces
  <2>2. QED
    BY <1>1, <1>3, <2>1, LoopRecord
<1>6. /\ layer' = layer /\ crt' = crt /\ Overtakes(k) /\ disturbed \subseteq disturbed'
      /\ Goes(k, b) /\ store' = store /\ pending' = pending /\ trusted' = trusted /\ shutOut' = shutOut
      /\ clients' = [clients EXCEPT ![x] = NoGrant]
  BY <1>3 DEF Unenrol, Overtakes
<1>7. LoopStep(k, b)
  BY <1>1, <1>2, <1>5, <1>6 DEF LoopStep
<1>8. Told' /\ Bundled'
  BY <1>6, <1>7, LoopBundles
<1>9. /\ clients' \in [Prints -> Names \cup {NoGrant}] /\ crt' \in [Names -> Prints \cup {None}]
      /\ clients'[x] = NoGrant /\ \A p \in Prints : p # x => clients'[p] = clients[p]
  BY <1>1, <1>4, <1>6 DEF EntTyped, TypeOK
<1>10. ASSUME k \notin disturbed' PROVE Brings(k)'
  <2>1. k \in Actors \ disturbed
    BY <1>6, <1>10
  <2>2. Brings(k)
    BY <1>1, <2>1 DEF EntInv, BringsAll
  <2>3. ~Wanted(k)
    BY <1>1, <2>2 DEF Brings
  <2>4. \A p \in Prints \ b.left : Current[p] # None /\ Brought(p) => Brought(p)'
    BY <1>4, <1>5, <1>6, <1>9, BroughtMeans
  <2>5. \A p \in b.left : clients[p] = NoGrant => clients'[p] = NoGrant
    BY <1>5, <1>9 DEF Applies
  <2>6. clients'[At(k)] = NoGrant
    BY <1>3, <1>9
  <2>7. QED
    BY <1>5, <1>7, <2>1, <2>3, <2>4, <2>5, <2>6, LoopGoesOn
<1>11. QED
  BY <1>6, <1>7, <1>8, <1>9, <1>10, LoopEnds

LEMMA EntUnbundle ==
    ASSUME EntInv, NEW k \in Actors, Unbundle(k)
    PROVE  EntInv'
<1>1. Applying(k) /\ actor[k].at = "unbundling" /\ EntTyped /\ Reads
  BY DEF Unbundle, Applying, Doing, EntInv
<1>2. actor[k] \in Applies /\ actor[k].left # {}
  BY <1>1 DEF EntTyped, ActorOK, Applying, ApplyPlaces, Reads, FromLayer
<1>3. PICK b, x, n : b = Done(k) /\ x = At(k) /\ n = Bundle(k)
  OBVIOUS
<1>4. x \in Prints /\ n \in Names /\ x \in actor[k].left
  BY <1>1, <1>2, <1>3, AtIsLeast
<1>5. /\ b \in Applies /\ b.at = "next" /\ b.left = actor[k].left \ {At(k)}
      /\ b.current = actor[k].current /\ b.ours = actor[k].ours
      /\ b.stands = actor[k].stands /\ b.newly = actor[k].newly
  BY <1>1, <1>3, DoneRecord
<1>6. /\ layer' = layer /\ clients' = clients /\ Overtakes(k) /\ disturbed \subseteq disturbed'
      /\ Goes(k, b) /\ store' = store /\ pending' = pending /\ trusted' = trusted /\ shutOut' = shutOut
      /\ crt' = IF crt[n] = x THEN [crt EXCEPT ![n] = None] ELSE crt
  BY <1>3 DEF Unbundle, Overtakes
<1>7. LoopStep(k, b)
  BY <1>1, <1>5, <1>6 DEF LoopStep
<1>8. /\ clients' \in [Prints -> Names \cup {NoGrant}] /\ crt' \in [Names -> Prints \cup {None}]
      /\ \A a \in Names : crt'[a] = IF a = n /\ crt[n] = x THEN None ELSE crt[a]
  BY <1>1, <1>4, <1>6 DEF EntTyped, TypeOK
<1>9. Told' /\ Bundled'
  BY <1>7, <1>8, LoopBundles
<1>10. ASSUME k \notin disturbed' PROVE Brings(k)'
  <2>1. k \in Actors \ disturbed
    BY <1>6, <1>10
  <2>2. Brings(k) /\ (Wanted(k) <=> Enrols(x))
    BY <1>1, <1>2, <1>3, <2>1, LoopMeans DEF EntInv, BringsAll
  <2>3. ~Enrols(x) /\ ~Obliged(x) /\ clients[x] = NoGrant
    BY <1>1, <1>3, <2>2 DEF Brings, Obliged
  <2>4. \A p \in Prints : p = At(k) => Brought(p)'
    BY <1>3, <1>6, <2>3, BroughtMeans
  <2>5. \A p \in Prints : Obliged(p) => Name(p) \in Names
    <3>1. \A p \in Prints : Current[p] # None => layer[Current[p]] \in Entries
      BY <1>1, LayerFolds DEF EntTyped, Logs
    <3>2. QED
      BY <3>1 DEF Obliged, Enrols, Name, Entries
  <2>6. \A p \in Prints \ actor[k].left : Current[p] # None /\ Brought(p) => Brought(p)'
    BY <1>4, <1>6, <1>8, <2>5, BroughtMeans
  <2>7. QED
    BY <1>2, <1>5, <1>6, <1>7, <2>1, <2>4, <2>6, LoopIsDone
<1>11. QED
  BY <1>6, <1>7, <1>8, <1>9, <1>10, LoopEnds

LEMMA EntFoldToApply ==
    ASSUME EntInv, NEW k \in Actors, FoldToApply(k)
    PROVE  EntInv'
<1> USE DEF FoldToApply
<1>1. PICK b : b = [at |-> "next", current |-> Current, ours |-> clients,
                    stands |-> [p \in Prints |-> Current[p] # None /\ InForce(Current[p])],
                    left |-> {p \in Prints : Current[p] # None},
                    rotate |-> FALSE, replaced |-> None, newly |-> FALSE]
  OBVIOUS
<1>2. EntTyped /\ layer \in Logs /\ Goes(k, b) /\ ~Applying(k)
  BY <1>1 DEF EntInv, EntTyped, Applying, Doing
<1>3. Current \in [Prints -> 0 .. MaxSaid]
  <2>1. Current \in [Prints -> 0 .. Len(layer)] /\ Len(layer) \in Nat /\ Len(layer) <= MaxSaid
    BY <1>2, LayerFolds DEF Logs
  <2>2. QED
    BY <2>1, EntitlementConstants
<1>4. \A n : InForce(n) \in BOOLEAN
  BY DEF InForce, Accepted, Accepts, Superseded
<1>5. clients \in [Prints -> Names \cup {NoGrant}]
  BY <1>2 DEF EntTyped, TypeOK
<1>6. b \in Applies
  BY <1>1, <1>3, <1>4, <1>5 DEF Applies, ApplyPlaces
<1>7. /\ b.at = "next" /\ b.current = Current /\ b.ours = clients
      /\ b.stands = [p \in Prints |-> Current[p] # None /\ InForce(Current[p])]
      /\ b.left = {p \in Prints : Current[p] # None} /\ ActorOK(b)
  BY <1>1, <1>6 DEF ActorOK, ApplyPlaces
<1>8. /\ DOMAIN actor' = Actors /\ actor'[k] = b
      /\ \A m \in Actors : m # k => actor'[m] = actor[m]
      /\ \A m \in Actors : ActorOK(actor'[m])
  BY <1>2, <1>7, GoesTo
<1>9. EntTyped'
  <2>1. TypeOK'
    BY <1>2 DEF EntTyped, TypeOK, enrolment, store
  <2>2. QED
    BY <1>2, <1>8, <2>1 DEF EntTyped
<1>10. clients' = clients /\ crt' = crt /\ layer' = layer
  BY DEF enrolment
<1>11. Current' = Current /\ \A n : (Accepted(n)' <=> Accepted(n)) /\ (InForce(n)' <=> InForce(n))
  BY <1>10, LayerStays
<1>12. Reads'
  <2>1. FromLayer(b)'
    BY <1>2, <1>7, <1>10, <1>11, LayerFolds DEF FromLayer
  <2>2. ASSUME NEW m \in Actors, m # k, Applying(m)' PROVE FromLayer(actor[m])'
    <3>1. actor'[m] = actor[m] /\ FromLayer(actor[m])
      BY <1>8, <2>2 DEF EntInv, Reads, Applying
    <3>2. QED
      BY <1>10, <1>11, <3>1 DEF FromLayer
  <2>3. FromLayer(actor[k])'
    BY <1>8, <2>1 DEF FromLayer
  <2>4. QED
    BY <2>2, <2>3 DEF Reads
<1>13. Spending'
  BY <1>7, <1>8, SpendsNothing
<1>14. Told'
  <2>1. \A m \in Actors : Applying(m) => m # k /\ Applying(m)' /\ actor'[m] = actor[m]
    BY <1>2, <1>8 DEF Applying
  <2>2. QED
    BY <1>10, <2>1 DEF EntInv, Told
<1>15. Bundled'
  BY <1>10, <1>11 DEF EntInv, Bundled
<1>16. BringsAll'
  <2>1. SUFFICES ASSUME NEW m \in Actors \ disturbed', Applying(m)' PROVE Brings(m)'
    BY DEF BringsAll
  <2>2. CASE m = k
    BY <1>7, <1>8, <1>10, <1>11, <2>2 DEF Brings
  <2>3. CASE m # k
    <3>1. actor'[m] = actor[m] /\ Brings(m)
      BY <1>8, <2>1, <2>3 DEF EntInv, BringsAll, Applying
    <3>2. QED
      BY <1>10, <3>1, BringsStays
  <2>4. QED
    BY <2>2, <2>3
<1>17. QED
  BY <1>9, <1>12, <1>13, <1>14, <1>15, <1>16 DEF EntInv

LEMMA EntReport ==
    ASSUME EntInv, NEW k \in Actors, Report(k)
    PROVE  EntInv'
<1> USE DEF Report
<1>1. EntTyped /\ Goes(k, Idle) /\ ActorOK(Idle) /\ Idle.at = "idle"
  BY DEF EntInv, ActorOK, ApplyPlaces, Idle
<1>2. /\ DOMAIN actor' = Actors /\ actor'[k] = Idle
      /\ \A m \in Actors : m # k => actor'[m] = actor[m]
      /\ \A m \in Actors : ActorOK(actor'[m])
  BY <1>1, GoesTo
<1>3. actor[k] \in Applies /\ Applying(k)
  BY DEF EntInv, EntTyped, ActorOK, Applying, ApplyPlaces, Doing
<1>4. clients' = clients /\ crt' = crt /\ layer' = layer
  BY DEF enrolment
<1>5. EntTyped'
  <2>1. TypeOK'
    BY <1>1, <1>3, <1>4 DEF EntTyped, TypeOK, store, Applies
  <2>2. QED
    BY <1>1, <1>2, <1>4, <2>1 DEF EntTyped
<1>6. \A n : Accepted(n)' <=> Accepted(n)
  BY <1>4, LayerStays
<1>7. \A m \in Actors : Applying(m)' => m # k /\ Applying(m) /\ actor'[m] = actor[m]
  BY <1>1, <1>2 DEF Applying
<1>8. Reads'
  BY <1>4, <1>6, <1>7 DEF EntInv, Reads, FromLayer
<1>9. Spending'
  BY <1>1, <1>2, SpendsNothing
<1>10. Told'
  <2>1. \A m \in Actors : m # k /\ Applying(m) => Applying(m)' /\ actor'[m] = actor[m]
    BY <1>2 DEF Applying
  <2>2. QED
    BY <1>4, <2>1 DEF EntInv, Told
<1>11. Bundled'
  BY <1>4, <1>6 DEF EntInv, Bundled
<1>12. BringsAll'
  <2>1. SUFFICES ASSUME NEW m \in Actors \ disturbed', Applying(m)' PROVE Brings(m)'
    BY DEF BringsAll
  <2>2. actor'[m] = actor[m] /\ Brings(m)
    BY <1>7, <2>1 DEF EntInv, BringsAll
  <2>3. QED
    BY <1>4, <2>2, BringsStays
<1>13. QED
  BY <1>5, <1>8, <1>9, <1>10, <1>11, <1>12 DEF EntInv

LEMMA EntRestart ==
    ASSUME EntInv, NEW bind, Restart(bind)
    PROVE  EntInv'
<1> USE DEF Restart
<1>1. DOMAIN actor' = Actors /\ \A k \in Actors : actor'[k].at = "idle"
  BY DEF Idle
<1>2. clients' = clients /\ crt' = crt /\ layer' = layer /\ invites' = invites /\ codes' = codes
  BY DEF enrolment, store
<1>3. EntTyped'
  <2>1. TypeOK'
    <3>1. Bundles \subseteq Prints
      BY DEF Bundles, EntInv, EntTyped, TypeOK
    <3>2. trusted' \subseteq Prints /\ shutOut' \subseteq Prints /\ pending' \in BOOLEAN
      BY <3>1
    <3>3. QED
      BY <3>2 DEF EntInv, EntTyped, TypeOK, enrolment, store
  <2>2. \A k \in Actors : ActorOK(actor'[k])
    BY <1>1 DEF ActorOK, ApplyPlaces
  <2>3. QED
    BY <1>1, <1>2, <2>1, <2>2 DEF EntInv, EntTyped
<1>4. Reads' /\ BringsAll'
  BY <1>1 DEF Reads, BringsAll, Applying
<1>5. Spending'
  BY <1>1, <1>2 DEF EntInv, Spending, SpentIsSaid, Minting, Answering, Doing
<1>6. Told'
  BY <1>2 DEF Told, Bundles
<1>7. Bundled'
  BY <1>2, LayerStays DEF EntInv, Bundled
<1>8. QED
  BY <1>3, <1>4, <1>5, <1>6, <1>7 DEF EntInv

LEMMA EntStays ==
    ASSUME EntInv, UNCHANGED vars
    PROVE  EntInv'
<1> USE DEF vars
<1>1. clients' = clients /\ crt' = crt /\ invites' = invites /\ codes' = codes /\ expired' = expired
  BY DEF enrolment, store
<1>2. EntTyped'
  BY <1>1 DEF EntInv, EntTyped, TypeOK
<1>3. \A n : Accepted(n)' <=> Accepted(n)
  BY LayerStays
<1>4. Reads' /\ Told' /\ Bundled'
  BY <1>1, <1>3 DEF EntInv, Reads, FromLayer, Told, Bundled, Applying
<1>5. Spending'
  BY <1>1 DEF EntInv, Spending, SpentIsSaid, Minting, Answering, Doing
<1>6. BringsAll'
  <2>1. SUFFICES ASSUME NEW m \in Actors \ disturbed', Applying(m)' PROVE Brings(m)'
    BY DEF BringsAll
  <2>2. actor'[m] = actor[m] /\ Brings(m)
    BY <2>1 DEF EntInv, BringsAll, Applying
  <2>3. QED
    BY <1>1, <2>2, BringsStays
<1>7. QED
  BY <1>2, <1>4, <1>5, <1>6 DEF EntInv

LEMMA EntStep ==
    ASSUME EntInv, Next \/ UNCHANGED vars
    PROVE  EntInv'
<1>1. ASSUME NEW k \in Callers, NEW i \in Invites, Mint(k, i) PROVE EntInv'
  BY <1>1, EntMint
<1>2. ASSUME NEW k \in Callers, NEW request \in Lobby, Approve(k, request) PROVE EntInv'
  BY <1>2, EntApprove
<1>3. ASSUME NEW k \in Callers, NEW p \in Prints, Revoke(k, p) PROVE EntInv'
  BY <1>3, EntRevoke
<1>4. CASE Apply(Timer)
  <2>1. Timer \in Actors
    BY DEF Actors
  <2>2. QED
    BY <1>4, <2>1, EntApply
<1>5. ASSUME NEW k \in Actors, Serve(k) PROVE EntInv'
  <2>1. CASE Minted(k) \/ ApproveFolds(k) \/ SaySigned(k) \/ MarkUsed(k) \/ ForgetCode(k)
    BY <2>1, EntMinted, EntApproveFolds, EntSaySigned, EntMarkUsed, EntForgetCode
  <2>2. CASE FoldToApply(k) \/ Unchanged(k) \/ Trusts(k) \/ ReadCertificate(k) \/ NotOurs(k)
    BY <2>2, EntFoldToApply, EntUnchanged, EntTrusts, EntReadCertificate
  <2>3. CASE Unwanted(k) \/ Add(k) \/ Replace(k) \/ Enrol(k)
    BY <2>3, EntUnwanted, EntAdd, EntReplace, EntEnrol
  <2>4. CASE Unenrol(k) \/ Unbundle(k) \/ Report(k)
    BY <2>4, EntUnenrol, EntUnbundle, EntReport
  <2>5. QED
    BY <1>5, <2>1, <2>2, <2>3, <2>4 DEF Serve
<1>6. ASSUME NEW k \in Actors, FoldFails(k) \/ NoCertificate(k) PROVE EntInv'
  BY <1>6, EntApply, EntNoCertificate
<1>7. ASSUME NEW i \in Invites, Expire(i) PROVE EntInv'
  BY <1>7, EntExpire
<1>8. ASSUME NEW n \in DOMAIN layer, Replay(n) PROVE EntInv'
  BY <1>8, EntReplay
<1>9. ASSUME NEW bind \in {"default", "named", "off"}, Restart(bind) PROVE EntInv'
  BY <1>9, EntRestart
<1>10. CASE UNCHANGED vars
  BY <1>10, EntStays
<1>11. QED
  BY <1>1, <1>2, <1>3, <1>4, <1>5, <1>6, <1>7, <1>8, <1>9, <1>10 DEF Next

-----------------------------------------------------------------------------
(* The roots file: what each writer is at, and the texts it has.           *)

Places == {"asked", "locked", "read", "written", "reloading"}
Ops == [at : Places, add : BOOLEAN, name : RootNames, dir : RootDirs \cup {Nowhere}, text : Roots!Texts \cup {Nowhere}]

RootsTyped ==
    /\ config \in Roots!Texts /\ inForce \in Roots!Texts /\ readable \in BOOLEAN
    /\ lock \in RootWriters \cup {Nowhere} /\ init \in Roots!Texts \cup {Nowhere}
    /\ op \in [RootWriters -> {Roots!Idle} \cup Ops]
    /\ server \in {"starting", "mounted", "watching"} /\ event \in BOOLEAN /\ unheard \in BOOLEAN
    /\ reading = Roots!NoReading
         \/ (\E w \in RootWriters \cup {Roots!Watch}, text \in Roots!Texts : reading = [by |-> w, text |-> text])
    /\ owed \subseteq RootNames \X (RootDirs \cup {Nowhere})

\* The lock is held from the reading to the writing, by a writer that means to write.
Writing ==
    \A w \in RootWriters :
        /\ op[w].at \in {"locked", "read"} <=> lock = w
        /\ op[w].at = "read" => op[w].text \in Roots!Texts

\* A text that was read under the lock still has every line that is owed: an editor may
\* change the file meanwhile, but then owes no line that it takes away.
OwedIsRead ==
    /\ \A line \in owed : config[line[1]] = line[2]
    /\ \A w \in RootWriters, line \in owed : op[w].at = "read" => op[w].text[line[1]] = line[2]

\* A text that was read for the roots is the file's, or its change is an event still to come.
Heard ==
    /\ server = "starting" => ~event
    /\ server # "watching" => reading = Roots!NoReading
         /\ \A w \in RootInside : op[w].at \notin {"written", "reloading"}
    /\ \A w \in RootWriters : op[w].at \in {"written", "reloading"} => w \in RootInside
    /\ server # "watching" => \A w \in RootInside : op[w] = Roots!Idle
    /\ reading # Roots!NoReading /\ reading.by # Roots!Watch => op[reading.by].at = "reloading"
    /\ server = "mounted" /\ ~unheard => inForce = config
    /\ server = "watching" /\ ~unheard /\ readable =>
         IF reading = Roots!NoReading THEN inForce = config \/ event
         ELSE reading.text = config \/ event

RootsInv == RootsTyped /\ Writing /\ OwedIsRead /\ Heard

RootsStanding == Roots!AddedStays /\ Roots!InForceOrDue

LEMMA RootsInitial ==
    ASSUME Roots!RootsConstants, Roots!Init
    PROVE  RootsInv
<1> USE DEF Roots!Init, Roots!RootsConstants
<1>1. RootsTyped
  BY DEF RootsTyped, Roots!Empty, Roots!Texts
<1>2. Writing /\ OwedIsRead /\ Heard
  BY DEF Writing, OwedIsRead, Heard, Roots!Idle
<1>3. QED
  BY <1>1, <1>2 DEF RootsInv

\* A step of one writer that has no text yet, or asks: the texts stay what they are.
LEMMA RootsAsk ==
    ASSUME Roots!RootsConstants, RootsInv, NEW w \in RootWriters, NEW n \in RootNames,
           Roots!AskRemove(w, n) \/ \E d \in RootDirs : Roots!AskAdd(w, n, d)
    PROVE  RootsInv'
<1> USE DEF Roots!RootsConstants
<1>1. PICK r \in Ops : r.at = "asked" /\ op' = [op EXCEPT ![w] = r]
  BY DEF Roots!AskRemove, Roots!AskAdd, Ops, Places
<1>2. /\ UNCHANGED <<config, readable, lock, init, server, event, reading, inForce, owed, unheard>>
      /\ op[w] = Roots!Idle /\ (w \in RootInside => server = "watching")
  BY DEF Roots!AskRemove, Roots!AskAdd
<1>3. op'[w] = r /\ \A v \in RootWriters : v # w => op'[v] = op[v]
  BY <1>1 DEF RootsInv, RootsTyped
<1>4. RootsTyped'
  BY <1>1, <1>2 DEF RootsInv, RootsTyped
<1>5. Writing'
  BY <1>1, <1>2, <1>3 DEF RootsInv, RootsTyped, Writing, Roots!Idle
<1>6. OwedIsRead'
  BY <1>1, <1>2, <1>3 DEF RootsInv, OwedIsRead
<1>7. Heard'
  BY <1>1, <1>2, <1>3 DEF RootsInv, RootsTyped, Heard, Roots!Idle
<1>8. QED
  BY <1>4, <1>5, <1>6, <1>7 DEF RootsInv

LEMMA RootsLock ==
    ASSUME Roots!RootsConstants, RootsInv, NEW w \in RootWriters, Roots!LockConfig(w)
    PROVE  RootsInv'
<1> USE DEF Roots!RootsConstants, Roots!LockConfig, Roots!bounds
<1>1. op[w] \in Ops /\ op[w].at = "asked"
  BY DEF RootsInv, RootsTyped, Roots!Idle
<1>2. op'[w] = [op[w] EXCEPT !.at = "locked"] /\ \A v \in RootWriters : v # w => op'[v] = op[v]
  BY DEF RootsInv, RootsTyped
<1>3. op'[w] \in Ops /\ op'[w].at = "locked"
  BY <1>1, <1>2 DEF Ops, Places
<1>4. RootsTyped'
  BY <1>3 DEF RootsInv, RootsTyped
<1>5. Writing'
  BY <1>1, <1>2, <1>3 DEF RootsInv, RootsTyped, Writing
<1>6. OwedIsRead'
  BY <1>2, <1>3 DEF RootsInv, OwedIsRead
<1>7. Heard'
  BY <1>1, <1>2, <1>3 DEF RootsInv, RootsTyped, Heard, Roots!Idle
<1>8. QED
  BY <1>4, <1>5, <1>6, <1>7 DEF RootsInv

LEMMA RootsRead ==
    ASSUME Roots!RootsConstants, RootsInv, NEW w \in RootWriters, Roots!ReadText(w)
    PROVE  RootsInv'
<1> USE DEF Roots!RootsConstants
<1>1. op[w] \in Ops /\ op[w].at = "locked" /\ lock = w
  BY DEF Roots!ReadText, RootsInv, RootsTyped, Roots!Idle, Writing
<1>5. UNCHANGED <<config, readable, init, server, event, reading, inForce, owed, unheard>>
  BY DEF Roots!ReadText
<1>2. CASE readable
  <2>1. /\ op' = [op EXCEPT ![w].at = "read", ![w].text = config] /\ lock' = lock
        /\ op'[w] = [op[w] EXCEPT !.at = "read", !.text = config]
        /\ \A v \in RootWriters : v # w => op'[v] = op[v]
    BY <1>2 DEF Roots!ReadText, RootsInv, RootsTyped
  <2>2. op'[w] \in Ops /\ op'[w].at = "read" /\ op'[w].text = config
    BY <1>1, <2>1 DEF Ops, Places, RootsInv, RootsTyped
  <2>3. RootsTyped'
    BY <1>2, <1>5, <2>1, <2>2 DEF RootsInv, RootsTyped
  <2>4. Writing'
    BY <1>1, <1>2, <1>5, <2>1, <2>2 DEF RootsInv, RootsTyped, Writing
  <2>5. OwedIsRead'
    <3>1. ASSUME NEW v \in RootWriters, NEW line \in owed, op'[v].at = "read"
          PROVE  op'[v].text[line[1]] = line[2]
      <4>1. CASE v = w
        BY <2>2, <4>1 DEF RootsInv, OwedIsRead
      <4>2. CASE v # w
        <5>1. op'[v] = op[v]
          BY <2>1, <4>2
        <5>2. QED
          BY <3>1, <5>1 DEF RootsInv, OwedIsRead
      <4>3. QED
        BY <4>1, <4>2
    <3>2. QED
      BY <1>5, <3>1 DEF RootsInv, OwedIsRead
  <2>6. Heard'
    <3>1. \A v \in RootWriters : op'[v] = op[v]
                              \/ (op[v] # Roots!Idle /\ op[v].at # "reloading" /\ op'[v].at = "read")
      <4>1. op[w] # Roots!Idle /\ op[w].at # "reloading"
        BY <1>1 DEF Roots!Idle
      <4>2. ASSUME NEW v \in RootWriters, v # w PROVE op'[v] = op[v]
        BY <2>1, <4>2
      <4>3. QED
        BY <2>2, <4>1, <4>2
    <3>2. reading # Roots!NoReading => reading.by \in RootWriters \cup {Roots!Watch}
      BY DEF RootsInv, RootsTyped
    <3>3. QED
      BY <1>5, <3>1, <3>2 DEF RootsInv, Heard
  <2>7. QED
    BY <2>3, <2>4, <2>5, <2>6 DEF RootsInv
<1>3. CASE ~readable
  <2>1. /\ op' = [op EXCEPT ![w] = Roots!Idle] /\ lock' = Nowhere
        /\ op'[w] = Roots!Idle /\ \A v \in RootWriters : v # w => op'[v] = op[v]
    BY <1>1, <1>3 DEF Roots!ReadText, RootsInv, RootsTyped, Roots!Unlock
  <2>2. RootsTyped'
    BY <1>3, <1>5, <2>1 DEF RootsInv, RootsTyped
  <2>3. Writing'
    BY <1>1, <1>3, <1>5, <2>1 DEF RootsInv, RootsTyped, Writing, Roots!Idle
  <2>4. OwedIsRead'
    BY <1>3, <1>5, <2>1 DEF RootsInv, OwedIsRead, Roots!Idle
  <2>5. Heard'
    BY <1>1, <1>3, <1>5, <2>1 DEF RootsInv, RootsTyped, Heard, Roots!Idle
  <2>6. QED
    BY <2>2, <2>3, <2>4, <2>5 DEF RootsInv
<1>4. QED
  BY <1>2, <1>3

\* Whoever changes the file is heard, or was not yet to be.
LEMMA RootsChange ==
    ASSUME Roots!RootsConstants, Heard, NEW text, Roots!Change(text),
           server \in {"starting", "mounted", "watching"}, event \in BOOLEAN, unheard \in BOOLEAN,
           server' = server, reading' = reading, inForce' = inForce,
           \A w \in RootWriters :
              /\ op'[w].at \in {"written", "reloading"} =>
                    w \in RootInside /\ (server = "watching" \/ op[w].at \in {"written", "reloading"})
              /\ op[w].at = "reloading" => op'[w].at = "reloading"
              /\ op[w] = Roots!Idle => op'[w] = Roots!Idle,
           reading # Roots!NoReading => reading.by \in RootWriters \cup {Roots!Watch}
    PROVE  Heard'
<1> USE DEF Roots!RootsConstants, Roots!Change, Heard
<1>1. CASE server = "watching"
  BY <1>1
<1>2. CASE server # "watching"
  BY <1>2
<1>3. QED
  BY <1>1, <1>2

LEMMA RootsRename ==
    ASSUME Roots!RootsConstants, RootsInv, NEW w \in RootWriters, Roots!Rename(w)
    PROVE  RootsInv'
<1> USE DEF Roots!RootsConstants
<1> DEFINE o == op[w]
           new == [o.text EXCEPT ![o.name] = Roots!Decide(o)]
<1>1. o \in Ops /\ o.at = "read" /\ lock = w /\ o.text \in Roots!Texts
  BY DEF Roots!Rename, RootsInv, RootsTyped, Roots!Idle, Writing
<1>2. /\ IF new = o.text THEN UNCHANGED <<config, event, unheard>> ELSE Roots!Change(new)
      /\ owed' = {line \in owed : new = o.text \/ line[1] # o.name}
                      \cup (IF o.add /\ config'[o.name] = o.dir THEN {<<o.name, o.dir>>} ELSE {})
      /\ UNCHANGED <<readable, init, server, reading, inForce>>
      /\ lock' = Nowhere
  BY <1>1 DEF Roots!Rename, Roots!Unlock, Roots!bounds
<1>3. PICK r \in {Roots!Idle} \cup Ops :
         /\ op' = [op EXCEPT ![w] = r]
         /\ r = Roots!Idle \/ (r = [op[w] EXCEPT !.at = "written"] /\ w \in RootInside)
  <2>1. [op[w] EXCEPT !.at = "written"] \in Ops
    BY <1>1 DEF Ops, Places
  <2>2. QED
    BY <2>1 DEF Roots!Rename
<1>4. op'[w] = r /\ (\A v \in RootWriters : v # w => op'[v] = op[v]) /\ r.at \in {"idle", "written"}
  BY <1>1, <1>3 DEF RootsInv, RootsTyped, Roots!Idle, Ops
<1>5. o.name \in RootNames /\ o.dir \in RootDirs \cup {Nowhere} /\ o.add \in BOOLEAN
  BY <1>1 DEF Ops
<1>6. Roots!Decide(o) \in RootDirs \cup {Nowhere} /\ new \in Roots!Texts
  BY <1>1, <1>5 DEF Roots!Decide, Roots!Texts
<1>7. config' \in Roots!Texts /\ (new # o.text => config' = new) /\ (new = o.text => config' = config)
  BY <1>2, <1>6 DEF RootsInv, RootsTyped, Roots!Change
<1>8. event' \in BOOLEAN /\ unheard' \in BOOLEAN
  BY <1>2, Zenon DEF RootsInv, RootsTyped, Roots!Change
<1>9. owed' \subseteq RootNames \X (RootDirs \cup {Nowhere})
  BY <1>2, <1>5 DEF RootsInv, RootsTyped
<1>10. RootsTyped'
  BY <1>2, <1>3, <1>7, <1>8, <1>9 DEF RootsInv, RootsTyped
<1>11. Writing'
  BY <1>1, <1>2, <1>4 DEF RootsInv, RootsTyped, Writing
<1>12. OwedIsRead'
  <2>1. \A v \in RootWriters : op'[v].at # "read"
    BY <1>11, <1>2 DEF Writing
  <2>2. ASSUME NEW line \in owed' PROVE config'[line[1]] = line[2]
    <3>1. CASE line = <<o.name, o.dir>> /\ config'[o.name] = o.dir
      BY <3>1
    <3>2. CASE line \in owed /\ new = o.text
      BY <1>7, <3>2 DEF RootsInv, OwedIsRead
    <3>3. CASE line \in owed /\ new # o.text /\ line[1] # o.name
      <4>1. line[1] \in RootNames /\ o.text[line[1]] = line[2]
        BY <1>1, <3>3 DEF RootsInv, RootsTyped, OwedIsRead
      <4>2. new[line[1]] = o.text[line[1]]
        BY <1>1, <3>3, <4>1 DEF Roots!Texts
      <4>3. QED
        BY <1>7, <3>3, <4>1, <4>2
    <3>4. QED
      BY <1>2, <2>2, <3>1, <3>2, <3>3
  <2>3. QED
    BY <2>1, <2>2 DEF OwedIsRead
<1>13. \A v \in RootWriters :
           /\ op'[v].at \in {"written", "reloading"} =>
                 v \in RootInside /\ (server = "watching" \/ op[v].at \in {"written", "reloading"})
           /\ op[v].at = "reloading" => op'[v].at = "reloading"
           /\ op[v] = Roots!Idle => op'[v] = Roots!Idle
  BY <1>1, <1>3, <1>4 DEF RootsInv, Heard, Roots!Idle
<1>14. Heard'
  <2>1. CASE new = o.text
    BY <1>2, <1>7, <1>13, <2>1 DEF RootsInv, RootsTyped, Heard
  <2>2. CASE new # o.text
    <3>1. reading # Roots!NoReading => reading.by \in RootWriters \cup {Roots!Watch}
      BY DEF RootsInv, RootsTyped
    <3>2. QED
      BY <1>2, <1>13, <2>2, <3>1, RootsChange DEF RootsInv, RootsTyped
  <2>3. QED
    BY <2>1, <2>2
<1>15. QED
  BY <1>10, <1>11, <1>12, <1>14 DEF RootsInv

\* Whoever writes without the lock owes no more than the lines that the new text has.
LEMMA RootsUnlocked ==
    ASSUME Roots!RootsConstants, RootsInv, NEW text \in Roots!Texts, Roots!Change(text), owed' \subseteq Roots!Kept(text),
           readable' \in BOOLEAN, init' \in Roots!Texts \cup {Nowhere},
           UNCHANGED <<lock, op, server, reading, inForce>>
    PROVE  RootsInv'
<1> USE DEF Roots!RootsConstants
<1>1. config' = text /\ owed' \subseteq owed /\ \A line \in owed' : text[line[1]] = line[2]
  BY DEF Roots!Change, Roots!Kept
<1>2. event' \in BOOLEAN /\ unheard' \in BOOLEAN
  BY Zenon DEF RootsInv, RootsTyped, Roots!Change
<1>3. RootsTyped'
  BY <1>1, <1>2 DEF RootsInv, RootsTyped
<1>4. Writing'
  BY DEF RootsInv, Writing
<1>5. OwedIsRead'
  BY <1>1 DEF RootsInv, OwedIsRead
<1>6. Heard'
  <2>1. reading # Roots!NoReading => reading.by \in RootWriters \cup {Roots!Watch}
    BY DEF RootsInv, RootsTyped
  <2>2. \A w \in RootWriters : op[w].at \in {"written", "reloading"} => w \in RootInside
    BY DEF RootsInv, Heard
  <2>3. QED
    BY <2>1, <2>2, RootsChange DEF RootsInv, RootsTyped
<1>7. QED
  BY <1>3, <1>4, <1>5, <1>6 DEF RootsInv

LEMMA RootsOthers ==
    ASSUME Roots!RootsConstants, RootsInv,
           (\E text \in Roots!Texts : Roots!EditByHand(text)) \/ Roots!MakeReadable \/ Roots!InitReads \/ Roots!InitWrites
    PROVE  RootsInv'
<1> USE DEF Roots!RootsConstants
<1>1. ASSUME NEW text \in Roots!Texts, Roots!EditByHand(text) PROVE RootsInv'
  BY <1>1, RootsUnlocked DEF Roots!EditByHand, RootsInv, RootsTyped
<1>2. CASE Roots!MakeReadable
  <2>1. owed' \subseteq Roots!Kept(config)
    BY <1>2 DEF Roots!MakeReadable, Roots!Kept, RootsInv, OwedIsRead
  <2>2. QED
    BY <1>2, <2>1, RootsUnlocked DEF Roots!MakeReadable, Roots!bounds, RootsInv, RootsTyped
<1>3. CASE Roots!InitReads
  BY <1>3 DEF Roots!InitReads, RootsInv, RootsTyped, Writing, OwedIsRead, Heard
<1>4. CASE Roots!InitWrites
  BY <1>4, RootsUnlocked DEF Roots!InitWrites, Roots!bounds, RootsInv, RootsTyped
<1>5. QED
  BY <1>1, <1>2, <1>3, <1>4

\* A record of two fields is not the record of one.
LEMMA AReading == \A by, text : [by |-> by, text |-> text] # Roots!NoReading
BY DEF Roots!NoReading

LEMMA RootsServer ==
    ASSUME Roots!RootsConstants, RootsInv, Roots!Mount \/ Roots!WatchConfig \/ Roots!Settle \/ Roots!Apply
    PROVE  RootsInv'
<1> USE DEF Roots!RootsConstants, Roots!bounds
<1>1. CASE Roots!Mount
  BY <1>1 DEF Roots!Mount, RootsInv, RootsTyped, Writing, OwedIsRead, Heard
<1>2. CASE Roots!WatchConfig
  BY <1>2 DEF Roots!WatchConfig, RootsInv, RootsTyped, Writing, OwedIsRead, Heard
<1>3. CASE Roots!Settle
  <2>1. reading' = [by |-> Roots!Watch, text |-> IF readable THEN config ELSE inForce]
    BY <1>3 DEF Roots!Settle, Roots!BeginReload
  <2>2. RootsTyped'
    BY <1>3, <2>1 DEF Roots!Settle, RootsInv, RootsTyped
  <2>3. Writing' /\ OwedIsRead'
    BY <1>3 DEF Roots!Settle, RootsInv, Writing, OwedIsRead
  <2>4. Heard'
    BY <1>3, <2>1, AReading DEF Roots!Settle, RootsInv, Heard
  <2>5. QED
    BY <2>2, <2>3, <2>4 DEF RootsInv
<1>4. CASE Roots!Apply
  <2>1. PICK w \in RootWriters \cup {Roots!Watch}, text \in Roots!Texts : reading = [by |-> w, text |-> text]
    BY <1>4 DEF Roots!Apply, RootsInv, RootsTyped
  <2>2. /\ inForce' = text /\ reading' = Roots!NoReading
        /\ op' = [v \in RootWriters |-> IF v = w THEN Roots!Idle ELSE op[v]]
        /\ UNCHANGED <<config, readable, lock, init, server, event, owed, unheard>>
    BY <1>4, <2>1 DEF Roots!Apply
  <2>3. \A v \in RootWriters : op'[v] = op[v] \/ (op'[v] = Roots!Idle /\ op[v].at = "reloading")
    BY <1>4, <2>1, <2>2 DEF Roots!Apply, RootsInv, Heard
  <2>4. RootsTyped'
    BY <2>2 DEF RootsInv, RootsTyped
  <2>5. Writing'
    BY <2>2, <2>3 DEF RootsInv, Writing, Roots!Idle
  <2>6. OwedIsRead'
    BY <2>2, <2>3 DEF RootsInv, OwedIsRead, Roots!Idle
  <2>7. Heard'
    BY <1>4, <2>1, <2>2, <2>3 DEF Roots!Apply, RootsInv, RootsTyped, Heard, Roots!Idle
  <2>8. QED
    BY <2>4, <2>5, <2>6, <2>7 DEF RootsInv
<1>5. QED
  BY <1>1, <1>2, <1>3, <1>4

LEMMA RootsReload ==
    ASSUME Roots!RootsConstants, RootsInv, NEW w \in RootWriters, Roots!Reload(w)
    PROVE  RootsInv'
<1> USE DEF Roots!RootsConstants, Roots!bounds, Roots!Reload
<1>1. op[w] \in Ops /\ op[w].at = "written" /\ w \in RootInside
  BY DEF RootsInv, RootsTyped, Roots!Idle, Heard
<1>2. op'[w] = [op[w] EXCEPT !.at = "reloading"] /\ \A v \in RootWriters : v # w => op'[v] = op[v]
  BY DEF RootsInv, RootsTyped
<1>3. op'[w] \in Ops /\ op'[w].at = "reloading"
  BY <1>1, <1>2 DEF Ops, Places
<1>4. reading = Roots!NoReading /\ reading' = [by |-> w, text |-> IF readable THEN config ELSE inForce]
  BY DEF Roots!BeginReload
<1>5. RootsTyped'
  BY <1>3, <1>4 DEF RootsInv, RootsTyped
<1>6. Writing'
  BY <1>1, <1>2, <1>3 DEF RootsInv, RootsTyped, Writing
<1>7. OwedIsRead'
  BY <1>2, <1>3 DEF RootsInv, OwedIsRead
<1>8. Heard'
  BY <1>1, <1>2, <1>3, <1>4, AReading DEF RootsInv, RootsTyped, Heard, Roots!Idle
<1>9. QED
  BY <1>5, <1>6, <1>7, <1>8 DEF RootsInv

LEMMA RootsStep ==
    ASSUME Roots!RootsConstants, RootsInv, Roots!Next \/ UNCHANGED Roots!vars
    PROVE  RootsInv'
<1>1. CASE UNCHANGED Roots!vars
  BY <1>1 DEF Roots!vars, RootsInv, RootsTyped, Writing, OwedIsRead, Heard
<1>2. QED
  BY <1>1, RootsAsk, RootsLock, RootsRead, RootsRename, RootsReload, RootsOthers, RootsServer
  DEF Roots!Next, Roots!Write

LEMMA RootsFollow ==
    ASSUME RootsInv
    PROVE  RootsStanding
BY DEF RootsInv, OwedIsRead, Heard, RootsStanding, Roots!AddedStays, Roots!InForceOrDue

-----------------------------------------------------------------------------
(* The restores into one directory.                                        *)

TwoStores == {store1, store2}

\* A store that is verified has verified, and whole; what is not being built, or was cleared
\* away, is not there; and what fills the directory came of a restore or of someone else.
IntoInv ==
    /\ at = [r \in Into!Restores |-> at[r]] /\ staging = [r \in TwoStores |-> staging[r]]
    /\ \A r \in TwoStores :
          /\ at[r] \in {"asked", "checked", "merge", "looked", "parented", "loading", "verified",
                        "refused", "over", "restored"}
          /\ at[r] = "verified" => r \in good /\ staging[r] = Into!Whole(r)
          /\ at[r] \in {"asked", "checked", "merge", "looked", "parented", "restored"} =>
                staging[r] = Into!Absent
          /\ at[r] = "over" /\ r \notin killed => staging[r] = Into!Absent
          /\ r \in killed => at[r] = "over"
    /\ at[scripts1] \in {"asked", "checked", "merge", "over", "restored"}
    /\ into \notin {Into!Absent, {}} =>
          \/ <<stranger, "file">> \in into
          \/ \E s \in Into!Restores : at[s] = "restored"
          \/ at[scripts1] # "asked"

LEMMA IntoBegins ==
    ASSUME Into!Init
    PROVE  IntoInv
BY IntoBounds DEF Into!Init, IntoInv, TwoStores, Into!Restores, Into!IntoConstants

\* Restores differ, and none is who else writes there.
LEMMA IntoApart ==
    /\ store1 # scripts1 /\ store2 # scripts1
    /\ stranger \notin {store1, store2, scripts1}
    /\ \A r \in TwoStores : r \notin {scripts1} /\ r \in Into!Restores
    /\ Into!Restores = TwoStores \union {scripts1}
BY IntoBounds DEF Into!IntoConstants, Into!Restores, TwoStores

\* What a store comes to: nothing of it was there.
LEMMA NothingOfStores ==
    ASSUME NEW r \in TwoStores
    PROVE  /\ Into!Absent \intersect Into!Whole(r) = {}
           /\ Into!Whole(r) \notin {Into!Absent, {}}
           /\ \A q \in Into!Restores : \A p : q # r => <<q, p>> \notin Into!Whole(r)
           /\ \A p : <<stranger, p>> \notin Into!Whole(r)
<1>1. Into!Absent \intersect Into!Whole(r) = {}
  BY IntoApart DEF Into!Absent, Into!Whole
<1>2. <<r, "first">> \in Into!Whole(r)
  BY DEF Into!Whole
<1>3. Into!Whole(r) \notin {Into!Absent, {}}
  BY <1>1, <1>2
<1>4. \A q \in Into!Restores : \A p : q # r => <<q, p>> \notin Into!Whole(r)
  BY DEF Into!Whole
<1>5. \A p : <<stranger, p>> \notin Into!Whole(r)
  <2>1. stranger # r
    BY IntoApart DEF TwoStores
  <2>2. QED
    BY <2>1 DEF Into!Whole
<1>6. QED
  BY <1>1, <1>3, <1>4, <1>5

LEMMA IntoStep ==
    ASSUME IntoInv, Into!Next \/ UNCHANGED intoVars
    PROVE  IntoInv'
<1>1. CASE UNCHANGED intoVars
  BY <1>1 DEF intoVars, IntoInv
<1>2. ASSUME NEW r \in Into!Restores,
             Into!Check(r) \/ Into!Look(r) \/ Into!MakeParent(r) \/ Into!Begin(r)
      PROVE  IntoInv'
  BY <1>2, IntoApart DEF IntoInv, Into!Check, Into!Look, Into!MakeParent, Into!Begin, Into!Go
<1>3. ASSUME NEW r \in Into!Restores,
             Into!Verify(r) \/ Into!Drop(r) \/ Into!ReadBack(r) \/ Into!Fail(r)
      PROVE  IntoInv'
  BY <1>3, IntoApart DEF IntoInv, Into!Verify, Into!Drop, Into!ReadBack, Into!Fail, Into!Go,
                         TwoStores
<1>4. ASSUME NEW r \in Into!Restores, Into!Finish(r) PROVE IntoInv'
  BY <1>4, IntoApart DEF IntoInv, Into!Finish, Into!Go
<1>5. ASSUME NEW r \in Into!Restores, NEW p \in {"first", "second"},
             Into!Load(r, p) \/ Into!Write(r, p)
      PROVE  IntoInv'
  BY <1>5, IntoApart DEF IntoInv, Into!Load, Into!Write, TwoStores
<1>6. CASE Into!Intrude
  BY <1>6 DEF IntoInv, Into!Intrude
<1>7. CASE killed = {} /\ Into!Kill
  BY <1>7, IntoApart DEF IntoInv, Into!Kill
<1>8. QED
  BY <1>1, <1>2, <1>3, <1>4, <1>5, <1>6, <1>7 DEF Into!Next

\* What a step may do to the directory and to a restore that asks.
LEMMA IntoMoves ==
    ASSUME IntoInv, Into!Next
    PROVE  /\ \A r \in TwoStores : into' \cap Into!Whole(r) # into \cap Into!Whole(r) =>
                into \in {Into!Absent, {}} /\ into' = Into!Whole(r) /\ r \in good
           /\ \A r \in TwoStores : at[r] = "asked" /\ at'[r] = "merge" =>
                \/ <<stranger, "file">> \in into
                \/ \E s \in Into!Restores :
                      at[s] = "restored" \/ (s \in {scripts1} /\ at[s] # "asked")
<1>1. ASSUME NEW r \in TwoStores, into' \cap Into!Whole(r) # into \cap Into!Whole(r)
      PROVE  into \in {Into!Absent, {}} /\ into' = Into!Whole(r) /\ r \in good
  <2>1. CASE \E q \in Into!Restores : Into!Finish(q)
    <3>1. PICK q \in Into!Restores : Into!Finish(q)
      BY <2>1
    <3>2. q \in TwoStores /\ into \in {Into!Absent, {}} /\ into' = Into!Whole(q) /\ q \in good
      BY <1>1, <3>1, IntoApart DEF IntoInv, Into!Finish, Into!Go
    <3>3. into \cap Into!Whole(r) = {}
      BY <3>2, NothingOfStores
    <3>4. q = r
      <4>1. q # r => Into!Whole(q) \cap Into!Whole(r) = {}
        BY DEF Into!Whole
      <4>2. QED
        BY <1>1, <3>2, <3>3, <4>1
    <3>5. QED
      BY <3>2, <3>4
  <2>2. CASE Into!Intrude
    <3>1. into' \cap Into!Whole(r) = into \cap Into!Whole(r)
      BY <2>2, NothingOfStores DEF Into!Intrude, Into!There
    <3>2. QED
      BY <1>1, <3>1
  <2>3. ASSUME NEW q \in Into!Restores, NEW p \in {"first", "second"}, Into!Write(q, p)
        PROVE  FALSE
    <3>1. q = scripts1 /\ q # r
      BY <2>3, IntoApart DEF Into!Write
    <3>2. <<q, p>> \notin Into!Whole(r)
      BY <3>1, NothingOfStores
    <3>3. into' \cap Into!Whole(r) = into \cap Into!Whole(r)
      BY <2>3, <3>2, NothingOfStores DEF Into!Write, Into!There
    <3>4. QED
      BY <1>1, <3>3
  <2>4. QED
    BY <1>1, <2>1, <2>2, <2>3
    DEF Into!Next, Into!Check, Into!Look, Into!MakeParent, Into!Begin, Into!Verify, Into!Drop,
        Into!ReadBack, Into!Fail, Into!Load, Into!Kill
<1>2. ASSUME NEW r \in TwoStores, at[r] = "asked", at'[r] = "merge"
      PROVE  into \notin {Into!Absent, {}}
  <2>1. r \in Into!Restores /\ at = [q \in Into!Restores |-> at[q]]
    BY IntoApart DEF IntoInv
  <2>2. CASE \E q \in Into!Restores : Into!Check(q)
    <3>1. PICK q \in Into!Restores : Into!Check(q)
      BY <2>2
    <3>2. q = r
      BY <1>2, <2>1, <3>1 DEF Into!Check, Into!Go
    <3>3. QED
      BY <1>2, <2>1, <3>1, <3>2 DEF Into!Check, Into!Go
  <2>3. ASSUME NEW q \in Into!Restores,
               Into!Look(q) \/ Into!MakeParent(q) \/ Into!Begin(q) \/ Into!Drop(q)
               \/ Into!Verify(q) \/ Into!Finish(q) \/ Into!ReadBack(q)
        PROVE  FALSE
    <3>1. PICK from, to : from # "asked" /\ to # "merge" /\ Into!Go(q, from, to)
      BY <2>3, Zenon DEF Into!Look, Into!MakeParent, Into!Begin, Into!Drop, Into!Verify,
                         Into!Finish, Into!ReadBack
    <3>2. QED
      BY <1>2, <2>1, <3>1 DEF Into!Go
  <2>4. ASSUME NEW q \in Into!Restores, Into!Fail(q) PROVE FALSE
    BY <1>2, <2>1, <2>4 DEF Into!Fail
  <2>5. CASE Into!Kill
    BY <1>2, <2>1, <2>5 DEF Into!Kill
  <2>6. QED
    BY <1>2, <2>2, <2>3, <2>4, <2>5 DEF Into!Next, Into!Load, Into!Write, Into!Intrude
<1>3. QED
  BY <1>1, <1>2, IntoApart DEF IntoInv

-----------------------------------------------------------------------------
(* The stamps are numbers up to a bound: the first and the last of them, and *)
(* the oldest so many.                                                       *)

LEMMA MostOf ==
    ASSUME NEW N \in Nat, NEW T \in SUBSET (0 .. N), T # {}
    PROVE  \E n \in T : \A m \in T : m <= n
<1> DEFINE Left == {N - m : m \in T}
<1>1. PICK k \in Left : \A l \in Left : k <= l
  <2>1. Left \in SUBSET Nat /\ Left # {}
    <3>1. \A m \in T : N - m \in Nat
      OBVIOUS
    <3>2. \E m : m \in T
      OBVIOUS
    <3>3. QED
      BY <3>1, <3>2, Zenon
  <2>2. QED
    BY <2>1, LeastOf
<1>2. PICK n \in T : k = N - n
  BY <1>1
<1>3. ASSUME NEW m \in T PROVE m <= n
  <2>1. N - m \in Left
    OBVIOUS
  <2>2. N - n <= N - m
    BY <1>1, <1>2, <2>1
  <2>3. QED
    BY <2>2
<1>4. QED
  BY <1>3

LEMMA MaxMin ==
    ASSUME NEW N \in Nat, NEW T \in SUBSET (0 .. N), T # {}
    PROVE  /\ Backups!Max(T) \in T /\ \A m \in T : m <= Backups!Max(T)
           /\ Backups!Min(T) \in T /\ \A m \in T : Backups!Min(T) <= m
<1>1. \E n \in T : \A m \in T : n >= m
  BY MostOf
<1>2. \E n \in T : \A m \in T : n =< m
  BY LeastOf
<1>3. Backups!Max(T) \in T /\ \A m \in T : Backups!Max(T) >= m
  BY <1>1, Zenon DEF Backups!Max
<1>4. Backups!Min(T) \in T /\ \A m \in T : Backups!Min(T) =< m
  BY <1>2, Zenon DEF Backups!Min
<1>5. QED
  BY <1>3, <1>4

LEMMA DiskCounts == \A S : Backups!Cardinality(S) = Cardinality(S)
BY Zenon DEF Backups!Cardinality, Cardinality

LEMMA OldestIs ==
    ASSUME NEW S, NEW n, NEW s
    PROVE  s \in Backups!Oldest(S, n) <=> s \in S /\ Cardinality({r \in S : r <= s}) <= n
<1>1. Backups!Cardinality({r \in S : r <= s}) = Cardinality({r \in S : r <= s})
  BY DiskCounts
<1>2. s \in Backups!Oldest(S, n) <=> s \in S /\ Backups!Cardinality({r \in S : r <= s}) <= n
  BY Zenon DEF Backups!Oldest
<1>3. QED
  BY <1>1, <1>2, Zenon

LEMMA OldestHas ==
    ASSUME NEW S, NEW n, NEW s \in S
    PROVE  s \in Backups!Oldest(S, n) <=> Cardinality({r \in S : r <= s}) <= n
BY OldestIs, Zenon

LEMMA OldestWithin ==
    ASSUME NEW S, NEW n
    PROVE  Backups!Oldest(S, n) \subseteq S
BY OldestIs

\* Of a set of k the n oldest are n.
LEMMA OldestAre ==
    ASSUME NEW N \in Nat, NEW n \in Nat, NEW S \in SUBSET (0 .. N), n <= Cardinality(S)
    PROVE  Cardinality(Backups!Oldest(S, n)) = n
<1> DEFINE Bad(k) == \E T \in SUBSET (0 .. N) :
                        Cardinality(T) = k /\ n <= k /\ Cardinality(Backups!Oldest(T, n)) # n
           Ks == {k \in Nat : Bad(k)}
<1>1. \A T \in SUBSET (0 .. N) : IsFiniteSet(T) /\ Cardinality(T) \in Nat
  <2>1. IsFiniteSet(0 .. N)
    BY FS_Interval
  <2>2. \A T \in SUBSET (0 .. N) : IsFiniteSet(T)
    BY <2>1, FS_Subset, Zenon
  <2>3. QED
    BY <2>2, FS_CardinalityType, Zenon
<1>2. SUFFICES ASSUME Ks # {} PROVE FALSE
  BY <1>1
<1>3. PICK k \in Ks : \A l \in Ks : k <= l
  <2>1. Ks \in SUBSET Nat
    OBVIOUS
  <2>2. QED
    BY <1>2, <2>1, LeastOf
<1>4. PICK T \in SUBSET (0 .. N) :
        Cardinality(T) = k /\ n <= k /\ Cardinality(Backups!Oldest(T, n)) # n
  BY <1>3
<1>14. k \in Nat
  BY <1>3
<1> HIDE DEF Ks
<1>5. \A s \in T : Cardinality({r \in T : r <= s}) \in Nat /\ Cardinality({r \in T : r <= s}) <= k
  <2>1. ASSUME NEW s \in T
        PROVE  Cardinality({r \in T : r <= s}) \in Nat /\ Cardinality({r \in T : r <= s}) <= k
    <3> DEFINE U == {r \in T : r <= s}
    <3>1. U \in SUBSET T /\ U \in SUBSET (0 .. N)
      OBVIOUS
    <3> HIDE DEF U
    <3>2. Cardinality(U) \in Nat /\ Cardinality(U) <= Cardinality(T)
      BY <3>1, <1>1, FS_Subset
    <3>3. QED
      BY <1>4, <3>2 DEF U
  <2>2. QED
    BY <2>1
<1>6. n # k
  <2>1. ASSUME n = k PROVE Backups!Oldest(T, n) = T
    <3>1. \A s \in T : Cardinality({r \in T : r <= s}) <= n
      BY <1>5, <2>1
    <3>2. QED
      <4>1. \A s \in T : s \in Backups!Oldest(T, n)
        <5>1. ASSUME NEW s \in T PROVE s \in Backups!Oldest(T, n)
          BY <3>1, OldestIs, Zenon
        <5>2. QED
          BY <5>1
      <4>2. QED
        BY <4>1, OldestWithin, Zenon
  <2>2. QED
    BY <1>4, <2>1
<1>7. T # {}
  <2>1. T = {} => k = 0
    BY <1>4, FS_EmptySet
  <2>2. QED
    BY <1>4, <1>6, <2>1
<1>8. PICK m \in T : \A s \in T : s <= m
  BY <1>7, MostOf
<1> DEFINE V == T \ {m}
<1>9. V \in SUBSET (0 .. N) /\ Cardinality(V) = k - 1
  <2>1. IsFiniteSet(T)
    BY <1>1
  <2>2. QED
    BY <1>4, <2>1, FS_RemoveElement
<1>10. Backups!Oldest(T, n) = Backups!Oldest(V, n)
  <2>1. {r \in T : r <= m} = T
    BY <1>8
  <2>2. m \notin Backups!Oldest(T, n)
    <3>1. ~(k <= n)
      BY <1>4, <1>6, <1>14
    <3>2. m \in Backups!Oldest(T, n) => Cardinality({r \in T : r <= m}) <= n
      BY OldestIs
    <3>3. QED
      BY <1>4, <2>1, <3>1, <3>2, Zenon
  <2>3. ASSUME NEW s \in V PROVE {r \in T : r <= s} = {r \in V : r <= s}
    BY <1>8, <2>3
  <2>4. ASSUME NEW s PROVE s \in Backups!Oldest(T, n) <=> s \in Backups!Oldest(V, n)
    <3>1. CASE s \in V
      <4>1. {r \in T : r <= s} = {r \in V : r <= s}
        BY <2>3, <3>1
      <4>2. s \in T
        BY <3>1
      <4>3. s \in Backups!Oldest(T, n) <=> Cardinality({r \in T : r <= s}) <= n
        BY <4>2, OldestIs, Zenon
      <4>4. s \in Backups!Oldest(V, n) <=> Cardinality({r \in V : r <= s}) <= n
        BY <3>1, OldestHas
      <4>5. QED
        BY <4>1, <4>3, <4>4
    <3>2. CASE s \notin V
      <4>1. s \notin Backups!Oldest(V, n)
        BY <3>2, OldestWithin, Zenon
      <4>2. s \in Backups!Oldest(T, n) => s \in T
        BY OldestWithin, Zenon
      <4>3. QED
        BY <2>2, <3>2, <4>1, <4>2
    <3>3. QED
      BY <3>1, <3>2
  <2>5. QED
    BY <2>4, Zenon
<1>11. k - 1 \in Nat /\ n <= k - 1
  BY <1>3, <1>4, <1>6 DEF Ks
<1>12. Bad(k - 1)
  BY <1>4, <1>9, <1>10, <1>11
<1>13. QED
  BY <1>3, <1>11, <1>12 DEF Ks

-----------------------------------------------------------------------------
(* The rotation of the backups.                                            *)

Holding == {"locked", "archived", "scripted", "published", "pruning"}
Taking == [at : {"dumped", "stamped"} \union Holding, backup : 1 .. MaxBackups,
           stamp : Backups!Stamps, since : Backups!Stamps, doomed : SUBSET Backups!Stamps,
           file : {"sidecar", "scripts", "archive"}]

RotTyped ==
    /\ clock \in Backups!Stamps
    /\ archive \in [Backups!Stamps -> 0 .. Backups!NoBackup]
    /\ scripts \in [Backups!Stamps -> 0 .. Backups!NoBackup]
    /\ sidecar \in [Backups!Stamps -> 0 .. Backups!NoBackup]
    /\ withScripts \in BOOLEAN
    /\ take \in [Backups!Takers -> {Backups!Idle} \union Taking]
    /\ process \in [up : BOOLEAN, since : Backups!Stamps, due : Nat, failed : BOOLEAN]
    /\ taken \in 0 .. MaxBackups /\ cut \subseteq Backups!Stamps
    /\ stuck \subseteq Backups!Stamps
    /\ last \in [stamp : Backups!Stamps, backup : 0 .. Backups!NoBackup, newest : Backups!Stamps]

\* The process did not start later than now.
SinceStarted == process.up => process.since <= clock

\* Whoever is past its lock is alone there; a backup is of this start of the process, took its
\* stamp since it began, and is not slower than RunTime.
AloneAt(q, t) ==
    /\ q.at \in Holding <=> rotation = t
    /\ q # Backups!Idle =>
          /\ process.up /\ process.since <= q.since /\ q.since <= clock
          /\ clock - q.since <= RunTime
          /\ q.at # "dumped" => q.since <= q.stamp /\ q.stamp <= clock
Alone == \A t \in Backups!Takers : AloneAt(take[t], t)

\* Of three files of a stamp the archive is written first and removed last, but for those of
\* which one would not be removed; and a prune goes on when the file before is gone.
Publishing(t) == take[t].at \in {"archived", "scripted"}
Vouched(s) == /\ archive[s] = sidecar[s]
              /\ withScripts => scripts[s] = sidecar[s]
PassedBy(q) ==
    q.at = "pruning" /\ q.doomed # {} /\ Backups!Min(q.doomed) \notin stuck =>
        /\ q.file # "sidecar" => sidecar[Backups!Min(q.doomed)] = Backups!NoBackup
        /\ q.file = "archive" => scripts[Backups!Min(q.doomed)] = Backups!NoBackup
Files ==
    /\ \A s \in Backups!Stamps \ stuck :
          /\ sidecar[s] # Backups!NoBackup \/ scripts[s] # Backups!NoBackup =>
                archive[s] # Backups!NoBackup
          /\ s \notin cut /\ sidecar[s] # Backups!NoBackup
             /\ (\A t \in Backups!Takers : Publishing(t) => take[t].stamp # s) => Vouched(s)
    /\ \A t \in Backups!Takers :
          /\ Publishing(t) => archive[take[t].stamp] = take[t].backup
          /\ take[t].at = "scripted" /\ withScripts => scripts[take[t].stamp] = take[t].backup
          /\ PassedBy(take[t])

\* The last one published has its sidecar; whoever has published and still holds the lock was
\* the last, spares its own, and leaves `keep` of those there are, and what would not go.
SparesOf(q, A, published) ==
    /\ q.at \in {"published", "pruning"} =>
          /\ published.stamp = q.stamp /\ published.backup = q.backup
          /\ published.newest >= q.stamp
    /\ q.at = "pruning" =>
          /\ q.stamp \notin q.doomed
          /\ q.doomed \subseteq A
          /\ Cardinality((A \ q.doomed) \ stuck) <= Keep
          /\ q.doomed # {} => Cardinality(A \ q.doomed) >= Keep
Spared ==
    /\ last.backup # Backups!NoBackup => sidecar[last.stamp] = last.backup /\ last.stamp \notin stuck
    /\ \A t \in Backups!Takers : SparesOf(take[t], Backups!Archives, last)

\* The next run is due by what is on disk, by what was published since, or soon.
DueSoon ==
    process.up /\ process.due # Backups!NoTime /\ ~process.failed =>
        \/ process.due <= process.since + CatchUp
        \/ Backups!Archives # {} /\ process.due <= last.newest + Every + RunTime
        \/ /\ process.due <= process.since + Every
           /\ \E s \in Backups!Archives : process.due <= s + Every

RotInv == RotTyped /\ SinceStarted /\ Alone /\ Files /\ Spared /\ DueSoon

-----------------------------------------------------------------------------
(* What a prune removes, and how the steps of one taker read.               *)

LEMMA RotationNumbers ==
    /\ Keep \in Nat /\ Keep >= 1 /\ MaxClock \in Nat /\ MaxClock >= 1
    /\ Every \in Nat /\ CatchUp \in Nat /\ RunTime \in Nat /\ MaxBackups \in Nat
    /\ Backups!NoTime \in Nat /\ Backups!NoTime = MaxClock + Every + CatchUp + 1
    /\ Backups!NoBackup \in Nat /\ Backups!NoBackup = MaxBackups + 1
    /\ Backups!Nobody \notin Backups!Takers
    /\ Backups!Stamps = 0 .. MaxClock
BY RotationBounds DEF Backups!RotationConstants, Backups!NoTime, Backups!NoBackup, Backups!Stamps

LEMMA StampsAreFinite ==
    ASSUME NEW S \in SUBSET Backups!Stamps
    PROVE  IsFiniteSet(S) /\ Cardinality(S) \in Nat
<1>1. IsFiniteSet(0 .. MaxClock)
  BY FS_Interval, RotationNumbers
<1>2. QED
  BY <1>1, FS_Subset, FS_CardinalityType, RotationNumbers

LEMMA FewerAre ==
    ASSUME NEW T \in SUBSET Backups!Stamps, NEW S \in SUBSET T
    PROVE  Cardinality(S) <= Cardinality(T) /\ Cardinality(S) \in Nat /\ Cardinality(T) \in Nat
<1>1. S \in SUBSET Backups!Stamps
  OBVIOUS
<1>2. IsFiniteSet(T) /\ Cardinality(S) \in Nat /\ Cardinality(T) \in Nat
  BY <1>1, StampsAreFinite
<1>3. QED
  BY <1>2, FS_Subset

LEMMA OneLess ==
    ASSUME NEW S, IsFiniteSet(S), NEW x \in S
    PROVE  /\ IsFiniteSet(S \ {x}) /\ Cardinality(S \ {x}) \in Nat
           /\ Cardinality(S) = Cardinality(S \ {x}) + 1
<1>1. IsFiniteSet(S \ {x}) /\ Cardinality(S \ {x}) = Cardinality(S) - 1
  BY FS_RemoveElement
<1>2. Cardinality(S) \in Nat /\ Cardinality(S \ {x}) \in Nat
  BY <1>1, FS_CardinalityType
<1>3. QED
  BY <1>1, <1>2

LEMMA ArchivesAreStamps == Backups!Archives \in SUBSET Backups!Stamps
BY DEF Backups!Archives

\* Of the others all but the newest keep - 1 are doomed, and what stays is `keep`, or fewer
\* when there were no more.
LEMMA DoomedAre ==
    ASSUME NEW stamp \in Backups!Archives
    PROVE  LET left == Cardinality(Backups!Archives \ Backups!Doomed(stamp))
           IN  /\ Backups!Doomed(stamp) \subseteq Backups!Archives
               /\ stamp \notin Backups!Doomed(stamp)
               /\ left <= Keep /\ (Backups!Doomed(stamp) # {} => left = Keep)
<1> DEFINE A == Backups!Archives
           O == A \ {stamp}
           k == Cardinality(O)
           n == IF k > Keep - 1 THEN k - (Keep - 1) ELSE 0
           D == Backups!Oldest(O, n)
<1>1. Backups!Doomed(stamp) = D
  BY DiskCounts DEF Backups!Doomed
<1>2. A \in SUBSET (0 .. MaxClock) /\ O \in SUBSET (0 .. MaxClock)
  BY ArchivesAreStamps, RotationNumbers
<1>3. IsFiniteSet(A) /\ IsFiniteSet(O) /\ k \in Nat /\ Cardinality(A) = k + 1
  <2>1. IsFiniteSet(A)
    BY ArchivesAreStamps, StampsAreFinite
  <2>2. stamp \in A
    OBVIOUS
  <2> HIDE DEF A
  <2>3. QED
    BY <2>1, <2>2, OneLess
<1>4. n \in Nat /\ n <= k
  BY <1>3, RotationNumbers
<1>5. D \subseteq O
  BY OldestWithin
<1>6. Cardinality(D) = n
  <2> HIDE DEF A, O, n
  <2>1. n <= Cardinality(O)
    BY <1>4
  <2>2. QED
    BY <1>2, <1>4, <2>1, OldestAre, RotationNumbers
<1>7. Cardinality(A \ D) = k + 1 - n
  <2>1. A \cap D = D
    BY <1>5
  <2>4. IsFiniteSet(A) /\ Cardinality(A) = k + 1
    BY <1>3
  <2> HIDE DEF A, D, k, n
  <2>2. Cardinality(A \ D) = Cardinality(A) - Cardinality(A \cap D)
    BY <2>4, FS_Difference
  <2>3. QED
    BY <1>3, <1>4, <1>6, <2>1, <2>2, <2>4
<1>8. D # {} => n # 0
  <2>1. IsFiniteSet(D)
    BY <1>3, <1>5, FS_Subset
  <2> HIDE DEF D, n
  <2>2. QED
    BY <1>6, <2>1, FS_EmptySet
<1>9. Cardinality(A \ D) <= Keep /\ (D # {} => Cardinality(A \ D) = Keep)
  <2>1. k + 1 - n <= Keep /\ (n # 0 => k + 1 - n = Keep)
    <3>1. k \in Nat
      BY <1>3
    <3> HIDE DEF k
    <3>2. QED
      BY <3>1, RotationNumbers
  <2> HIDE DEF A, D, k, n
  <2>2. QED
    BY <1>7, <1>8, <2>1
<1>10. QED
  BY <1>1, <1>5, <1>9

LEMMA TimesAre ==
    ASSUME RotTyped
    PROVE  /\ clock \in Nat /\ clock \in Backups!Stamps /\ 0 \in Backups!Stamps
           /\ process.since \in Nat /\ process.since \in Backups!Stamps /\ process.due \in Nat
           /\ process.up \in BOOLEAN /\ process.failed \in BOOLEAN
           /\ taken \in Nat /\ taken <= MaxBackups
           /\ last.stamp \in Nat /\ last.stamp \in Backups!Stamps
           /\ last.newest \in Nat /\ last.newest \in Backups!Stamps
           /\ last.backup \in 0 .. Backups!NoBackup
<1>1. clock \in Backups!Stamps /\ taken \in 0 .. MaxBackups
  BY DEF RotTyped
<1>2. process \in [up : BOOLEAN, since : Backups!Stamps, due : Nat, failed : BOOLEAN]
  BY DEF RotTyped
<1>3. last \in [stamp : Backups!Stamps, backup : 0 .. Backups!NoBackup, newest : Backups!Stamps]
  BY DEF RotTyped
<1>4. \A s \in Backups!Stamps : s \in Nat
  BY RotationNumbers
<1>5. 0 \in Backups!Stamps
  BY RotationNumbers
<1>6. QED
  BY <1>1, <1>2, <1>3, <1>4, <1>5, RotationNumbers

LEMMA TakerIs ==
    ASSUME RotTyped, NEW t \in Backups!Takers
    PROVE  \/ take[t] = Backups!Idle /\ take[t].at = "idle"
           \/ /\ take[t] \in Taking /\ take[t].at # "idle" /\ take[t] # Backups!Idle
              /\ take[t].backup \in 1 .. MaxBackups /\ take[t].stamp \in Backups!Stamps
              /\ take[t].since \in Backups!Stamps /\ take[t].doomed \subseteq Backups!Stamps
              /\ take[t].file \in {"sidecar", "scripts", "archive"}
BY DEF RotTyped, Backups!Idle, Taking, Holding

LEMMA Becomes ==
    ASSUME RotTyped, NEW t \in Backups!Takers, NEW q \in {Backups!Idle} \union Taking,
           take' = [take EXCEPT ![t] = q]
    PROVE  /\ take' \in [Backups!Takers -> {Backups!Idle} \union Taking]
           /\ take'[t] = q /\ \A u \in Backups!Takers : u # t => take'[u] = take[u]
BY DEF RotTyped

LEMMA TakerMoves ==
    ASSUME RotTyped, NEW t \in Backups!Takers, take[t].at # "idle",
           NEW to \in {"dumped", "stamped"} \union Holding, take' = [take EXCEPT ![t].at = to]
    PROVE  /\ take' \in [Backups!Takers -> {Backups!Idle} \union Taking]
           /\ take'[t].at = to /\ take'[t] # Backups!Idle /\ take'[t].backup = take[t].backup
           /\ take'[t].stamp = take[t].stamp /\ take'[t].since = take[t].since
           /\ take'[t].doomed = take[t].doomed
           /\ \A u \in Backups!Takers : u # t => take'[u] = take[u]
<1>1. take[t] \in Taking
  BY TakerIs
<1> DEFINE q == [take[t] EXCEPT !.at = to]
<1>2. q \in Taking /\ q.at = to /\ q.backup = take[t].backup /\ q.stamp = take[t].stamp
      /\ q.since = take[t].since /\ q.doomed = take[t].doomed /\ q # Backups!Idle
  BY <1>1 DEF Taking, Holding, Backups!Idle
<1>3. take' = [take EXCEPT ![t] = q]
  BY DEF RotTyped
<1> HIDE DEF q
<1>4. QED
  BY <1>2, <1>3, Becomes

\* What holds of a taker that does not step, and of one that does.
LEMMA AloneStays ==
    ASSUME RotInv, NEW u \in Backups!Takers, take'[u] = take[u],
           (rotation' = u) <=> (rotation = u),
           process'.up = process.up, process'.since = process.since, clock' = clock
    PROVE  AloneAt(take[u], u)'
BY DEF RotInv, Alone, AloneAt

LEMMA AloneGoes ==
    ASSUME RotInv, NEW t \in Backups!Takers, take[t] # Backups!Idle,
           (take'[t].at \in Holding) <=> (rotation' = t),
           take'[t].since = take[t].since,
           take'[t].at # "dumped" =>
              \/ take[t].at # "dumped" /\ take'[t].stamp = take[t].stamp
              \/ take'[t].stamp = clock,
           process'.up = process.up, process'.since = process.since, clock' = clock
    PROVE  AloneAt(take[t], t)'
<1>1. take[t].since \in Nat /\ clock \in Nat /\ process.since \in Nat
  BY TakerIs, TimesAre, RotationNumbers DEF RotInv
<1>2. AloneAt(take[t], t)
  BY DEF RotInv, Alone
<1>3. QED
  BY <1>1, <1>2 DEF AloneAt

LEMMA FilesStay ==
    ASSUME Files, archive' = archive, scripts' = scripts, sidecar' = sidecar,
           withScripts' = withScripts, cut' = cut, stuck' = stuck,
           \A u \in Backups!Takers :
              \/ take'[u] = take[u]
              \/ /\ take'[u].at \notin {"archived", "scripted"}
                 /\ take[u].at \notin {"archived", "scripted"}
                 /\ take'[u].at = "pruning" => take'[u].file = "sidecar"
    PROVE  Files'
<1>1. \A u \in Backups!Takers : PassedBy(take[u])'
  BY DEF Files, PassedBy
<1>2. QED
  BY <1>1 DEF Files, Vouched, Publishing

LEMMA SparedStay ==
    ASSUME Spared, archive' = archive, sidecar' = sidecar, last' = last, stuck' = stuck,
           \A u \in Backups!Takers :
              take'[u] = take[u] \/ take'[u].at \notin {"published", "pruning"}
    PROVE  Spared'
<1>1. Backups!Archives' = Backups!Archives
  BY DEF Backups!Archives
<1>2. ASSUME NEW u \in Backups!Takers PROVE SparesOf(take[u], Backups!Archives, last)'
  <2>1. SparesOf(take[u], Backups!Archives, last)
    BY DEF Spared
  <2>2. CASE take'[u] = take[u]
    BY <1>1, <2>1, <2>2 DEF SparesOf
  <2>3. CASE take'[u].at \notin {"published", "pruning"}
    BY <2>3 DEF SparesOf
  <2>4. QED
    BY <2>2, <2>3
<1>3. QED
  BY <1>2 DEF Spared

LEMMA DueStays ==
    ASSUME DueSoon, archive' = archive, last' = last,
           process' = process \/ ~process'.up \/ process'.due = Backups!NoTime
    PROVE  DueSoon'
BY DEF DueSoon, Backups!Archives

LEMMA OneHolds ==
    ASSUME RotInv, NEW t \in Backups!Takers, take[t].at \in Holding
    PROVE  rotation = t /\ \A u \in Backups!Takers : u # t => take[u].at \notin Holding
BY DEF RotInv, Alone, AloneAt

\* As long as archives only come, and the newest only grows, the next run stays soon.
LEMMA DueGrows ==
    ASSUME RotInv, Backups!Archives \subseteq Backups!Archives', process' = process,
           last'.newest \in Nat, last.newest <= last'.newest
    PROVE  DueSoon'
<1>1. process.due \in Nat /\ last.newest \in Nat
  BY TimesAre DEF RotInv
<1>2. Backups!Archives # {} => Backups!Archives' # {}
  OBVIOUS
<1>3. ASSUME process'.up, process'.due # Backups!NoTime, ~process'.failed
      PROVE  \/ process.due <= process.since + CatchUp
             \/ Backups!Archives' # {} /\ process.due <= last'.newest + Every + RunTime
             \/ /\ process.due <= process.since + Every
                /\ \E s \in Backups!Archives' : process.due <= s + Every
  <2>1. \/ process.due <= process.since + CatchUp
        \/ Backups!Archives # {} /\ process.due <= last.newest + Every + RunTime
        \/ /\ process.due <= process.since + Every
           /\ \E s \in Backups!Archives : process.due <= s + Every
    BY <1>3 DEF RotInv, DueSoon
  <2>2. process.due <= last.newest + Every + RunTime
           => process.due <= last'.newest + Every + RunTime
    BY <1>1, RotationNumbers
  <2>3. QED
    BY <1>2, <2>1, <2>2
<1>4. QED
  BY <1>3 DEF DueSoon

-----------------------------------------------------------------------------
(* The steps of the rotation, one action at a time.                         *)

LEMMA RotBegins ==
    ASSUME Backups!Init
    PROVE  RotInv
<1>1. RotTyped
  BY RotationNumbers DEF Backups!Init, RotTyped, Backups!Found, Taking, Holding
<1>2. Alone /\ Spared /\ DueSoon /\ SinceStarted
  BY RotationNumbers DEF Backups!Init, Alone, AloneAt, Spared, SparesOf, DueSoon, SinceStarted,
                         Holding, Backups!Idle
<1>3. Files
  BY RotationNumbers DEF Backups!Init, Files, PassedBy, Vouched, Publishing, Backups!Idle,
                         Backups!Found
<1>4. QED
  BY <1>1, <1>2, <1>3 DEF RotInv

LEMMA RotDump ==
    ASSUME RotInv, NEW t \in Backups!Takers, Backups!Dump(t)
    PROVE  RotInv'
<1> DEFINE q == [at |-> "dumped", backup |-> taken + 1, stamp |-> 0, since |-> clock,
                 doomed |-> {}, file |-> "sidecar"]
<1>1. q \in Taking /\ q.at = "dumped" /\ q.since = clock /\ q # Backups!Idle
  <2>1. taken + 1 \in 1 .. MaxBackups /\ 0 \in Backups!Stamps /\ clock \in Backups!Stamps
    <3>1. taken < MaxBackups
      BY DEF Backups!Dump
    <3>2. QED
      BY <3>1, TimesAre, RotationNumbers DEF RotInv
  <2>2. QED
    BY <2>1 DEF Taking, Backups!Idle
<1>2. take' = [take EXCEPT ![t] = q] /\ take[t] = Backups!Idle
  BY DEF Backups!Dump
<1> HIDE DEF q
<1>3. /\ take' \in [Backups!Takers -> {Backups!Idle} \union Taking]
      /\ take'[t] = q /\ \A u \in Backups!Takers : u # t => take'[u] = take[u]
  BY <1>1, <1>2, Becomes DEF RotInv
<1>4. /\ process'.up /\ process.up /\ process'.since = process.since
      /\ process' = process \/ process'.due = Backups!NoTime
      /\ process' \in [up : BOOLEAN, since : Backups!Stamps, due : Nat, failed : BOOLEAN]
  BY RotationNumbers DEF Backups!Dump, RotInv, RotTyped
<1>5. /\ clock' = clock /\ rotation' = rotation /\ archive' = archive /\ scripts' = scripts
      /\ sidecar' = sidecar /\ withScripts' = withScripts /\ cut' = cut /\ last' = last
      /\ stuck' = stuck
      /\ taken' \in 0 .. MaxBackups
  <2>1. taken < MaxBackups /\ taken' = taken + 1
    BY DEF Backups!Dump
  <2>2. taken' \in 0 .. MaxBackups
    BY <2>1, TimesAre, RotationNumbers DEF RotInv
  <2>3. QED
    BY <2>2 DEF Backups!Dump, Backups!disk
<1>6. RotTyped'
  BY <1>3, <1>4, <1>5, RotationNumbers DEF RotInv, RotTyped
<1>7. Alone'
  <2>1. ASSUME NEW u \in Backups!Takers, u # t PROVE AloneAt(take[u], u)'
    BY <1>3, <1>4, <1>5, <2>1, AloneStays
  <2>2. AloneAt(take[t], t)'
    <3>1. take[t].at \notin Holding /\ rotation # t
      BY <1>2 DEF RotInv, Alone, AloneAt, Backups!Idle, Holding
    <3>2. clock \in Nat /\ process.since \in Nat /\ process.since <= clock
      BY <1>4, TimesAre DEF RotInv, SinceStarted
    <3>3. QED
      BY <1>1, <1>3, <1>4, <1>5, <3>1, <3>2, RotationNumbers DEF AloneAt, Holding
  <2>3. QED
    BY <2>1, <2>2 DEF Alone
<1>8. Files' /\ Spared' /\ DueSoon' /\ SinceStarted'
  <2>1. \A u \in Backups!Takers :
           \/ take'[u] = take[u]
           \/ /\ take'[u].at \notin {"archived", "scripted", "published", "pruning"}
              /\ take[u].at \notin {"archived", "scripted"}
    BY <1>1, <1>2, <1>3 DEF Backups!Idle
  <2>2. QED
    BY <1>4, <1>5, <2>1, FilesStay, SparedStay, DueStays DEF RotInv, SinceStarted
<1>9. QED
  BY <1>6, <1>7, <1>8 DEF RotInv

LEMMA RotTakeStamp ==
    ASSUME RotInv, NEW t \in Backups!Takers, Backups!TakeStamp(t)
    PROVE  RotInv'
<1> DEFINE q == [take[t] EXCEPT !.at = "stamped", !.stamp = clock]
<1>1. q \in Taking /\ q.at = "stamped" /\ q.since = take[t].since /\ q # Backups!Idle
      /\ q.stamp = clock /\ take[t].at = "dumped" /\ take[t] # Backups!Idle
  <2>1. take[t].at = "dumped" /\ take[t] \in Taking /\ take[t] # Backups!Idle
    BY TakerIs DEF Backups!TakeStamp, RotInv, Backups!Idle
  <2>2. clock \in Backups!Stamps
    BY DEF RotInv, RotTyped
  <2>3. QED
    BY <2>1, <2>2 DEF Taking, Backups!Idle
<1>2. take' = [take EXCEPT ![t] = q]
  BY DEF Backups!TakeStamp, RotInv, RotTyped
<1> HIDE DEF q
<1>3. /\ take' \in [Backups!Takers -> {Backups!Idle} \union Taking]
      /\ take'[t] = q /\ \A u \in Backups!Takers : u # t => take'[u] = take[u]
  BY <1>1, <1>2, Becomes DEF RotInv
<1>4. /\ clock' = clock /\ rotation' = rotation /\ archive' = archive /\ scripts' = scripts
      /\ sidecar' = sidecar /\ withScripts' = withScripts /\ cut' = cut /\ last' = last
      /\ stuck' = stuck
      /\ taken' = taken /\ process' = process
  BY DEF Backups!TakeStamp, Backups!disk
<1>6. RotTyped'
  BY <1>3, <1>4, RotationNumbers DEF RotInv, RotTyped
<1>7. Alone'
  <2>1. ASSUME NEW u \in Backups!Takers, u # t PROVE AloneAt(take[u], u)'
    BY <1>3, <1>4, <2>1, AloneStays
  <2>2. AloneAt(take[t], t)'
    <3>1. (take'[t].at \in Holding) <=> (rotation' = t)
      BY <1>1, <1>3, <1>4 DEF RotInv, Alone, AloneAt, Holding
    <3>2. QED
      BY <1>1, <1>3, <1>4, <3>1, AloneGoes
  <2>3. QED
    BY <2>1, <2>2 DEF Alone
<1>8. Files' /\ Spared' /\ DueSoon' /\ SinceStarted'
  <2>1. \A u \in Backups!Takers :
           \/ take'[u] = take[u]
           \/ /\ take'[u].at \notin {"archived", "scripted", "published", "pruning"}
              /\ take[u].at \notin {"archived", "scripted"}
    BY <1>1, <1>3
  <2>2. QED
    BY <1>4, <2>1, FilesStay, SparedStay, DueStays DEF RotInv, SinceStarted
<1>9. QED
  BY <1>6, <1>7, <1>8 DEF RotInv

LEMMA RotLock ==
    ASSUME RotInv, NEW t \in Backups!Takers, Backups!LockRotation(t)
    PROVE  RotInv'
<1>1. take[t].at = "stamped" /\ take[t].at # "idle" /\ take[t] # Backups!Idle
  BY TakerIs DEF Backups!LockRotation, Backups!At, Backups!Idle
<1>2. /\ take' = [take EXCEPT ![t].at = "locked"] /\ rotation = Backups!Nobody /\ rotation' = t
      /\ clock' = clock /\ archive' = archive /\ scripts' = scripts
      /\ sidecar' = sidecar /\ withScripts' = withScripts /\ cut' = cut /\ last' = last
      /\ stuck' = stuck
      /\ taken' = taken /\ process' = process
  BY DEF Backups!LockRotation, Backups!At, Backups!disk
<1>3. /\ take' \in [Backups!Takers -> {Backups!Idle} \union Taking]
      /\ take'[t].at = "locked" /\ take'[t] # Backups!Idle
      /\ take'[t].stamp = take[t].stamp /\ take'[t].since = take[t].since
      /\ \A u \in Backups!Takers : u # t => take'[u] = take[u]
  BY <1>1, <1>2, TakerMoves DEF RotInv, Holding
<1>6. RotTyped'
  BY <1>2, <1>3, RotationNumbers DEF RotInv, RotTyped
<1>7. Alone'
  <2>1. ASSUME NEW u \in Backups!Takers, u # t PROVE AloneAt(take[u], u)'
    BY <1>2, <1>3, <2>1, AloneStays, RotationNumbers
  <2>2. AloneAt(take[t], t)'
    BY <1>1, <1>2, <1>3, AloneGoes DEF Holding
  <2>3. QED
    BY <2>1, <2>2 DEF Alone
<1>8. Files' /\ Spared' /\ DueSoon' /\ SinceStarted'
  <2>1. \A u \in Backups!Takers :
           \/ take'[u] = take[u]
           \/ /\ take'[u].at \notin {"archived", "scripted", "published", "pruning"}
              /\ take[u].at \notin {"archived", "scripted"}
    BY <1>1, <1>3
  <2>2. QED
    BY <1>2, <2>1, FilesStay, SparedStay, DueStays DEF RotInv, SinceStarted
<1>9. QED
  BY <1>6, <1>7, <1>8 DEF RotInv

LEMMA RotWriteArchive ==
    ASSUME RotInv, NEW t \in Backups!Takers, Backups!WriteArchive(t)
    PROVE  RotInv'
<1>1. take[t].at = "locked" /\ take[t].at # "idle" /\ take[t] # Backups!Idle
  BY TakerIs DEF Backups!WriteArchive, Backups!At, Backups!Idle
<1>2. /\ take' = [take EXCEPT ![t].at = "archived"] /\ rotation' = rotation
      /\ clock' = clock /\ archive' = [archive EXCEPT ![take[t].stamp] = take[t].backup]
      /\ scripts' = scripts /\ sidecar' = sidecar /\ withScripts' = withScripts
      /\ cut' = cut /\ last' = last /\ taken' = taken /\ process' = process /\ stuck' = stuck
  BY DEF Backups!WriteArchive, Backups!At
<1>3. /\ take' \in [Backups!Takers -> {Backups!Idle} \union Taking]
      /\ take'[t].at = "archived" /\ take'[t] # Backups!Idle
      /\ take'[t].stamp = take[t].stamp /\ take'[t].since = take[t].since
      /\ take'[t].backup = take[t].backup
      /\ \A u \in Backups!Takers : u # t => take'[u] = take[u]
  BY <1>1, <1>2, TakerMoves DEF RotInv, Holding
<1>4. rotation = t /\ \A u \in Backups!Takers : u # t => take[u].at \notin Holding
  BY <1>1, OneHolds DEF Holding
<1>5. /\ take[t].backup \in 1 .. MaxBackups /\ take[t].stamp \in Backups!Stamps
      /\ take[t].backup # Backups!NoBackup /\ take[t].backup \in 0 .. Backups!NoBackup
  BY <1>1, TakerIs, RotationNumbers DEF RotInv
<1>6. /\ archive' \in [Backups!Stamps -> 0 .. Backups!NoBackup]
      /\ archive'[take[t].stamp] = take[t].backup
      /\ \A s \in Backups!Stamps : s # take[t].stamp => archive'[s] = archive[s]
  BY <1>2, <1>5 DEF RotInv, RotTyped
<1>7. RotTyped'
  BY <1>2, <1>3, <1>6, RotationNumbers DEF RotInv, RotTyped
<1>8. Alone'
  <2>1. ASSUME NEW u \in Backups!Takers, u # t PROVE AloneAt(take[u], u)'
    BY <1>2, <1>3, <2>1, AloneStays
  <2>2. AloneAt(take[t], t)'
    BY <1>1, <1>2, <1>3, <1>4, AloneGoes DEF Holding
  <2>3. QED
    BY <2>1, <2>2 DEF Alone
<1>9. Files'
  BY <1>1, <1>2, <1>3, <1>4, <1>5, <1>6 DEF RotInv, Files, PassedBy, Vouched, Publishing, Holding
<1>10. Spared'
  BY <1>2, <1>3, <1>4 DEF RotInv, Spared, SparesOf, Holding
<1>11. DueSoon' /\ SinceStarted'
  <2>1. Backups!Archives \subseteq Backups!Archives'
    BY <1>5, <1>6 DEF Backups!Archives
  <2>2. QED
    BY <1>2, <2>1, DueGrows, TimesAre DEF RotInv, SinceStarted
<1>12. QED
  BY <1>7, <1>8, <1>9, <1>10, <1>11 DEF RotInv

LEMMA RotWriteScripts ==
    ASSUME RotInv, NEW t \in Backups!Takers, Backups!WriteScripts(t)
    PROVE  RotInv'
<1>1. take[t].at = "archived" /\ take[t].at # "idle" /\ take[t] # Backups!Idle
  BY TakerIs DEF Backups!WriteScripts, Backups!At, Backups!Idle
<1>2. /\ take' = [take EXCEPT ![t].at = "scripted"] /\ rotation' = rotation
      /\ clock' = clock /\ archive' = archive
      /\ scripts' = IF withScripts THEN [scripts EXCEPT ![take[t].stamp] = take[t].backup]
                                   ELSE scripts
      /\ sidecar' = sidecar /\ withScripts' = withScripts
      /\ cut' = cut /\ last' = last /\ taken' = taken /\ process' = process /\ stuck' = stuck
  BY DEF Backups!WriteScripts, Backups!At
<1>3. /\ take' \in [Backups!Takers -> {Backups!Idle} \union Taking]
      /\ take'[t].at = "scripted" /\ take'[t] # Backups!Idle
      /\ take'[t].stamp = take[t].stamp /\ take'[t].since = take[t].since
      /\ take'[t].backup = take[t].backup
      /\ \A u \in Backups!Takers : u # t => take'[u] = take[u]
  BY <1>1, <1>2, TakerMoves DEF RotInv, Holding
<1>4. rotation = t /\ \A u \in Backups!Takers : u # t => take[u].at \notin Holding
  BY <1>1, OneHolds DEF Holding
<1>5. /\ take[t].backup \in 1 .. MaxBackups /\ take[t].stamp \in Backups!Stamps
      /\ take[t].backup # Backups!NoBackup /\ take[t].backup \in 0 .. Backups!NoBackup
  BY <1>1, TakerIs, RotationNumbers DEF RotInv
<1>6. /\ scripts' \in [Backups!Stamps -> 0 .. Backups!NoBackup]
      /\ withScripts => scripts'[take[t].stamp] = take[t].backup
      /\ \A s \in Backups!Stamps : s # take[t].stamp \/ ~withScripts => scripts'[s] = scripts[s]
  <2>1. CASE withScripts
    BY <1>2, <1>5, <2>1 DEF RotInv, RotTyped
  <2>2. CASE ~withScripts
    BY <1>2, <1>5, <2>2 DEF RotInv, RotTyped
  <2>3. QED
    BY <2>1, <2>2
<1>7. RotTyped'
  BY <1>2, <1>3, <1>6, RotationNumbers DEF RotInv, RotTyped
<1>8. Alone'
  <2>1. ASSUME NEW u \in Backups!Takers, u # t PROVE AloneAt(take[u], u)'
    BY <1>2, <1>3, <2>1, AloneStays
  <2>2. AloneAt(take[t], t)'
    BY <1>1, <1>2, <1>3, <1>4, AloneGoes DEF Holding
  <2>3. QED
    BY <2>1, <2>2 DEF Alone
<1>9. Files'
  <2>1. archive[take[t].stamp] = take[t].backup
    BY <1>1 DEF RotInv, Files, Publishing
  <2>2. /\ archive' = archive /\ sidecar' = sidecar /\ withScripts' = withScripts /\ cut' = cut
        /\ stuck' = stuck
    BY <1>2
  <2>3. QED
    BY <1>1, <1>3, <1>4, <1>5, <1>6, <2>1, <2>2
    DEF RotInv, Files, PassedBy, Vouched, Publishing, Holding
<1>10. Spared'
  BY <1>2, <1>3, <1>4 DEF RotInv, Spared, SparesOf, Holding
<1>11. DueSoon' /\ SinceStarted'
  BY <1>2, DueStays DEF RotInv, SinceStarted
<1>12. QED
  BY <1>7, <1>8, <1>9, <1>10, <1>11 DEF RotInv

LEMMA RotWriteSidecar ==
    ASSUME RotInv, NEW t \in Backups!Takers, Backups!WriteSidecar(t)
    PROVE  RotInv'
<1>1. take[t].at = "scripted" /\ take[t].at # "idle" /\ take[t] # Backups!Idle
  BY TakerIs DEF Backups!WriteSidecar, Backups!At, Backups!Idle
<1>2. /\ take' = [take EXCEPT ![t].at = "published"] /\ rotation' = rotation
      /\ clock' = clock /\ archive' = archive /\ scripts' = scripts
      /\ sidecar' = [sidecar EXCEPT ![take[t].stamp] = take[t].backup]
      /\ withScripts' = withScripts /\ cut' = cut \ {take[t].stamp}
      /\ stuck' = stuck \ {take[t].stamp}
      /\ last'.stamp = take[t].stamp /\ last'.backup = take[t].backup
      /\ taken' = taken /\ process' = process
  BY DEF Backups!WriteSidecar, Backups!At
<1>3. /\ take' \in [Backups!Takers -> {Backups!Idle} \union Taking]
      /\ take'[t].at = "published" /\ take'[t] # Backups!Idle
      /\ take'[t].stamp = take[t].stamp /\ take'[t].since = take[t].since
      /\ take'[t].backup = take[t].backup /\ take'[t].doomed = take[t].doomed
      /\ \A u \in Backups!Takers : u # t => take'[u] = take[u]
  BY <1>1, <1>2, TakerMoves DEF RotInv, Holding
<1>4. rotation = t /\ \A u \in Backups!Takers : u # t => take[u].at \notin Holding
  BY <1>1, OneHolds DEF Holding
<1>5. /\ take[t].backup \in 1 .. MaxBackups /\ take[t].stamp \in Backups!Stamps
      /\ take[t].backup # Backups!NoBackup /\ take[t].backup \in 0 .. Backups!NoBackup
  BY <1>1, TakerIs, RotationNumbers DEF RotInv
<1>6. /\ sidecar' \in [Backups!Stamps -> 0 .. Backups!NoBackup]
      /\ sidecar'[take[t].stamp] = take[t].backup
      /\ \A s \in Backups!Stamps : s # take[t].stamp => sidecar'[s] = sidecar[s]
  BY <1>2, <1>5 DEF RotInv, RotTyped
<1>13. /\ last'.newest \in Backups!Stamps /\ last'.newest >= take[t].stamp
       /\ last'.newest >= last.newest /\ last'.newest \in Nat
       /\ last' \in [stamp : Backups!Stamps, backup : 0 .. Backups!NoBackup,
                     newest : Backups!Stamps]
  <2> DEFINE T == {last.newest, take[t].stamp}
  <2>1. T \in SUBSET (0 .. MaxClock) /\ T # {}
    BY <1>5, TimesAre, RotationNumbers DEF RotInv
  <2>2. last' = [stamp |-> take[t].stamp, backup |-> take[t].backup, newest |-> Backups!Max(T)]
    BY DEF Backups!WriteSidecar
  <2>3. Backups!Max(T) \in T /\ \A m \in T : m <= Backups!Max(T)
    BY <2>1, MaxMin, RotationNumbers
  <2>4. Backups!Max(T) \in 0 .. MaxClock
    BY <2>1, <2>3
  <2>5. last.newest <= Backups!Max(T) /\ take[t].stamp <= Backups!Max(T)
    BY <2>3
  <2> HIDE DEF T
  <2>6. last'.newest = Backups!Max(T)
    BY <2>2
  <2>7. last' \in [stamp : Backups!Stamps, backup : 0 .. Backups!NoBackup,
                   newest : Backups!Stamps]
    BY <2>2, <2>4, <1>5, RotationNumbers
  <2>8. last.newest \in Nat /\ take[t].stamp \in Nat
    BY <1>5, TimesAre, RotationNumbers DEF RotInv
  <2>9. QED
    BY <2>4, <2>5, <2>6, <2>7, <2>8, RotationNumbers
<1>7. RotTyped'
  BY <1>2, <1>3, <1>6, <1>13, RotationNumbers DEF RotInv, RotTyped
<1>8. Alone'
  <2>1. ASSUME NEW u \in Backups!Takers, u # t PROVE AloneAt(take[u], u)'
    BY <1>2, <1>3, <2>1, AloneStays
  <2>2. AloneAt(take[t], t)'
    BY <1>1, <1>2, <1>3, <1>4, AloneGoes DEF Holding
  <2>3. QED
    BY <2>1, <2>2 DEF Alone
<1>9. Files'
  <2>1. /\ archive[take[t].stamp] = take[t].backup
        /\ withScripts => scripts[take[t].stamp] = take[t].backup
    BY <1>1 DEF RotInv, Files, Publishing
  <2>2. archive' = archive /\ scripts' = scripts /\ withScripts' = withScripts
    BY <1>2
  <2>3. \A s \in Backups!Stamps : s # take[t].stamp => /\ s \notin cut' => s \notin cut
                                                       /\ s \notin stuck' => s \notin stuck
    BY <1>2
  <2>4. QED
    BY <1>1, <1>3, <1>4, <1>5, <1>6, <2>1, <2>2, <2>3
    DEF RotInv, Files, PassedBy, Vouched, Publishing, Holding
<1>10. Spared'
  <2>1. ASSUME NEW u \in Backups!Takers PROVE SparesOf(take[u], Backups!Archives, last)'
    <3>1. CASE u = t
      BY <1>2, <1>3, <1>13, <3>1 DEF SparesOf
    <3>2. CASE u # t
      BY <1>3, <1>4, <3>2 DEF SparesOf, Holding
    <3>3. QED
      BY <3>1, <3>2
  <2>2. QED
    BY <1>2, <1>6, <2>1 DEF Spared
<1>11. DueSoon' /\ SinceStarted'
  <2>1. Backups!Archives \subseteq Backups!Archives'
    BY <1>2 DEF Backups!Archives
  <2>2. QED
    BY <1>2, <1>13, <2>1, DueGrows, TimesAre DEF RotInv, SinceStarted
<1>12. QED
  BY <1>7, <1>8, <1>9, <1>10, <1>11 DEF RotInv

\* What a taker that has published left there.
LEMMA PublishedStands ==
    ASSUME RotInv, NEW t \in Backups!Takers, take[t].at \in {"published", "pruning"}
    PROVE  /\ take[t].stamp \in Backups!Archives /\ take[t].stamp \in Backups!Stamps
           /\ last.stamp = take[t].stamp /\ last.newest >= take[t].stamp
           /\ process.up /\ take[t].stamp \in Nat /\ process.since <= take[t].stamp
           /\ clock <= take[t].stamp + RunTime
<1>1. /\ take[t].backup \in 1 .. MaxBackups /\ take[t].stamp \in Backups!Stamps
      /\ take[t].backup # Backups!NoBackup /\ take[t] # Backups!Idle
      /\ take[t].since \in Nat /\ take[t].stamp \in Nat
  BY TakerIs, RotationNumbers DEF RotInv
<1>2. SparesOf(take[t], Backups!Archives, last) /\ AloneAt(take[t], t)
  BY DEF RotInv, Spared, Alone
<1>3. last.stamp = take[t].stamp /\ last.backup = take[t].backup /\ last.newest >= take[t].stamp
  BY <1>2 DEF SparesOf
<1>4. sidecar[take[t].stamp] # Backups!NoBackup /\ take[t].stamp \notin stuck
  BY <1>1, <1>3 DEF RotInv, Spared
<1>5. take[t].stamp \in Backups!Archives
  BY <1>1, <1>4 DEF RotInv, Files, Backups!Archives
<1>6. /\ process.up /\ process.since <= take[t].since /\ take[t].since <= take[t].stamp
      /\ clock - take[t].since <= RunTime
  BY <1>1, <1>2 DEF AloneAt
<1>7. QED
  BY <1>1, <1>3, <1>5, <1>6, TimesAre, RotationNumbers DEF RotInv

LEMMA RotDecidePrune ==
    ASSUME RotInv, NEW t \in Backups!Takers, Backups!DecidePrune(t)
    PROVE  RotInv'
<1> DEFINE D == Backups!Doomed(take[t].stamp)
           q == [take[t] EXCEPT !.at = "pruning", !.doomed = D, !.file = "sidecar"]
<1>1. take[t].at = "published" /\ take[t].at # "idle" /\ take[t] # Backups!Idle
  BY TakerIs DEF Backups!DecidePrune, Backups!Idle
<1>2. /\ take' = [take EXCEPT ![t] = q] /\ rotation' = rotation
      /\ clock' = clock /\ archive' = archive /\ scripts' = scripts
      /\ sidecar' = sidecar /\ withScripts' = withScripts /\ cut' = cut /\ last' = last
      /\ stuck' = stuck
      /\ taken' = taken /\ process' = process
  BY DEF Backups!DecidePrune, Backups!disk, RotInv, RotTyped
<1>3. take[t].stamp \in Backups!Archives
  BY <1>1, PublishedStands
<1>4. /\ D \subseteq Backups!Archives /\ take[t].stamp \notin D
      /\ Cardinality((Backups!Archives \ D) \ stuck) <= Keep
      /\ D # {} => Cardinality(Backups!Archives \ D) >= Keep
  <2>1. /\ D \subseteq Backups!Archives /\ take[t].stamp \notin D
        /\ Cardinality(Backups!Archives \ D) <= Keep
        /\ D # {} => Cardinality(Backups!Archives \ D) = Keep
    BY <1>3, DoomedAre
  <2> DEFINE T == Backups!Archives \ D
             S == T \ stuck
  <2> HIDE DEF D
  <2>2. T \in SUBSET Backups!Stamps /\ S \in SUBSET T
    BY ArchivesAreStamps
  <2> HIDE DEF T, S
  <2>3. Cardinality(S) <= Cardinality(T) /\ Cardinality(S) \in Nat /\ Cardinality(T) \in Nat
    BY <2>2, FewerAre
  <2>4. Cardinality(T) <= Keep /\ (D # {} => Cardinality(T) = Keep)
    BY <2>1 DEF T
  <2>5. Cardinality(S) <= Keep /\ (D # {} => Cardinality(T) >= Keep)
    BY <2>3, <2>4, RotationNumbers
  <2>6. QED
    BY <2>1, <2>5 DEF T, S
<1>5. D \subseteq Backups!Stamps
  BY <1>4, ArchivesAreStamps
<1> HIDE DEF D
<1>6. q \in Taking /\ q.at = "pruning" /\ q.since = take[t].since /\ q # Backups!Idle
      /\ q.stamp = take[t].stamp /\ q.doomed = D /\ q.backup = take[t].backup
      /\ q.file = "sidecar"
  <2>1. take[t] \in Taking
    BY <1>1, TakerIs DEF RotInv
  <2>2. QED
    BY <1>5, <2>1 DEF Taking, Holding, Backups!Idle
<1> HIDE DEF q
<1>7. /\ take' \in [Backups!Takers -> {Backups!Idle} \union Taking]
      /\ take'[t] = q /\ \A u \in Backups!Takers : u # t => take'[u] = take[u]
  BY <1>2, <1>6, Becomes DEF RotInv
<1>8. RotTyped'
  BY <1>2, <1>7, RotationNumbers DEF RotInv, RotTyped
<1>9. Alone'
  <2>1. ASSUME NEW u \in Backups!Takers, u # t PROVE AloneAt(take[u], u)'
    BY <1>2, <1>7, <2>1, AloneStays
  <2>2. AloneAt(take[t], t)'
    <3>1. (take'[t].at \in Holding) <=> (rotation' = t)
      BY <1>1, <1>2, <1>6, <1>7, OneHolds DEF Holding
    <3>2. QED
      BY <1>1, <1>2, <1>6, <1>7, <3>1, AloneGoes
  <2>3. QED
    BY <2>1, <2>2 DEF Alone
<1>10. Files' /\ DueSoon' /\ SinceStarted'
  <2>1. \A u \in Backups!Takers :
           \/ take'[u] = take[u]
           \/ /\ take'[u].at \notin {"archived", "scripted"}
              /\ take[u].at \notin {"archived", "scripted"}
              /\ take'[u].file = "sidecar"
    BY <1>1, <1>6, <1>7
  <2>2. QED
    BY <1>2, <2>1, FilesStay, DueStays DEF RotInv, SinceStarted
<1>11. Spared'
  <2>1. Backups!Archives' = Backups!Archives
    BY <1>2 DEF Backups!Archives
  <2>2. ASSUME NEW u \in Backups!Takers PROVE SparesOf(take[u], Backups!Archives, last)'
    <3>1. SparesOf(take[u], Backups!Archives, last)
      BY DEF RotInv, Spared
    <3>2. CASE u = t
      BY <1>1, <1>2, <1>4, <1>6, <1>7, <2>1, <3>1, <3>2 DEF SparesOf
    <3>3. CASE u # t
      BY <1>2, <1>7, <2>1, <3>1, <3>3 DEF SparesOf
    <3>4. QED
      BY <3>2, <3>3
  <2>3. QED
    BY <1>2, <2>2 DEF RotInv, Spared
<1>12. QED
  BY <1>8, <1>9, <1>10, <1>11 DEF RotInv

\* The next of the doomed is not the one of the taker, and it is there.
LEMMA NextIsDoomed ==
    ASSUME RotInv, NEW t \in Backups!Takers, take[t].at = "pruning", take[t].doomed # {}
    PROVE  LET s == Backups!Min(take[t].doomed)
           IN  /\ s \in take[t].doomed /\ s \in Backups!Archives /\ s \in Backups!Stamps
               /\ s # take[t].stamp
<1>1. take[t].doomed \subseteq 0 .. MaxClock
  BY TakerIs, RotationNumbers DEF RotInv
<1>2. Backups!Min(take[t].doomed) \in take[t].doomed
  BY <1>1, MaxMin, RotationNumbers
<1>3. take[t].doomed \subseteq Backups!Archives /\ take[t].stamp \notin take[t].doomed
  BY DEF RotInv, Spared, SparesOf
<1>4. QED
  BY <1>2, <1>3, ArchivesAreStamps

LEMMA RotRemoveNext ==
    ASSUME RotInv, NEW t \in Backups!Takers, Backups!RemoveNext(t)
    PROVE  RotInv'
<1> DEFINE s == Backups!Min(take[t].doomed)
           gone(file) == [file EXCEPT ![s] = Backups!NoBackup]
           q == IF take[t].file = "archive"
                THEN [take[t] EXCEPT !.file = "sidecar", !.doomed = take[t].doomed \ {s}]
                ELSE [take[t] EXCEPT !.file = IF take[t].file = "sidecar" THEN "scripts"
                                              ELSE "archive"]
<1>1. take[t].at = "pruning" /\ take[t].doomed # {} /\ take[t].at # "idle" /\ take[t] # Backups!Idle
  BY TakerIs DEF Backups!RemoveNext, Backups!Idle
<1>2. /\ rotation' = rotation /\ clock' = clock /\ withScripts' = withScripts /\ cut' = cut
      /\ last' = last /\ taken' = taken /\ process' = process
  BY DEF Backups!RemoveNext
<1>3. /\ s \in take[t].doomed /\ s \in Backups!Archives /\ s \in Backups!Stamps
      /\ s # take[t].stamp
  BY <1>1, NextIsDoomed
<1>4. PICK goes \in BOOLEAN :
        /\ stuck' = IF goes THEN stuck ELSE stuck \cup {s}
        /\ \/ /\ take[t].file = "sidecar" /\ sidecar' = IF goes THEN gone(sidecar) ELSE sidecar
              /\ take' = [take EXCEPT ![t].file = "scripts"]
              /\ archive' = archive /\ scripts' = scripts
           \/ /\ take[t].file = "scripts" /\ scripts' = IF goes THEN gone(scripts) ELSE scripts
              /\ take' = [take EXCEPT ![t].file = "archive"]
              /\ archive' = archive /\ sidecar' = sidecar
           \/ /\ take[t].file = "archive" /\ archive' = IF goes THEN gone(archive) ELSE archive
              /\ take' = [take EXCEPT ![t].file = "sidecar", ![t].doomed = @ \ {s}]
              /\ scripts' = scripts /\ sidecar' = sidecar
  BY DEF Backups!RemoveNext, Backups!Remove
<1>5. last.stamp = take[t].stamp /\ take[t].stamp \in Backups!Archives
      /\ last.newest >= take[t].stamp /\ process.since <= take[t].stamp /\ take[t].stamp \in Nat
  BY <1>1, PublishedStands
<1>6. rotation = t /\ \A u \in Backups!Takers : u # t => take[u].at \notin Holding
  BY <1>1, OneHolds DEF Holding
<1>7. take' = [take EXCEPT ![t] = q]
  BY <1>4 DEF RotInv, RotTyped
<1>8. /\ q \in Taking /\ q.at = "pruning" /\ q.since = take[t].since /\ q # Backups!Idle
      /\ q.stamp = take[t].stamp /\ q.backup = take[t].backup
      /\ q.doomed = IF take[t].file = "archive" THEN take[t].doomed \ {s} ELSE take[t].doomed
      /\ take[t].file = "sidecar" => q.file = "scripts"
      /\ take[t].file = "scripts" => q.file = "archive"
      /\ take[t].file = "archive" => q.file = "sidecar"
  <2>1. take[t] \in Taking
    BY <1>1, TakerIs DEF RotInv
  <2>2. QED
    BY <1>1, <2>1 DEF Taking, Backups!Idle
<1> HIDE DEF q
<1>9. /\ take' \in [Backups!Takers -> {Backups!Idle} \union Taking]
      /\ take'[t] = q /\ \A u \in Backups!Takers : u # t => take'[u] = take[u]
  BY <1>7, <1>8, Becomes DEF RotInv
<1>10. /\ archive' \in [Backups!Stamps -> 0 .. Backups!NoBackup]
       /\ scripts' \in [Backups!Stamps -> 0 .. Backups!NoBackup]
       /\ sidecar' \in [Backups!Stamps -> 0 .. Backups!NoBackup]
       /\ \A r \in Backups!Stamps : r # s => /\ archive'[r] = archive[r]
                                             /\ scripts'[r] = scripts[r]
                                             /\ sidecar'[r] = sidecar[r]
  <2>1. \A f \in [Backups!Stamps -> 0 .. Backups!NoBackup] :
          /\ gone(f) \in [Backups!Stamps -> 0 .. Backups!NoBackup]
          /\ gone(f)[s] = Backups!NoBackup
          /\ \A r \in Backups!Stamps : r # s => gone(f)[r] = f[r]
    BY <1>3, RotationNumbers
  <2> HIDE DEF gone
  <2>2. /\ archive' \in {archive, gone(archive)} /\ scripts' \in {scripts, gone(scripts)}
        /\ sidecar' \in {sidecar, gone(sidecar)}
    BY <1>4
  <2>3. /\ archive \in [Backups!Stamps -> 0 .. Backups!NoBackup]
        /\ scripts \in [Backups!Stamps -> 0 .. Backups!NoBackup]
        /\ sidecar \in [Backups!Stamps -> 0 .. Backups!NoBackup]
    BY DEF RotInv, RotTyped
  <2>4. QED
    BY <2>1, <2>2, <2>3
<1>11. stuck \subseteq stuck' /\ stuck' \subseteq Backups!Stamps /\ stuck' \subseteq stuck \cup {s}
  BY <1>3, <1>4 DEF RotInv, RotTyped
<1>12. ASSUME s \notin stuck'
       PROVE  /\ take[t].file = "sidecar" => /\ sidecar'[s] = Backups!NoBackup
                                             /\ archive'[s] # Backups!NoBackup
              /\ take[t].file = "scripts" => /\ sidecar'[s] = Backups!NoBackup
                                             /\ scripts'[s] = Backups!NoBackup
                                             /\ archive'[s] # Backups!NoBackup
              /\ take[t].file = "archive" => /\ sidecar'[s] = Backups!NoBackup
                                             /\ scripts'[s] = Backups!NoBackup
  <2>1. goes /\ s \notin stuck
    BY <1>4, <1>12
  <2>2. /\ take[t].file # "sidecar" => sidecar[s] = Backups!NoBackup
        /\ take[t].file = "archive" => scripts[s] = Backups!NoBackup
    BY <1>1, <2>1 DEF RotInv, Files, PassedBy
  <2>3. archive[s] # Backups!NoBackup
    BY <1>3 DEF Backups!Archives
  <2>4. gone(sidecar)[s] = Backups!NoBackup /\ gone(scripts)[s] = Backups!NoBackup
    BY <1>3 DEF RotInv, RotTyped
  <2> HIDE DEF gone
  <2>5. QED
    BY <1>4, <2>1, <2>2, <2>3, <2>4
<1>13. RotTyped'
  BY <1>2, <1>9, <1>10, <1>11 DEF RotInv, RotTyped
<1>14. Alone'
  <2>1. ASSUME NEW u \in Backups!Takers, u # t PROVE AloneAt(take[u], u)'
    BY <1>2, <1>9, <2>1, AloneStays
  <2>2. AloneAt(take[t], t)'
    <3>1. (take'[t].at \in Holding) <=> (rotation' = t)
      BY <1>2, <1>6, <1>8, <1>9 DEF Holding
    <3>2. QED
      BY <1>1, <1>2, <1>8, <1>9, <3>1, AloneGoes
  <2>3. QED
    BY <2>1, <2>2 DEF Alone
<1>15. Files'
  <2>1. \A u \in Backups!Takers : /\ take[u].at \notin {"archived", "scripted"}
                                  /\ take'[u].at \notin {"archived", "scripted"}
                                  /\ u # t => take'[u].at # "pruning"
    BY <1>1, <1>6, <1>8, <1>9 DEF Holding
  <2>2. ASSUME NEW r \in Backups!Stamps \ stuck'
        PROVE  /\ sidecar'[r] # Backups!NoBackup \/ scripts'[r] # Backups!NoBackup =>
                    archive'[r] # Backups!NoBackup
               /\ r \notin cut' /\ sidecar'[r] # Backups!NoBackup => Vouched(r)'
    <3>1. CASE r = s
      <4>1. take[t].file \in {"sidecar", "scripts", "archive"}
        BY <1>4
      <4>2. QED
        BY <1>12, <2>2, <3>1, <4>1
    <3>2. CASE r # s
      BY <1>2, <1>10, <1>11, <2>1, <2>2, <3>2 DEF RotInv, Files, Vouched, Publishing
    <3>3. QED
      BY <3>1, <3>2
  <2>3. PassedBy(take[t])'
    <3>1. CASE take[t].file = "archive"
      BY <1>8, <1>9, <3>1 DEF PassedBy
    <3>2. CASE take[t].file # "archive"
      <4>1. Backups!Min(take'[t].doomed) = s
        BY <1>8, <1>9, <3>2
      <4> HIDE DEF s
      <4>2. QED
        BY <1>4, <1>8, <1>9, <1>12, <3>2, <4>1 DEF PassedBy
    <3>3. QED
      BY <3>1, <3>2
  <2>4. \A u \in Backups!Takers : PassedBy(take[u])'
    BY <2>1, <2>3 DEF PassedBy
  <2>5. QED
    BY <2>1, <2>2, <2>4 DEF Files, Publishing
<1>16. Spared'
  <2> HIDE DEF s
  <2> DEFINE A == Backups!Archives
             B == Backups!Archives'
             D == take[t].doomed
  <2>1. /\ D \subseteq A /\ take[t].stamp \notin D
        /\ Cardinality((A \ D) \ stuck) <= Keep /\ Cardinality(A \ D) >= Keep
        /\ last.stamp = take[t].stamp /\ last.backup = take[t].backup
        /\ last.newest >= take[t].stamp
    BY <1>1 DEF RotInv, Spared, SparesOf
  <2>2. B \ q.doomed \in SUBSET Backups!Stamps /\ A \ D \in SUBSET (B \ q.doomed)
    <3>1. B \in SUBSET Backups!Stamps
      BY DEF Backups!Archives, Backups!Stamps
    <3>2. \A r \in A : r # s => r \in B
      BY <1>10 DEF Backups!Archives
    <3>3. A \ D \in SUBSET (B \ q.doomed)
      BY <1>3, <1>8, <3>2
    <3>4. QED
      BY <3>1, <3>3
  <2>3. (B \ q.doomed) \ stuck' \in SUBSET ((A \ D) \ stuck)
    <3>1. B \in SUBSET A
      BY <1>3, <1>10 DEF Backups!Archives
    <3>2. CASE take[t].file # "archive"
      BY <1>8, <1>11, <3>1, <3>2
    <3>3. CASE take[t].file = "archive"
      <4>1. CASE goes
        <5>1. archive'[s] = Backups!NoBackup
          BY <1>3, <1>4, <3>3, <4>1 DEF RotInv, RotTyped
        <5>2. s \notin B
          BY <5>1 DEF Backups!Archives
        <5>3. QED
          BY <1>8, <1>11, <3>1, <3>3, <5>2
      <4>2. CASE ~goes
        <5>1. s \in stuck'
          BY <1>4, <4>2
        <5>2. QED
          BY <1>8, <1>11, <3>1, <3>3, <5>1
      <4>3. QED
        BY <4>1, <4>2
    <3>4. QED
      BY <3>2, <3>3
  <2>4. q.doomed \subseteq B
    <3>1. \A r \in A : r # s => r \in B
      BY <1>10 DEF Backups!Archives
    <3>2. CASE take[t].file = "archive"
      BY <1>8, <2>1, <3>1, <3>2
    <3>3. CASE take[t].file # "archive"
      <4>1. archive' = archive
        BY <1>4, <3>3
      <4>2. B = A
        BY <4>1 DEF Backups!Archives
      <4>3. QED
        BY <1>8, <2>1, <3>3, <4>2
    <3>4. QED
      BY <3>2, <3>3
  <2>5. q.stamp \notin q.doomed
    BY <1>8, <2>1
  <2>6. (A \ D) \ stuck \in SUBSET Backups!Stamps
    BY ArchivesAreStamps
  <2> HIDE DEF A, B, D
  <2>7. Cardinality((B \ q.doomed) \ stuck') <= Keep
    <3> DEFINE T == (A \ D) \ stuck
               S == (B \ q.doomed) \ stuck'
    <3>1. T \in SUBSET Backups!Stamps /\ S \in SUBSET T /\ Cardinality(T) <= Keep
      BY <2>1, <2>3, <2>6
    <3> HIDE DEF T, S
    <3>2. Cardinality(S) <= Cardinality(T) /\ Cardinality(S) \in Nat /\ Cardinality(T) \in Nat
      BY <3>1, FewerAre
    <3>3. Cardinality(S) <= Keep
      BY <3>1, <3>2, RotationNumbers
    <3>4. QED
      BY <3>3 DEF S
  <2>8. Cardinality(B \ q.doomed) >= Keep
    <3> DEFINE T == B \ q.doomed
               S == A \ D
    <3>1. T \in SUBSET Backups!Stamps /\ S \in SUBSET T /\ Cardinality(S) >= Keep
      BY <2>1, <2>2
    <3> HIDE DEF T, S
    <3>2. Cardinality(S) <= Cardinality(T) /\ Cardinality(S) \in Nat /\ Cardinality(T) \in Nat
      BY <3>1, FewerAre
    <3>3. Cardinality(T) >= Keep
      BY <3>1, <3>2, RotationNumbers
    <3>4. QED
      BY <3>3 DEF T
  <2>9. SparesOf(take[t], Backups!Archives, last)'
    BY <1>2, <1>8, <1>9, <2>1, <2>4, <2>5, <2>7, <2>8 DEF SparesOf, B
  <2>10. ASSUME NEW u \in Backups!Takers PROVE SparesOf(take[u], Backups!Archives, last)'
    <3>1. CASE u = t
      BY <2>9, <3>1
    <3>2. CASE u # t
      BY <1>6, <1>9, <3>2 DEF SparesOf, Holding
    <3>3. QED
      BY <3>1, <3>2
  <2>11. /\ sidecar'[last.stamp] = sidecar[last.stamp]
         /\ last.stamp \notin stuck => last.stamp \notin stuck'
    BY <1>3, <1>5, <1>10, <1>11, ArchivesAreStamps
  <2>12. QED
    BY <1>2, <2>10, <2>11 DEF RotInv, Spared
<1>17. DueSoon' /\ SinceStarted'
  <2> HIDE DEF s
  <2>1. Backups!Archives' # {}
    BY <1>3, <1>5, <1>10 DEF Backups!Archives
  <2>2. ASSUME process.up, process.due # Backups!NoTime, ~process.failed
        PROVE  \/ process.due <= process.since + CatchUp
               \/ process.due <= last.newest + Every + RunTime
    <3>1. \/ process.due <= process.since + CatchUp
          \/ process.due <= last.newest + Every + RunTime
          \/ process.due <= process.since + Every
      BY <2>2 DEF RotInv, DueSoon
    <3>2. process.due \in Nat /\ process.since \in Nat /\ last.newest \in Nat
      BY TimesAre DEF RotInv
    <3>3. process.since <= last.newest
      BY <1>5, <3>2
    <3>4. QED
      BY <3>1, <3>2, <3>3, RotationNumbers
  <2>3. QED
    BY <1>2, <2>1, <2>2 DEF RotInv, DueSoon, SinceStarted
<1>18. QED
  BY <1>13, <1>14, <1>15, <1>16, <1>17 DEF RotInv

\* What the end of a backup leaves: its taker idle, its lock free, and the timer armed anew.
LEMMA EndsTaker ==
    ASSUME RotInv, NEW t \in Backups!Takers, NEW failed \in BOOLEAN, Backups!End(t, failed),
           clock' = clock, take[t] # Backups!Idle
    PROVE  /\ take' \in [Backups!Takers -> {Backups!Idle} \union Taking]
           /\ take'[t] = Backups!Idle /\ \A u \in Backups!Takers : u # t => take'[u] = take[u]
           /\ process' \in [up : BOOLEAN, since : Backups!Stamps, due : Nat, failed : BOOLEAN]
           /\ process'.up /\ process.up /\ process'.since = process.since
           /\ process' = process \/ (process'.due = clock + Every /\ process'.failed = failed)
           /\ Alone'
<1>1. take' = [take EXCEPT ![t] = Backups!Idle]
  BY DEF Backups!End
<1>2. /\ take' \in [Backups!Takers -> {Backups!Idle} \union Taking]
      /\ take'[t] = Backups!Idle /\ \A u \in Backups!Takers : u # t => take'[u] = take[u]
  BY <1>1, Becomes DEF RotInv
<1>3. process.up
  BY DEF RotInv, Alone, AloneAt
<1>4. process \in [up : BOOLEAN, since : Backups!Stamps, due : Nat, failed : BOOLEAN]
  BY DEF RotInv, RotTyped
<1>5. clock + Every \in Nat
  BY TimesAre, RotationNumbers DEF RotInv
<1>6. process' = process \/ process' = [process EXCEPT !.due = clock + Every, !.failed = failed]
  BY DEF Backups!End
<1>7. /\ process' \in [up : BOOLEAN, since : Backups!Stamps, due : Nat, failed : BOOLEAN]
      /\ process'.up /\ process'.since = process.since
      /\ process' = process \/ (process'.due = clock + Every /\ process'.failed = failed)
  <2>1. CASE process' = process
    BY <1>3, <1>4, <2>1
  <2>2. CASE process' = [process EXCEPT !.due = clock + Every, !.failed = failed]
    BY <1>3, <1>4, <1>5, <2>2
  <2>3. QED
    BY <1>6, <2>1, <2>2
<1>8. Alone'
  <2>1. rotation' = IF rotation = t THEN Backups!Nobody ELSE rotation
    BY DEF Backups!End
  <2>2. ASSUME NEW u \in Backups!Takers, u # t PROVE AloneAt(take[u], u)'
    BY <1>2, <1>3, <1>7, <2>1, <2>2, AloneStays, RotationNumbers
  <2>3. AloneAt(take[t], t)'
    BY <1>2, <2>1, RotationNumbers DEF AloneAt, Backups!Idle, Holding
  <2>4. QED
    BY <2>2, <2>3 DEF Alone
<1>9. QED
  BY <1>2, <1>3, <1>7, <1>8

LEMMA RotReport ==
    ASSUME RotInv, NEW t \in Backups!Takers, Backups!Report(t)
    PROVE  RotInv'
<1>1. take[t].at = "pruning" /\ take[t].at # "idle" /\ take[t] # Backups!Idle
  BY TakerIs DEF Backups!Report, Backups!Idle
<1>2. /\ Backups!End(t, FALSE)
      /\ clock' = clock /\ archive' = archive /\ scripts' = scripts
      /\ sidecar' = sidecar /\ withScripts' = withScripts /\ cut' = cut /\ last' = last
      /\ stuck' = stuck
      /\ taken' = taken
  BY DEF Backups!Report, Backups!disk
<1>3. /\ take' \in [Backups!Takers -> {Backups!Idle} \union Taking]
      /\ take'[t] = Backups!Idle /\ \A u \in Backups!Takers : u # t => take'[u] = take[u]
      /\ process' \in [up : BOOLEAN, since : Backups!Stamps, due : Nat, failed : BOOLEAN]
      /\ process'.up /\ process.up /\ process'.since = process.since
      /\ process' = process \/ (process'.due = clock + Every /\ process'.failed = FALSE)
      /\ Alone'
  BY <1>1, <1>2, EndsTaker
<1>4. RotTyped'
  BY <1>2, <1>3 DEF RotInv, RotTyped
<1>5. Files' /\ Spared' /\ SinceStarted'
  <2>1. \A u \in Backups!Takers :
           \/ take'[u] = take[u]
           \/ /\ take'[u].at \notin {"archived", "scripted", "published", "pruning"}
              /\ take[u].at \notin {"archived", "scripted"}
    BY <1>1, <1>3 DEF Backups!Idle
  <2>2. QED
    BY <1>2, <1>3, <2>1, FilesStay, SparedStay DEF RotInv, SinceStarted
<1>6. DueSoon'
  <2>1. CASE process' = process
    BY <1>2, <2>1, DueStays DEF RotInv
  <2>2. CASE process'.due = clock + Every
    <3>1. Backups!Archives' # {}
      BY <1>1, <1>2, PublishedStands DEF Backups!Archives
    <3>2. clock + Every <= last.newest + Every + RunTime
      <4>1. last.newest >= take[t].stamp /\ clock <= take[t].stamp + RunTime
            /\ take[t].stamp \in Nat
        BY <1>1, PublishedStands
      <4>2. clock \in Nat /\ last.newest \in Nat
        BY TimesAre DEF RotInv
      <4>3. QED
        BY <4>1, <4>2, RotationNumbers
    <3>3. QED
      BY <1>2, <2>2, <3>1, <3>2 DEF DueSoon
  <2>3. QED
    BY <1>3, <2>1, <2>2
<1>7. QED
  BY <1>3, <1>4, <1>5, <1>6 DEF RotInv

\* A publication that stops is remembered.
LEMMA CutIsKnown ==
    ASSUME RotInv, archive' = archive, scripts' = scripts, sidecar' = sidecar,
           withScripts' = withScripts, cut \subseteq cut', stuck' = stuck,
           \A u \in Backups!Takers :
              \/ take'[u] = take[u]
              \/ /\ take'[u].at \notin {"archived", "scripted", "published", "pruning"}
                 /\ Publishing(u) => \/ take[u].stamp \in cut'
                                     \/ sidecar[take[u].stamp] = Backups!NoBackup
    PROVE  Files'
<1>1. \A u \in Backups!Takers : Publishing(u)' => take'[u] = take[u]
  BY DEF Publishing
<1>2. ASSUME NEW s \in Backups!Stamps \ stuck, s \notin cut', sidecar[s] # Backups!NoBackup,
             \A u \in Backups!Takers : Publishing(u)' => take'[u].stamp # s
      PROVE  Vouched(s)
  <2>1. ASSUME NEW u \in Backups!Takers, Publishing(u) PROVE take[u].stamp # s
    BY <1>2, <2>1 DEF Publishing
  <2>2. QED
    BY <1>2, <2>1 DEF RotInv, Files
<1>3. \A u \in Backups!Takers : PassedBy(take[u])'
  BY DEF RotInv, Files, PassedBy
<1>4. QED
  BY <1>1, <1>2, <1>3 DEF RotInv, Files, Vouched, Publishing

LEMMA RotFail ==
    ASSUME RotInv, NEW t \in Backups!Takers, Backups!Fail(t)
    PROVE  RotInv'
<1>1. take[t] # Backups!Idle
  BY DEF Backups!Fail, Backups!Idle
<1>2. /\ Backups!End(t, TRUE)
      /\ clock' = clock /\ archive' = archive /\ scripts' = scripts
      /\ sidecar' = sidecar /\ withScripts' = withScripts /\ last' = last
      /\ taken' = taken /\ stuck' = stuck
  BY DEF Backups!Fail, Backups!disk
<1>3. /\ take' \in [Backups!Takers -> {Backups!Idle} \union Taking]
      /\ take'[t] = Backups!Idle /\ \A u \in Backups!Takers : u # t => take'[u] = take[u]
      /\ process' \in [up : BOOLEAN, since : Backups!Stamps, due : Nat, failed : BOOLEAN]
      /\ process'.up /\ process.up /\ process'.since = process.since
      /\ process' = process \/ (process'.due = clock + Every /\ process'.failed = TRUE)
      /\ Alone'
  BY <1>1, <1>2, EndsTaker
<1>4. /\ cut \subseteq cut' /\ cut' \subseteq Backups!Stamps
      /\ Publishing(t) => \/ take[t].stamp \in cut'
                          \/ sidecar[take[t].stamp] = Backups!NoBackup
  <2>1. cut' = cut \cup {take[u].stamp : u \in {u \in {t} :
                            /\ take[u].at \in {"archived", "scripted"}
                            /\ sidecar[take[u].stamp] # Backups!NoBackup}}
    BY DEF Backups!Fail, Backups!CutShort
  <2>2. take[t].stamp \in Backups!Stamps
    BY <1>1, TakerIs DEF RotInv
  <2>3. cut \subseteq Backups!Stamps
    BY DEF RotInv, RotTyped
  <2>4. QED
    BY <2>1, <2>2, <2>3 DEF Publishing
<1>5. RotTyped'
  BY <1>2, <1>3, <1>4 DEF RotInv, RotTyped
<1>6. Files' /\ Spared' /\ SinceStarted'
  <2>1. \A u \in Backups!Takers :
           \/ take'[u] = take[u]
           \/ /\ take'[u].at \notin {"archived", "scripted", "published", "pruning"}
              /\ Publishing(u) => \/ take[u].stamp \in cut'
                                  \/ sidecar[take[u].stamp] = Backups!NoBackup
    BY <1>3, <1>4 DEF Backups!Idle
  <2>2. \A u \in Backups!Takers :
           take'[u] = take[u] \/ take'[u].at \notin {"published", "pruning"}
    BY <2>1
  <2>3. QED
    BY <1>2, <1>3, <1>4, <2>1, <2>2, CutIsKnown, SparedStay DEF RotInv, SinceStarted
<1>7. DueSoon'
  <2>1. CASE process' = process
    BY <1>2, <2>1, DueStays DEF RotInv
  <2>2. CASE process'.failed
    BY <2>2 DEF DueSoon
  <2>3. QED
    BY <1>3, <2>1, <2>2
<1>8. QED
  BY <1>3, <1>5, <1>6, <1>7 DEF RotInv

LEMMA RotStop ==
    ASSUME RotInv, Backups!Stop
    PROVE  RotInv'
<1>1. /\ clock' = clock /\ archive' = archive /\ scripts' = scripts
      /\ sidecar' = sidecar /\ withScripts' = withScripts /\ last' = last
      /\ stuck' = stuck
      /\ taken' = taken /\ take' = [u \in Backups!Takers |-> Backups!Idle]
      /\ rotation' = Backups!Nobody
      /\ process' = [process EXCEPT !.up = FALSE, !.due = Backups!NoTime]
  BY DEF Backups!Stop, Backups!disk
<1>2. /\ process' \in [up : BOOLEAN, since : Backups!Stamps, due : Nat, failed : BOOLEAN]
      /\ ~process'.up
  BY <1>1, RotationNumbers DEF RotInv, RotTyped
<1>3. \A u \in Backups!Takers : take'[u] = Backups!Idle
  BY <1>1
<1>4. /\ cut \subseteq cut' /\ cut' \subseteq Backups!Stamps
      /\ \A u \in Backups!Takers :
            Publishing(u) => \/ take[u].stamp \in cut'
                             \/ sidecar[take[u].stamp] = Backups!NoBackup
  <2>1. cut' = cut \cup {take[u].stamp :
                 u \in {u \in {v \in Backups!Takers : take[v] # Backups!Idle} :
                           /\ take[u].at \in {"archived", "scripted"}
                           /\ sidecar[take[u].stamp] # Backups!NoBackup}}
    BY DEF Backups!Stop, Backups!CutShort
  <2>2. \A u \in Backups!Takers : Publishing(u) => take[u] # Backups!Idle
    BY DEF Publishing, Backups!Idle
  <2>3. \A u \in Backups!Takers : take[u] # Backups!Idle => take[u].stamp \in Backups!Stamps
    BY TakerIs DEF RotInv
  <2>4. cut \subseteq Backups!Stamps
    BY DEF RotInv, RotTyped
  <2>5. QED
    BY <2>1, <2>2, <2>3, <2>4 DEF Publishing
<1>5. RotTyped'
  BY <1>1, <1>2, <1>4 DEF RotInv, RotTyped
<1>6. Alone'
  BY <1>1, <1>3, RotationNumbers DEF Alone, AloneAt, Backups!Idle, Holding
<1>7. Files'
  <2>1. \A u \in Backups!Takers :
           /\ take'[u].at \notin {"archived", "scripted", "published", "pruning"}
           /\ Publishing(u) => \/ take[u].stamp \in cut'
                               \/ sidecar[take[u].stamp] = Backups!NoBackup
    BY <1>3, <1>4 DEF Backups!Idle
  <2>2. QED
    BY <1>1, <1>4, <2>1, CutIsKnown
<1>8. Spared' /\ DueSoon' /\ SinceStarted'
  <2>1. \A u \in Backups!Takers :
           take'[u] = take[u] \/ take'[u].at \notin {"published", "pruning"}
    BY <1>3 DEF Backups!Idle
  <2>2. QED
    BY <1>1, <1>2, <2>1, SparedStay, DueStays DEF RotInv, SinceStarted
<1>9. QED
  BY <1>5, <1>6, <1>7, <1>8 DEF RotInv

LEMMA RotTick ==
    ASSUME RotInv, Backups!Tick
    PROVE  RotInv'
<1>1. /\ clock < MaxClock /\ clock' = clock + 1 /\ archive' = archive /\ scripts' = scripts
      /\ sidecar' = sidecar /\ withScripts' = withScripts /\ last' = last
      /\ taken' = taken /\ take' = take /\ rotation' = rotation /\ process' = process
      /\ cut' = cut /\ stuck' = stuck
  BY DEF Backups!Tick, Backups!disk
<1>2. \A u \in Backups!Takers : take[u] # Backups!Idle => clock - take[u].since < RunTime
  BY DEF Backups!Tick
<1>3. clock \in Nat /\ clock' \in Nat /\ clock' \in Backups!Stamps /\ process.since \in Nat
  BY <1>1, TimesAre, RotationNumbers DEF RotInv
<1>4. RotTyped'
  BY <1>1, <1>3 DEF RotInv, RotTyped
<1>5. Alone'
  <2>1. ASSUME NEW u \in Backups!Takers PROVE AloneAt(take[u], u)'
    <3>1. AloneAt(take[u], u)
      BY DEF RotInv, Alone
    <3>2. CASE take[u] = Backups!Idle
      BY <1>1, <3>1, <3>2 DEF AloneAt
    <3>3. CASE take[u] # Backups!Idle
      <4>1. take[u].since \in Nat /\ take[u].stamp \in Nat
        BY <3>3, TakerIs, RotationNumbers DEF RotInv
      <4>2. clock - take[u].since < RunTime
        BY <1>2, <3>3
      <4>3. QED
        BY <1>1, <1>3, <3>1, <3>3, <4>1, <4>2, RotationNumbers DEF AloneAt
    <3>4. QED
      BY <3>2, <3>3
  <2>2. QED
    BY <2>1 DEF Alone
<1>6. Files' /\ Spared' /\ DueSoon'
  BY <1>1, FilesStay, SparedStay, DueStays DEF RotInv
<1>7. SinceStarted'
  BY <1>1, <1>3 DEF RotInv, SinceStarted
<1>8. QED
  BY <1>4, <1>5, <1>6, <1>7 DEF RotInv

\* The first delay is a CATCH_UP, or it ends within a cadence of now and of the newest archive.
LEMMA FirstDelayIsSoon ==
    ASSUME RotInv
    PROVE  LET delay == Backups!FirstDelay(clock, Backups!NewestTakenAt)
           IN  /\ delay \in Nat
               /\ \/ delay <= CatchUp
                  \/ /\ delay <= Every
                     /\ \E s \in Backups!Archives : clock + delay <= s + Every
<1> DEFINE newest == Backups!NewestTakenAt
           left == IF newest + Every > clock THEN newest + Every - clock ELSE 0
           low == Backups!Min({left, Every})
<1>1. clock \in Nat
  BY TimesAre DEF RotInv
<1>2. CASE newest = Backups!NoTime
  BY <1>2, RotationNumbers DEF Backups!FirstDelay
<1>3. CASE newest # Backups!NoTime
  <2>1. newest \in Backups!Archives /\ newest \in Nat
    <3>1. Backups!Archives # {} /\ newest = Backups!Max(Backups!Archives)
      BY <1>3 DEF Backups!NewestTakenAt
    <3>2. Backups!Archives \in SUBSET (0 .. MaxClock)
      BY ArchivesAreStamps, RotationNumbers
    <3>3. Backups!Max(Backups!Archives) \in Backups!Archives
      BY <3>1, <3>2, MaxMin, RotationNumbers
    <3>4. Backups!Max(Backups!Archives) \in 0 .. MaxClock
      BY <3>2, <3>3
    <3>5. Backups!Max(Backups!Archives) \in Nat
      BY <3>4, RotationNumbers
    <3>6. QED
      BY <3>1, <3>3, <3>5
  <2>2. Backups!FirstDelay(clock, newest) = Backups!Max({CatchUp, low})
    BY <1>3 DEF Backups!FirstDelay
  <2> HIDE DEF newest
  <2>3. left \in Nat /\ (left # 0 => clock + left = newest + Every)
    BY <1>1, <2>1, RotationNumbers
  <2> HIDE DEF left
  <2>4. low \in {left, Every} /\ low <= left /\ low <= Every
    <3> DEFINE T == {left, Every}
               N == left + Every
    <3>1. N \in Nat /\ T \in SUBSET (0 .. N) /\ T # {}
      BY <2>3, RotationNumbers
    <3>2. Backups!Min(T) \in T /\ \A m \in T : Backups!Min(T) <= m
      <4> HIDE DEF N, T
      <4>1. QED
        BY <3>1, MaxMin
    <3>3. QED
      BY <3>2
  <2> HIDE DEF low
  <2>5. low \in Nat
    BY <2>3, <2>4, RotationNumbers
  <2>6. Backups!Max({CatchUp, low}) \in {CatchUp, low}
    <3> DEFINE T == {CatchUp, low}
               N == CatchUp + low
    <3>1. N \in Nat /\ T \in SUBSET (0 .. N) /\ T # {}
      BY <2>5, RotationNumbers
    <3>2. Backups!Max(T) \in T
      <4> HIDE DEF N, T
      <4>1. QED
        BY <3>1, MaxMin
    <3>3. QED
      BY <3>2
  <2>7. low <= CatchUp \/ clock + low <= newest + Every
    BY <1>1, <2>1, <2>3, <2>4, <2>5, RotationNumbers
  <2> DEFINE delay == Backups!Max({CatchUp, low})
  <2>8. delay \in Nat
    BY <2>5, <2>6, RotationNumbers
  <2>9. \/ delay <= CatchUp
        \/ /\ delay <= Every
           /\ \E s \in Backups!Archives : clock + delay <= s + Every
    <3> HIDE DEF delay
    <3>1. delay = CatchUp \/ delay = low
      BY <2>6 DEF delay
    <3>2. CASE delay = CatchUp
      BY <3>2, RotationNumbers
    <3>3. CASE delay = low
      BY <2>1, <2>4, <2>5, <2>7, <3>3, RotationNumbers
    <3>4. QED
      BY <3>1, <3>2, <3>3
  <2>10. QED
    BY <2>2, <2>8, <2>9 DEF newest
<1>4. QED
  BY <1>2, <1>3

LEMMA RotStart ==
    ASSUME RotInv, Backups!Start
    PROVE  RotInv'
<1> DEFINE delay == Backups!FirstDelay(clock, Backups!NewestTakenAt)
<1>1. /\ clock' = clock /\ archive' = archive /\ scripts' = scripts
      /\ sidecar' = sidecar /\ withScripts' = withScripts /\ last' = last
      /\ taken' = taken /\ take' = take /\ rotation' = rotation /\ cut' = cut
      /\ stuck' = stuck
      /\ process' = [up |-> TRUE, since |-> clock, failed |-> FALSE, due |-> clock + delay]
      /\ ~process.up
  BY DEF Backups!Start, Backups!disk
<1>2. /\ delay \in Nat
      /\ \/ delay <= CatchUp
         \/ /\ delay <= Every
            /\ \E s \in Backups!Archives : clock + delay <= s + Every
  BY FirstDelayIsSoon
<1> HIDE DEF delay
<1>3. clock \in Nat /\ clock \in Backups!Stamps /\ clock + delay \in Nat
  BY <1>2, TimesAre DEF RotInv
<1>4. RotTyped'
  BY <1>1, <1>3 DEF RotInv, RotTyped
<1>5. Alone'
  <2>1. \A u \in Backups!Takers : take[u] = Backups!Idle
    BY <1>1 DEF RotInv, Alone, AloneAt
  <2>2. QED
    BY <1>1, <2>1 DEF RotInv, Alone, AloneAt
<1>6. Files' /\ Spared'
  BY <1>1, FilesStay, SparedStay DEF RotInv
<1>7. DueSoon'
  <2>1. process'.due = clock + delay /\ process'.since = clock
    BY <1>1
  <2>2. Backups!Archives' = Backups!Archives
    BY <1>1 DEF Backups!Archives
  <2>3. \/ clock + delay <= clock + CatchUp
        \/ /\ clock + delay <= clock + Every
           /\ \E s \in Backups!Archives : clock + delay <= s + Every
    BY <1>2, <1>3, RotationNumbers
  <2>4. QED
    BY <2>1, <2>2, <2>3 DEF DueSoon
<1>8. SinceStarted'
  BY <1>1, <1>3 DEF SinceStarted
<1>9. QED
  BY <1>4, <1>5, <1>6, <1>7, <1>8 DEF RotInv

LEMMA RotStep ==
    ASSUME RotInv, Backups!Next \/ UNCHANGED backupsVars
    PROVE  RotInv'
<1>1. CASE UNCHANGED backupsVars
  <2>1. /\ clock' = clock /\ archive' = archive /\ scripts' = scripts
        /\ sidecar' = sidecar /\ withScripts' = withScripts /\ last' = last
        /\ taken' = taken /\ take' = take /\ rotation' = rotation /\ process' = process
        /\ cut' = cut /\ stuck' = stuck
    BY <1>1 DEF backupsVars
  <2>2. RotTyped'
    BY <2>1 DEF RotInv, RotTyped
  <2>3. Alone'
    BY <2>1 DEF RotInv, Alone, AloneAt
  <2>4. Files' /\ Spared' /\ DueSoon' /\ SinceStarted'
    BY <2>1, FilesStay, SparedStay, DueStays DEF RotInv, SinceStarted
  <2>5. QED
    BY <2>2, <2>3, <2>4 DEF RotInv
<1>2. QED
  BY <1>1, RotDump, RotTakeStamp, RotLock, RotWriteArchive, RotWriteScripts, RotWriteSidecar,
     RotDecidePrune, RotRemoveNext, RotReport, RotFail, RotStart, RotStop, RotTick
  DEF Backups!Next, Backups!Step

\* What a step may do to the archives.
LEMMA RotKeeps ==
    ASSUME RotInv, Backups!Next
    PROVE  /\ \A t \in Backups!Takers :
                 Backups!Report(t) => Backups!Cardinality(Backups!Archives \ stuck) <= Keep
           /\ Backups!Archives' # Backups!Archives =>
                 \/ Backups!Cardinality(Backups!Archives') >= Keep
                 \/ Backups!Cardinality(Backups!Archives')
                       > Backups!Cardinality(Backups!Archives)
<1>1. ASSUME NEW t \in Backups!Takers, Backups!Report(t)
      PROVE  Cardinality(Backups!Archives \ stuck) <= Keep
  <2>1. take[t].at = "pruning" /\ take[t].doomed = {}
    BY <1>1 DEF Backups!Report
  <2>2. Cardinality((Backups!Archives \ take[t].doomed) \ stuck) <= Keep
    BY <2>1 DEF RotInv, Spared, SparesOf
  <2>3. Backups!Archives \ take[t].doomed = Backups!Archives
    BY <2>1
  <2>4. QED
    BY <2>2, <2>3
<1>2. ASSUME Backups!Archives' # Backups!Archives
      PROVE  \/ Cardinality(Backups!Archives') >= Keep
             \/ Cardinality(Backups!Archives') > Cardinality(Backups!Archives)
  <2>1. archive' # archive
    BY <1>2 DEF Backups!Archives
  <2>2. CASE \E t \in Backups!Takers : Backups!WriteArchive(t)
    <3>1. PICK t \in Backups!Takers : Backups!WriteArchive(t)
      BY <2>2
    <3>2. /\ take[t].backup # Backups!NoBackup
          /\ archive' = [archive EXCEPT ![take[t].stamp] = take[t].backup]
      <4>1. take[t].at # "idle"
        BY <3>1 DEF Backups!WriteArchive, Backups!At
      <4>2. QED
        BY <3>1, <4>1, TakerIs, RotationNumbers DEF RotInv, Backups!WriteArchive
    <3>3. Backups!Archives \in SUBSET (Backups!Archives')
      BY <3>2 DEF RotInv, RotTyped, Backups!Archives
    <3>4. Backups!Archives' \in SUBSET Backups!Stamps
      BY DEF Backups!Archives, Backups!Stamps
    <3>5. QED
      <4> DEFINE A == Backups!Archives
                 B == Backups!Archives'
      <4>1. IsFiniteSet(B) /\ Cardinality(A) \in Nat /\ Cardinality(B) \in Nat
        BY <3>4, StampsAreFinite, ArchivesAreStamps
      <4>2. A \in SUBSET B /\ A # B
        BY <1>2, <3>3
      <4> HIDE DEF A, B
      <4>3. Cardinality(A) <= Cardinality(B) /\ Cardinality(A) # Cardinality(B)
        BY <4>1, <4>2, FS_Subset
      <4>4. Cardinality(B) > Cardinality(A)
        BY <4>1, <4>3
      <4>5. QED
        BY <4>4 DEF A, B
  <2>3. CASE \E t \in Backups!Takers : Backups!RemoveNext(t)
    <3>1. PICK t \in Backups!Takers : Backups!RemoveNext(t)
      BY <2>3
    <3> DEFINE s == Backups!Min(take[t].doomed)
    <3>2. take[t].at = "pruning" /\ take[t].doomed # {}
      BY <3>1 DEF Backups!RemoveNext
    <3>3. archive' = [archive EXCEPT ![s] = Backups!NoBackup]
      BY <2>1, <3>1 DEF Backups!RemoveNext, Backups!Remove
    <3>4. s \in take[t].doomed
      BY <3>2, NextIsDoomed
    <3> HIDE DEF s
    <3>5. Cardinality(Backups!Archives \ take[t].doomed) >= Keep
      BY <3>2 DEF RotInv, Spared, SparesOf
    <3>6. Backups!Archives \ take[t].doomed \in SUBSET (Backups!Archives')
      BY <3>3, <3>4 DEF RotInv, RotTyped, Backups!Archives
    <3>7. Backups!Archives' \in SUBSET Backups!Stamps
      BY DEF Backups!Archives, Backups!Stamps
    <3>8. QED
      <4> DEFINE A == Backups!Archives \ take[t].doomed
                 B == Backups!Archives'
      <4>1. IsFiniteSet(B)
        BY <3>7, StampsAreFinite
      <4>2. A \in SUBSET B
        BY <3>6
      <4> HIDE DEF A, B
      <4>3. Cardinality(A) <= Cardinality(B)
        BY <4>1, <4>2, FS_Subset
      <4>4. Keep <= Cardinality(A) /\ IsFiniteSet(A)
        BY <3>5, <4>1, <4>2, FS_Subset DEF A
      <4>5. Cardinality(A) \in Nat /\ Cardinality(B) \in Nat
        BY <4>1, <4>4, FS_CardinalityType
      <4>6. Cardinality(B) >= Keep
        BY <4>3, <4>4, <4>5, RotationNumbers
      <4>7. QED
        BY <4>6 DEF B
  <2>4. QED
    BY <2>1, <2>2, <2>3
    DEF Backups!Next, Backups!Step, Backups!Dump, Backups!TakeStamp, Backups!LockRotation,
        Backups!WriteScripts, Backups!WriteSidecar, Backups!DecidePrune, Backups!Report,
        Backups!Fail, Backups!Start, Backups!Stop, Backups!Tick, Backups!disk
<1>3. QED
  BY <1>1, <1>2, DiskCounts

LEMMA RotStands ==
    ASSUME RotInv
    PROVE  /\ Backups!NoStraySidecar /\ Backups!VouchedIsWhole
           /\ Backups!LastStands /\ Backups!RestartCostsNothing
<1>1. Backups!NoStraySidecar
  BY DEF RotInv, Files, Backups!NoStraySidecar
<1>2. Backups!VouchedIsWhole
  <2>1. SUFFICES ASSUME rotation = Backups!Nobody, NEW s \in Backups!Stamps \ (cut \cup stuck),
                        sidecar[s] # Backups!NoBackup
                 PROVE  Vouched(s)
    BY DEF Backups!VouchedIsWhole, Vouched
  <2>2. \A u \in Backups!Takers : ~Publishing(u)
    BY <2>1, RotationNumbers DEF RotInv, Alone, AloneAt, Publishing, Holding
  <2>3. QED
    BY <2>1, <2>2 DEF RotInv, Files
<1>3. Backups!LastStands
  <2>1. SUFFICES ASSUME last.backup # Backups!NoBackup,
                        \A t \in Backups!Takers : take[t] # Backups!Idle => take[t].stamp # last.stamp
                 PROVE  /\ sidecar[last.stamp] = last.backup
                        /\ archive[last.stamp] = last.backup \/ last.stamp \in cut
    BY DEF Backups!LastStands
  <2>2. sidecar[last.stamp] = last.backup /\ last.stamp \in Backups!Stamps \ stuck
    BY <2>1, TimesAre DEF RotInv, Spared
  <2>3. \A t \in Backups!Takers : Publishing(t) => take[t].stamp # last.stamp
    BY <2>1 DEF Publishing, Backups!Idle
  <2>4. last.stamp \notin cut => Vouched(last.stamp)
    BY <2>1, <2>2, <2>3 DEF RotInv, Files
  <2>5. QED
    BY <2>2, <2>4 DEF Vouched
<1>4. Backups!RestartCostsNothing
  <2>1. SUFFICES ASSUME process.up, process.due # Backups!NoTime, ~process.failed
                 PROVE  \/ process.due <= process.since + CatchUp
                        \/ /\ Backups!Archives # {}
                           /\ process.due <= Backups!Max(Backups!Archives \cup {last.newest})
                                             + Every + RunTime
    BY DEF Backups!RestartCostsNothing
  <2> DEFINE T == Backups!Archives \cup {last.newest}
  <2>2. T \in SUBSET (0 .. MaxClock) /\ T # {} /\ last.newest \in T /\ Backups!Archives \subseteq T
    BY TimesAre, ArchivesAreStamps, RotationNumbers DEF RotInv
  <2> HIDE DEF T
  <2>3. Backups!Max(T) \in T /\ \A m \in T : m <= Backups!Max(T)
    BY <2>2, MaxMin, RotationNumbers
  <2>8. Backups!Max(T) \in 0 .. MaxClock /\ \A m \in T : m \in 0 .. MaxClock
    BY <2>2, <2>3
  <2>9. Backups!Max(T) \in Nat /\ \A m \in T : m \in Nat
    BY <2>8, RotationNumbers
  <2>4. ASSUME NEW m \in T
        PROVE  /\ m + Every <= Backups!Max(T) + Every + RunTime
               /\ m + Every + RunTime <= Backups!Max(T) + Every + RunTime
    <3>1. m <= Backups!Max(T) /\ m \in Nat /\ Backups!Max(T) \in Nat
      BY <2>3, <2>9
    <3>2. QED
      BY <3>1, RotationNumbers
  <2>5. \/ process.due <= process.since + CatchUp
        \/ Backups!Archives # {} /\ process.due <= last.newest + Every + RunTime
        \/ \E s \in Backups!Archives : process.due <= s + Every
    BY <2>1 DEF RotInv, DueSoon
  <2>6. process.due \in Nat /\ last.newest \in Nat /\ Backups!Max(T) \in Nat
    BY <2>9, TimesAre DEF RotInv
  <2>7. CASE Backups!Archives # {} /\ process.due <= last.newest + Every + RunTime
    <3>1. last.newest + Every + RunTime <= Backups!Max(T) + Every + RunTime
      BY <2>2, <2>4
    <3>2. process.due <= Backups!Max(T) + Every + RunTime
      BY <2>6, <2>7, <3>1, RotationNumbers
    <3>3. QED
      BY <2>7, <3>2 DEF T
  <2>10. ASSUME NEW s \in Backups!Archives, process.due <= s + Every
         PROVE  /\ Backups!Archives # {}
                /\ process.due <= Backups!Max(T) + Every + RunTime
    <3>1. s \in T
      BY <2>2
    <3>2. s + Every <= Backups!Max(T) + Every + RunTime /\ s \in Nat
      BY <2>4, <2>9, <3>1
    <3>3. QED
      BY <2>6, <2>10, <3>2, RotationNumbers
  <2>11. QED
    BY <2>5, <2>7, <2>10 DEF T
<1>5. QED
  BY <1>1, <1>2, <1>3, <1>4

-----------------------------------------------------------------------------
(* The specification, in which one part moves and the others stay.          *)

LEMMA DiskInitial ==
    ASSUME PartsInit
    PROVE  EntInv /\ RootsInv
BY EntInitial, RootsInitial, RootsBounds DEF PartsInit

LEMMA DiskStep ==
    ASSUME EntInv, RootsInv, [PartsNext]_partsVars
    PROVE  EntInv' /\ RootsInv'
<1>1. Next \/ UNCHANGED vars
  BY DEF PartsNext, partsVars
<1>2. Roots!Next \/ UNCHANGED rootsVars
  BY DEF PartsNext, partsVars
<1>3. UNCHANGED rootsVars => UNCHANGED Roots!vars
  BY DEF rootsVars, Roots!vars, Roots!bounds
<1>4. QED
  BY <1>1, <1>2, <1>3, EntStep, RootsStep, RootsBounds

\* onboard.rs: at every moment the enrolment is the layer's, in the five senses of the run:
\* one entitlement stands for a certificate, no replay counts, no invite is spent on what was
\* not said, an apply that no one overtook brings what stands, and the restart is told of; but
\* not for a certificate whose bundle a start with its door off found before it was enrolled.
THEOREM EnrolmentFollows == PartsSpec => []EnrolmentIsTheLayers
<1>1. PartsInit => EntInv /\ RootsInv
  BY DiskInitial
<1>2. EntInv /\ RootsInv /\ [PartsNext]_partsVars => EntInv' /\ RootsInv'
  BY DiskStep
<1>3. EntInv => EnrolmentIsTheLayers
  BY EntImplies DEF EnrolmentIsTheLayers
<1>4. QED
  BY <1>1, <1>2, <1>3, PTL DEF PartsSpec

\* checkout.rs and roots.rs: no add that was reported is lost to another writer of the file,
\* and what the server has mounted is the file's, or a reading of it is to come.
THEOREM RootsFollowTheFile == PartsSpec => []RootsStand
<1>1. PartsInit => EntInv /\ RootsInv
  BY DiskInitial
<1>2. EntInv /\ RootsInv /\ [PartsNext]_partsVars => EntInv' /\ RootsInv'
  BY DiskStep
<1>3. RootsInv => RootsStand
  BY RootsFollow DEF RootsStand, RootsStanding
<1>4. QED
  BY <1>1, <1>2, <1>3, PTL DEF PartsSpec

LEMMA BackupsInitial ==
    ASSUME PartsInit
    PROVE  RotInv /\ IntoInv
BY RotBegins, IntoBegins DEF PartsInit

LEMMA BackupsStep ==
    ASSUME RotInv, IntoInv, [PartsNext]_partsVars
    PROVE  RotInv' /\ IntoInv'
<1>1. Backups!Next \/ UNCHANGED backupsVars
  BY DEF PartsNext, partsVars
<1>2. Into!Next \/ UNCHANGED intoVars
  BY DEF PartsNext, partsVars
<1>3. QED
  BY <1>1, <1>2, RotStep, IntoStep

LEMMA RefusedIsGone ==
    ASSUME IntoInv
    PROVE  Into!RefusedLeavesNothing
BY DEF IntoInv, Into!RefusedLeavesNothing, TwoStores, Into!There

\* backup.rs: at every moment and over every step. What a sidecar vouches for is whole, the last
\* backup published stands, no restart postpones a run, and a prune keeps `keep` archives,
\* whoever takes backups, however many the clock tells apart, and wherever one is stopped: but
\* for files that a prune could not remove, and for a second backup of one second that stopped
\* after its archive, under the sidecar of the first. And a restore comes into its directory
\* whole, verified and alone, or it leaves nothing.
THEOREM BackupsAreKept == PartsSpec => BackupsStand
<1>1. PartsInit => RotInv /\ IntoInv
  BY BackupsInitial
<1>2. RotInv /\ IntoInv /\ [PartsNext]_partsVars => RotInv' /\ IntoInv'
  BY BackupsStep
<1>3. RotInv /\ IntoInv =>
        /\ part = "backups" => /\ Backups!NoStraySidecar /\ Backups!VouchedIsWhole
                               /\ Backups!LastStands /\ Backups!RestartCostsNothing
        /\ part = "into" => Into!RefusedLeavesNothing
  BY RotStands, RefusedIsGone
<1>4. RotInv /\ [PartsNext]_partsVars =>
        [/\ \A t \in Backups!Takers :
               Backups!Report(t) => Backups!Cardinality(Backups!Archives \ stuck) <= Keep
         /\ Backups!Archives' # Backups!Archives =>
               \/ Backups!Cardinality(Backups!Archives') >= Keep
               \/ Backups!Cardinality(Backups!Archives')
                     > Backups!Cardinality(Backups!Archives)]_(Backups!vars)
  <2>1. [PartsNext]_partsVars => Backups!Next \/ UNCHANGED Backups!vars
    BY DEF PartsNext, partsVars, backupsVars, Backups!vars, Backups!disk
  <2>2. QED
    BY <2>1, RotKeeps
<1>5. IntoInv /\ [PartsNext]_partsVars =>
        [\A r \in {store1, store2} :
            into' \cap Into!Whole(r) # into \cap Into!Whole(r) =>
               into \in {Into!Absent, {}} /\ into' = Into!Whole(r) /\ r \in good]_(Into!vars)
  <2>1. [PartsNext]_partsVars => Into!Next \/ UNCHANGED Into!vars
    BY DEF PartsNext, partsVars, intoVars, Into!vars
  <2>2. QED
    BY <2>1, IntoMoves DEF TwoStores
<1>6. IntoInv /\ [PartsNext]_partsVars =>
        [\A r \in {store1, store2} : at[r] = "asked" /\ at'[r] = "merge" =>
            \/ <<stranger, "file">> \in into
            \/ \E s \in Into!Restores :
                  at[s] = "restored" \/ (s \in {scripts1} /\ at[s] # "asked")]_(Into!vars)
  <2>1. [PartsNext]_partsVars => Into!Next \/ UNCHANGED Into!vars
    BY DEF PartsNext, partsVars, intoVars, Into!vars
  <2>2. QED
    BY <2>1, IntoMoves DEF TwoStores
<1>7. QED
  BY <1>1, <1>2, <1>3, <1>4, <1>5, <1>6, PTL
  DEF PartsSpec, BackupsStand, Backups!PrunedToKeep, Into!IntoIsOneStore, Into!OnlyFullIsRefused
=============================================================================
