--------------------------- MODULE QueuePageProofs ---------------------------
(***************************************************************************)
(* What holds of the Queue page for any findings, twins, views, words and  *)
(* bounds: the invariants and the property QueuePage.cfg checks for two    *)
(* findings.                                                               *)
(***************************************************************************)
EXTENDS QueuePage, FiniteSetTheorems, TLAPS

Worded == Words \union {None}

-----------------------------------------------------------------------------
(* What the badge counts and what the groups show: in every state.         *)

LEMMA PendingIsFinite == minted \subseteq Findings => IsFiniteSet(Pending)
<1> SUFFICES ASSUME minted \subseteq Findings PROVE IsFiniteSet(Pending)
  OBVIOUS
<1>1. Pending \subseteq Findings
  BY DEF Pending
<1>2. QED
  BY <1>1, FS_Subset, QueueConstants

\* What is left of a finite set without a part of it is counted by a difference.
LEMMA CountOfRest ==
    ASSUME NEW S, NEW T, IsFiniteSet(S), T \subseteq S
    PROVE  /\ IsFiniteSet(T) /\ IsFiniteSet(S \ T)
           /\ Cardinality(S) \in Nat /\ Cardinality(T) \in Nat
           /\ Cardinality(S \ T) = Cardinality(S) - Cardinality(T)
<1>1. IsFiniteSet(T) /\ IsFiniteSet(S \ T) /\ S \cap T = T
  BY FS_Subset
<1>2. Cardinality(S \ T) = Cardinality(S) - Cardinality(S \cap T)
  BY FS_Difference
<1>3. QED
  BY <1>1, <1>2, FS_CardinalityType

LEMMA Counts == minted \subseteq Findings => CountsAreThePages
<1> SUFFICES ASSUME minted \subseteq Findings PROVE CountsAreThePages
  OBVIOUS
<1> DEFINE v == View("rows", FALSE, FALSE)
           queued == {f \in Pending : Queues(f)}
           out == {f \in queued : HiddenByDefault(f)}
<1>1. /\ Asked(Pending, v) = queued /\ Listed(Pending, v) = queued \ out
      /\ queued \subseteq Pending /\ out \subseteq queued
  BY DEF Asked, Listed, View, Pending
<1>2. PendingCounts = [serious |-> Cardinality(queued) - Cardinality(out),
                       out |-> Cardinality(out),
                       other |-> Cardinality(Pending) - Cardinality(queued), verdicts |-> judged]
  BY DEF PendingCounts
<1>3. /\ Cardinality(Pending \ queued) = Cardinality(Pending) - Cardinality(queued)
      /\ IsFiniteSet(queued)
  <2> HIDE DEF queued
  <2> QED
    BY <1>1, PendingIsFinite, CountOfRest
<1>4. /\ Cardinality(queued \ out) = Cardinality(queued) - Cardinality(out)
      /\ Cardinality(queued) \in Nat /\ Cardinality(out) \in Nat
  <2> HIDE DEF queued, out
  <2> QED
    BY <1>1, <1>3, CountOfRest
<1>5. Cardinality(out) = Cardinality(queued) - Cardinality(queued \ out)
  <2> HIDE DEF queued, out
  <2> QED
    BY <1>4
<1>6. QED
  <2> SUFFICES /\ PendingCounts.serious = Cardinality(Listed(Pending, v))
               /\ PendingCounts.out = Cardinality(Asked(Pending, v)) - Cardinality(Listed(Pending, v))
               /\ PendingCounts.other = Cardinality(Pending \ Asked(Pending, v))
    BY DEF CountsAreThePages
  <2> HIDE DEF queued, out, v
  <2> QED
    BY <1>1, <1>2, <1>3, <1>4, <1>5

\* A group that repeats a declined finding is no proposal by target.
LEMMA RepeatsHaveTwins == \A g \in Groups("repeat") : ~ByTargetOnly(g)
BY DEF Groups, Repeats, ByTargetOnly

LEMMA TargetGroups ==
    ASSUME NEW kind \in Targets, NEW g \in Groups(kind)
    PROVE  g = [key |-> kind, members |-> Members(kind), twin |-> None, word |-> suggested[kind]]
BY DEF Groups, Targets

LEMMA Shown == ShownOnce
<1>1. DOMAIN Kinds = {1, 2, 3} /\ Kinds[1] = "repeat" /\ Kinds[2] = "comment" /\ Kinds[3] = "file"
  BY DEF Kinds
<1>2. ASSUME NEW i \in DOMAIN Kinds, NEW g \in Groups(Kinds[i]), ByTargetOnly(g)
      PROVE  /\ i \in {2, 3} /\ Kinds[i] \in Targets
             /\ g = [key |-> Kinds[i], members |-> Members(Kinds[i]), twin |-> None,
                     word |-> suggested[Kinds[i]]]
  BY <1>1, <1>2, RepeatsHaveTwins, TargetGroups DEF Targets
<1> DEFINE C == [key |-> "comment", members |-> Members("comment"), twin |-> None,
                 word |-> suggested["comment"]]
           F == [key |-> "file", members |-> Members("file"), twin |-> None,
                 word |-> suggested["file"]]
<1>3. ASSUME NEW p \in Proposals
      PROVE  \/ p = <<2, C>> /\ C \in Groups(Kinds[2])
             \/ p = <<3, F>> /\ F \in Groups(Kinds[3])
  <2>1. PICK i \in DOMAIN Kinds : \E g \in Groups(Kinds[i]) : ByTargetOnly(g) /\ p = <<i, g>>
    BY <1>3 DEF Proposals
  <2>2. PICK g \in Groups(Kinds[i]) : ByTargetOnly(g) /\ p = <<i, g>>
    BY <2>1
  <2>3. QED
    BY <1>1, <1>2, <2>2
<1>4. ByTargetOnly(C) /\ ByTargetOnly(F)
  BY DEF ByTargetOnly
<1>5. ASSUME C \in Groups(Kinds[2])
      PROVE  Folded(2, C) <=> /\ F \in Groups(Kinds[3]) /\ F.members = C.members
                              /\ F.word = C.word \/ C.word = None
  BY <1>1, <1>2, <1>4 DEF Folded
<1>6. ASSUME F \in Groups(Kinds[3])
      PROVE  Folded(3, F) <=> /\ C \in Groups(Kinds[2]) /\ F.members = C.members
                              /\ F.word = None /\ C.word # None
  BY <1>1, <1>2, <1>4 DEF Folded
<1>7. /\ C \in Groups(Kinds[2]) => (<<2, C>> \in Unfolded <=> ~Folded(2, C))
      /\ F \in Groups(Kinds[3]) => (<<3, F>> \in Unfolded <=> ~Folded(3, F))
  BY <1>1 DEF Unfolded
<1>8. ASSUME NEW p \in Proposals
      PROVE  \E q \in Unfolded : q[2].members = p[2].members
                                   /\ (p[2].word # None => q[2].word = p[2].word)
  <2>1. CASE p = <<2, C>> /\ C \in Groups(Kinds[2])
    BY <1>5, <1>6, <1>7, <2>1
  <2>2. CASE p = <<3, F>> /\ F \in Groups(Kinds[3])
    BY <1>5, <1>6, <1>7, <2>2
  <2>3. QED
    BY <1>3, <2>1, <2>2
<1>9. ASSUME NEW p \in Proposals \cap Unfolded, NEW q \in Proposals \cap Unfolded,
             p # q, p[2].members = q[2].members
      PROVE  p[2].word # q[2].word /\ p[2].word # None
  BY <1>3, <1>5, <1>6, <1>7, <1>9
<1>10. QED
  BY <1>8, <1>9 DEF ShownOnce

LEMMA AlwaysSaid == minted \subseteq Findings => EveryFindingIsSaid
BY Counts, Shown DEF EveryFindingIsSaid

-----------------------------------------------------------------------------
(* A form, as it is drawn and as the person has it.                        *)

FormOK(form) ==
    /\ form = [key |-> form.key, boxes |-> form.boxes, ticked |-> form.ticked, own |-> form.own,
               revises |-> form.revises, word |-> form.word, group |-> form.group]
    /\ form.key \in Findings \union {"repeat"} \union Targets
    /\ form.boxes \subseteq Findings /\ form.ticked \subseteq form.boxes
    /\ form.own \in [form.boxes -> Worded] /\ form.word \in Worded
    /\ form.revises \in 0..MaxWrites + 1
    /\ ~IsBatch(form) =>
          /\ form.boxes = {form.key} /\ form.ticked = {form.key}
          /\ \A m \in form.boxes : form.own[m] = None
    /\ IsBatch(form) => form.revises = 0

LEMMA FormIsTyped == \A form : FormOK(form) => FormType(form)
BY DEF FormOK, FormType, Worded

\* Drawn back as it was sent.
AsSent(form, echo) ==
    form.key = echo.key =>
        /\ form.word = echo.word
        /\ \A m \in form.boxes \cap echo.boxes :
             /\ m \in form.ticked <=> m \in echo.ticked
             /\ form.own[m] = echo.own[m]

Echo(echo) == echo = None \/ FormOK(echo)

PageOK(p, age) ==
    /\ \A form \in p.forms : FormOK(form) /\ (p.echo # None => AsSent(form, p.echo))
    /\ Echo(p.echo) /\ p.version \in 0..age

StoreOK ==
    /\ minted \subseteq Findings /\ writes \in 0..MaxWrites /\ judged \in 0..writes
    /\ verdict \in [Findings -> {None, "refuted", "upheld"}]
    /\ decision = [f \in Findings |-> decision[f]]
    /\ \A f \in Findings : decision[f] # None =>
          /\ decision[f].outcome \in Outcomes /\ decision[f].word \in Worded
          /\ decision[f].n \in 1..writes + 1

GroupOK(g) == g.members \subseteq Findings /\ (g.twin # None => g.word \in Worded)

LEMMA GroupsOK ==
    ASSUME StoreOK, NEW kind, NEW g \in Groups(kind)
    PROVE  GroupOK(g) /\ (kind # "repeat" => g.key = kind)
<1>1. Pending \subseteq Findings
  BY DEF StoreOK, Pending
<1>2. CASE kind = "repeat"
  <2>1. PICK f \in Repeats : g = [key |-> f, members |-> {f}, twin |-> Twin[f],
                                  word |-> decision[Twin[f]].word]
    BY <1>2 DEF Groups
  <2>2. f \in Findings /\ Twin[f] \in Findings /\ decision[Twin[f]] # None
    BY <1>1, <2>1, QueueConstants DEF Repeats, Declined
  <2>3. QED
    BY <1>2, <2>1, <2>2 DEF GroupOK, StoreOK
<1>3. CASE kind # "repeat"
  <2>1. g = [key |-> kind, members |-> Members(kind), twin |-> None, word |-> suggested[kind]]
    BY <1>3 DEF Groups
  <2>2. QED
    BY <1>1, <2>1 DEF GroupOK, Members
<1>4. QED
  BY <1>2, <1>3

LEMMA SectionOK ==
    ASSUME StoreOK, NEW v, NEW g \in Section(v)
    PROVE  GroupOK(g) /\ (v.kind # "repeat" => g.key = v.kind)
<1>1. PICK h \in Groups(v.kind) : g = [h EXCEPT !.members = Listed(@, v)]
  BY DEF Section
<1>2. /\ GroupOK(h) /\ (v.kind # "repeat" => h.key = v.kind)
      /\ \E key, members, twin, word :
            h = [key |-> key, members |-> members, twin |-> twin, word |-> word]
  BY GroupsOK DEF Groups
<1>3. g.members \subseteq h.members /\ g.twin = h.twin /\ g.word = h.word /\ g.key = h.key
  BY <1>1, <1>2 DEF Listed, Asked
<1>4. QED
  BY <1>2, <1>3 DEF GroupOK

LEMMA BatchDrawn ==
    ASSUME NEW key \in {"repeat"} \union Targets, NEW groups, NEW echo, Echo(echo),
           \A g \in groups : GroupOK(g)
    PROVE  LET form == BatchForm(key, groups, echo)
           IN  FormOK(form) /\ (echo # None => AsSent(form, echo))
<1> DEFINE members == UNION {g.members : g \in groups}
           boxes == members \intersect Rated
           in(m) == CHOOSE g \in groups : m \in g.members
           back == BelongsTo(echo, key)
           ticked == IF back THEN StillTicked(boxes, echo) ELSE {m \in boxes : Evidence(in(m))}
           ownOf(m) == IF back THEN (IF m \in DOMAIN echo.own THEN echo.own[m] ELSE None)
                       ELSE IF ByTargetOnly(in(m)) THEN None ELSE in(m).word
           own == [m \in boxes |-> ownOf(m)]
           word == IF back THEN echo.word ELSE None
           group == [m \in boxes |-> in(m).key]
           form == BatchForm(key, groups, echo)
<1>1. form = [key |-> key, boxes |-> boxes, revises |-> 0, ticked |-> ticked, own |-> own,
              word |-> word, group |-> group]
  BY DEF BatchForm
<1>2. boxes \subseteq Findings
  BY DEF GroupOK
<1>3. ticked \subseteq boxes /\ (back => ticked = boxes \intersect echo.ticked)
  BY DEF StillTicked
<1>4. back => FormOK(echo) /\ echo.key = key
  BY DEF BelongsTo, Echo
<1>5. ASSUME NEW m \in boxes PROVE ownOf(m) \in Worded
  <2>1. CASE back
    BY <1>4, <2>1 DEF FormOK, Worded
  <2>2. CASE ~back
    <3>1. in(m) \in groups
      <4>1. \E g \in groups : m \in g.members
        BY <1>5
      <4>2. QED
        BY <4>1
    <3>2. ~ByTargetOnly(in(m)) => in(m).word \in Worded
      <4> HIDE DEF in
      <4> QED
        BY <3>1 DEF GroupOK, ByTargetOnly
    <3>3. QED
      BY <2>2, <3>2 DEF Worded
  <2>3. QED
    BY <2>1, <2>2
<1>6. own \in [boxes -> Worded]
  BY <1>5
<1>7. word \in Worded
  BY <1>4 DEF FormOK, Worded
<1>8. echo # None => (echo.key = key => back)
  BY DEF BelongsTo
<1>9. back => \A m \in boxes \intersect echo.boxes : own[m] = echo.own[m]
  BY <1>4 DEF FormOK
<1>10. back => word = echo.word
  OBVIOUS
<1>11. FormOK(form) /\ (echo # None => AsSent(form, echo))
  <2> HIDE DEF form, boxes, own, ticked, word, group, back
  <2>1. FormOK(form)
    <3>1. IsBatch(form)
      BY <1>1 DEF IsBatch
    <3>2. 0 \in 0..MaxWrites + 1
      BY QueueConstants
    <3>3. QED
      BY <1>1, <1>2, <1>3, <1>6, <1>7, <3>1, <3>2 DEF FormOK
  <2>2. echo # None => AsSent(form, echo)
    BY <1>1, <1>3, <1>8, <1>9, <1>10 DEF AsSent
  <2>3. QED
    BY <2>1, <2>2
<1>12. QED
  BY <1>11

LEMMA RowDrawn ==
    ASSUME StoreOK, NEW f \in Findings, NEW echo, Echo(echo)
    PROVE  FormOK(RowForm(f, echo)) /\ (echo # None => AsSent(RowForm(f, echo), echo))
<1> DEFINE form == RowForm(f, echo)
           revises == IF decision[f] = None THEN 0 ELSE decision[f].n
           word == IF BelongsTo(echo, f) THEN echo.word ELSE None
           own == [m \in {f} |-> None]
           group == [m \in {f} |-> f]
<1>1. form = [key |-> f, boxes |-> {f}, ticked |-> {f}, own |-> own, revises |-> revises,
              word |-> word, group |-> group]
  BY DEF RowForm
<1>2. revises \in 0..MaxWrites + 1
  BY QueueConstants DEF StoreOK
<1>3. own \in [{f} -> Worded] /\ own[f] = None
  BY DEF Worded
<1>4. word \in Worded
  BY DEF Echo, FormOK, BelongsTo, Worded
<1>5. f \notin {"repeat", "comment", "file"}
  BY QueueConstants
<1>6. FormOK(form)
  <2> HIDE DEF form, own, revises, word, group
  <2> QED
    BY <1>1, <1>2, <1>3, <1>4, <1>5 DEF FormOK, IsBatch, Targets
<1>7. echo # None => AsSent(form, echo)
  <2>1. SUFFICES ASSUME echo # None, echo.key = f PROVE AsSent(form, echo)
    BY <1>1 DEF AsSent
  <2>2. FormOK(echo) /\ ~IsBatch(echo)
    BY <1>5, <2>1 DEF Echo, IsBatch, Targets
  <2>3. /\ echo.boxes = {f} /\ echo.ticked = {f} /\ echo.own[f] = None
        /\ BelongsTo(echo, f)
    BY <2>1, <2>2 DEF FormOK, BelongsTo
  <2>4. QED
    BY <1>1, <2>3 DEF AsSent
<1>8. QED
  BY <1>6, <1>7

\* Whatever is drawn is well formed, and a form that was refused is in it as it was sent.
LEMMA Drawn ==
    ASSUME StoreOK, NEW v \in Views, NEW echo, Echo(echo)
    PROVE  /\ PageOK(Draw(v, echo), writes)
           /\ Draw(v, echo).version = writes /\ Draw(v, echo).echo = echo
<1>1. Draw(v, echo) = [forms |-> Forms(v, echo), echo |-> echo, version |-> writes]
  BY DEF Draw
<1>2. v.kind \in {"repeat", "comment", "file", "rows", "walk"}
  BY QueueConstants
<1>3. ASSUME NEW form \in Forms(v, echo)
      PROVE  FormOK(form) /\ (echo # None => AsSent(form, echo))
  <2>1. CASE v.kind = "rows"
    <3>1. PICK f \in Listed(Pending, v) : form = RowForm(f, echo)
      BY <1>3, <2>1 DEF Forms
    <3>2. f \in Findings
      BY <3>1 DEF Listed, Asked, Pending, StoreOK
    <3>3. QED
      BY <3>1, <3>2, RowDrawn
  <2>2. CASE v.kind = "walk"
    <3>1. PICK f \in Steering : form = RowForm(f, echo)
      BY <1>3, <2>2 DEF Forms
    <3>2. f \in Findings
      BY <3>1 DEF Steering, StoreOK
    <3>3. QED
      BY <3>1, <3>2, RowDrawn
  <2>3. CASE v.kind = "repeat"
    <3>1. form = BatchForm("repeat", Section(v), echo)
      BY <1>3, <2>3 DEF Forms
    <3>2. \A g \in Section(v) : GroupOK(g)
      BY SectionOK
    <3>3. QED
      BY <3>1, <3>2, BatchDrawn
  <2>4. CASE v.kind \in Targets
    <3>1. PICK g \in Section(v) : form = BatchForm(g.key, {g}, echo)
      BY <1>3, <2>4 DEF Forms, Targets
    <3>2. GroupOK(g) /\ g.key \in Targets
      BY <2>4, SectionOK DEF Targets
    <3>3. g.key \in {"repeat"} \union Targets /\ \A h \in {g} : GroupOK(h)
      BY <3>2
    <3>4. FormOK(BatchForm(g.key, {g}, echo))
            /\ (echo # None => AsSent(BatchForm(g.key, {g}, echo), echo))
      <4> DEFINE key == g.key
                 groups == {g}
      <4>1. key \in {"repeat"} \union Targets /\ \A h \in groups : GroupOK(h)
        BY <3>3
      <4>2. FormOK(BatchForm(key, groups, echo))
              /\ (echo # None => AsSent(BatchForm(key, groups, echo), echo))
        <5> HIDE DEF key, groups
        <5> QED
          BY <4>1, BatchDrawn
      <4>3. QED
        BY <4>2
    <3>5. QED
      BY <3>1, <3>4
  <2>5. QED
    BY <1>2, <2>1, <2>2, <2>3, <2>4 DEF Targets
<1>4. QED
  BY <1>1, <1>3 DEF PageOK, StoreOK

\* One box or one word changes nothing else of a form.
LEMMA ChangedOK ==
    ASSUME NEW form, FormOK(form), NEW new \in Changed(form)
    PROVE  FormOK(new) /\ new.group = form.group /\ new.boxes = form.boxes
<1>1. CASE \E m \in form.boxes : /\ IsBatch(form)
           /\ new = [form EXCEPT !.ticked = IF m \in @ THEN @ \ {m} ELSE @ \union {m}]
  <2>1. PICK ticked \in SUBSET form.boxes : new = [form EXCEPT !.ticked = ticked] /\ IsBatch(form)
    BY <1>1 DEF FormOK
  <2>2. QED
    BY <2>1 DEF FormOK, IsBatch
<1>2. CASE \E m \in form.boxes, w \in Worded : IsBatch(form) /\ new = [form EXCEPT !.own[m] = w]
  <2>1. PICK own \in [form.boxes -> Worded] : new = [form EXCEPT !.own = own] /\ IsBatch(form)
    BY <1>2 DEF FormOK
  <2>2. QED
    BY <2>1 DEF FormOK, IsBatch
<1>3. CASE \E w \in Worded : new = [form EXCEPT !.word = w]
  BY <1>3 DEF FormOK, IsBatch
<1>4. QED
  BY <1>1, <1>2, <1>3 DEF Changed, IsBatch, Worded

-----------------------------------------------------------------------------
(* The inductive invariant.  Every section the browser has or is about to  *)
(* be given was drawn from the store; a batch under way has a word for     *)
(* each finding still to decide, and the page had drawn each of them in    *)
(* the group that it is stamped with; news that a section lacks is held,   *)
(* asked for, or in the section that is on its way.                        *)

Drawable(form, drawn) == \A m \in form.boxes : <<m, form.group[m]>> \in drawn

TouchedOK == touched = None \/ (FormOK(touched) /\ Drawable(touched, offered))

FetchOK ==
    /\ fetch = [at |-> fetch.at, again |-> fetch.again, page |-> fetch.page]
    /\ fetch.at \in {"no", "asked", "read"} /\ fetch.again \in BOOLEAN
    /\ fetch.at = "read" =>
          /\ PageOK(fetch.page, writes) /\ fetch.page.echo = None
          /\ fetch.page.version >= newsAt \/ held \/ fetch.again
    /\ page.echo # None => fetch.at = "no"

PostOK ==
    \/ post = NoPost
    \/ /\ post = [at |-> post.at, form |-> post.form, outcome |-> post.outcome,
                  view |-> post.view, left |-> post.left, failed |-> post.failed,
                  gone |-> post.gone, page |-> post.page]
       /\ post.at \in {"refused", "calls", "back"}
       /\ post.outcome \in Outcomes \union {"withdrawn"} /\ post.view \in Views
       /\ FormOK(post.form) /\ Drawable(post.form, offered) /\ post.left \subseteq post.form.ticked
       /\ IsBatch(post.form) => post.outcome = "declined"
       /\ IsBatch(post.form) /\ post.at = "calls" =>
             \A m \in post.left : Word(post.form, m) # None
       /\ post.at = "back" =>
             PageOK(post.page, writes) /\ (post.page.version >= newsAt \/ held)

BrowserOK ==
    /\ view \in Views /\ held \in BOOLEAN /\ newsAt \in 0..writes
    /\ PageOK(page, writes) /\ \A form \in page.forms : Drawable(form, offered)
    /\ TouchedOK /\ FetchOK /\ PostOK

Stamped ==
    \A f \in Findings : decision[f] # None /\ decision[f].made = "batch" =>
        /\ decision[f].outcome = "declined" /\ decision[f].word # None
        /\ <<f, decision[f].batch>> \in offered

QueueInv == StoreOK /\ BrowserOK /\ Stamped /\ NewsIsDue

LEMMA Implied == QueueInv => /\ TypeOK /\ StampsAreTrue /\ NewsIsDue /\ EveryFindingIsSaid
<1> SUFFICES ASSUME QueueInv
             PROVE  /\ TypeOK /\ StampsAreTrue /\ NewsIsDue /\ EveryFindingIsSaid
  OBVIOUS
<1>1. TypeOK
  <2>1. \A form \in page.forms : FormType(form)
    BY FormIsTyped DEF QueueInv, BrowserOK, PageOK
  <2>2. touched = None \/ FormType(touched)
    BY FormIsTyped DEF QueueInv, BrowserOK, TouchedOK
  <2>3. post.at \in {"no", "refused", "calls", "back"}
    BY DEF QueueInv, BrowserOK, PostOK, NoPost
  <2>4. QED
    BY <2>1, <2>2, <2>3, QueueConstants
       DEF QueueInv, StoreOK, BrowserOK, PageOK, FetchOK, TypeOK, Worded
<1>2. StampsAreTrue /\ NewsIsDue
  BY DEF QueueInv, Stamped, StampsAreTrue
<1>3. EveryFindingIsSaid
  BY AlwaysSaid DEF QueueInv, StoreOK
<1>4. QED
  BY <1>1, <1>2, <1>3

LEMMA OffersDrawn ==
    ASSUME NEW drawn, Offers(drawn) \subseteq offered, NEW form \in drawn.forms
    PROVE  Drawable(form, offered)
BY DEF Offers, Drawable

LEMMA InvInit == Init => QueueInv
<1> SUFFICES ASSUME Init PROVE QueueInv
  OBVIOUS
<1>1. StoreOK
  <2>1. ASSUME NEW f \in Findings, decision[f] # None
        PROVE  /\ decision[f].outcome \in Outcomes /\ decision[f].word \in Worded
               /\ decision[f].n = 1 /\ decision[f].made = "elsewhere"
    <3>1. decision[f] \in FirstDecision(f)
      BY DEF Init
    <3>2. QED
      BY <2>1, <3>1 DEF FirstDecision, Worded, Outcomes
  <2>2. minted \subseteq Findings /\ writes = 0 /\ judged = 0
        /\ verdict \in [Findings -> {None, "refuted", "upheld"}]
    BY DEF Init
  <2>3. decision = [f \in Findings |-> decision[f]]
    BY DEF Init
  <2>4. QED
    BY <2>1, <2>2, <2>3, QueueConstants DEF StoreOK
<1>2. Stamped
  <2>1. ASSUME NEW f \in Findings, decision[f] # None PROVE decision[f].made = "elsewhere"
    <3>1. decision[f] \in FirstDecision(f)
      BY DEF Init
    <3>2. QED
      BY <2>1, <3>1 DEF FirstDecision
  <2>2. QED
    BY <2>1 DEF Stamped
<1>3. view \in Views /\ page = Draw(view, None) /\ offered = Offers(page) /\ newsAt = 0
  BY DEF Init
<1>4. PageOK(page, writes) /\ page.version = writes /\ page.echo = None
  BY <1>1, <1>3, Drawn DEF Echo
<1>5. \A form \in page.forms : Drawable(form, offered)
  BY <1>3, OffersDrawn
<1>6. BrowserOK
  BY <1>1, <1>3, <1>4, <1>5 DEF Init, BrowserOK, StoreOK, TouchedOK, FetchOK, NoFetch, PostOK
<1>7. QED
  BY <1>1, <1>2, <1>3, <1>4, <1>6 DEF QueueInv, NewsIsDue, StoreOK

-----------------------------------------------------------------------------
(* What does not touch the browser only makes its sections older, and what *)
(* only shows more loses no offer.                                         *)

LEMMA PageStays ==
    \A p : \A age, later \in Nat : PageOK(p, age) /\ age <= later => PageOK(p, later)
BY DEF PageOK

LEMMA StillDrawable ==
    \A form, before, after : Drawable(form, before) /\ before \subseteq after => Drawable(form, after)
BY DEF Drawable

LEMMA InvOthers ==
    ASSUME QueueInv,
           \/ \E f \in Findings : Mint(f)
           \/ \E f \in Findings, word \in {"refuted", "upheld"} : Judge(f, word)
           \/ \E f \in Findings, outcome \in Outcomes, word \in Words \cup {None} :
                 DecideElsewhere(f, outcome, word)
    PROVE  QueueInv'
<1> USE DEF Others, Write, MayWrite
<1>1. /\ UNCHANGED <<view, page, touched, seen, held, fetch, post, newsAt, offered>>
      /\ writes' = writes + 1 /\ writes < MaxWrites
  BY DEF Mint, Judge, DecideElsewhere, browser
<1>2. writes \in Nat /\ writes' \in Nat /\ writes <= writes' /\ writes' \in 0..MaxWrites
  BY <1>1, QueueConstants DEF QueueInv, StoreOK
<1>3. StoreOK'
  <2>1. ASSUME NEW f \in Findings, Mint(f) PROVE StoreOK'
    BY <1>1, <1>2, <2>1 DEF Mint, QueueInv, StoreOK
  <2>2. ASSUME NEW f \in Findings, NEW word \in {"refuted", "upheld"}, Judge(f, word)
        PROVE  StoreOK'
    BY <1>1, <1>2, <2>2 DEF Judge, QueueInv, StoreOK
  <2>3. ASSUME NEW f \in Findings, NEW outcome \in Outcomes, NEW word \in Words \cup {None},
               DecideElsewhere(f, outcome, word)
        PROVE  StoreOK'
    BY <1>1, <1>2, <2>3 DEF DecideElsewhere, QueueInv, StoreOK, Worded
  <2>4. QED
    BY <2>1, <2>2, <2>3
<1>4. Stamped'
  <2>1. CASE UNCHANGED decision
    BY <1>1, <2>1 DEF QueueInv, Stamped
  <2>2. ASSUME NEW f \in Findings, NEW outcome \in Outcomes, NEW word \in Words \cup {None},
               DecideElsewhere(f, outcome, word)
        PROVE  Stamped'
    BY <1>1, <2>2 DEF DecideElsewhere, QueueInv, StoreOK, Stamped
  <2>3. QED
    BY <2>1, <2>2 DEF Mint, Judge
<1>5. BrowserOK'
  <2>1. PageOK(page, writes)'
    BY <1>1, <1>2, PageStays DEF QueueInv, BrowserOK
  <2>2. FetchOK'
    BY <1>1, <1>2, PageStays DEF QueueInv, BrowserOK, FetchOK
  <2>3. PostOK'
    BY <1>1, <1>2, PageStays DEF QueueInv, BrowserOK, PostOK, NoPost
  <2>4. QED
    BY <1>1, <1>2, <2>1, <2>2, <2>3 DEF QueueInv, BrowserOK, TouchedOK
<1>6. NewsIsDue'
  BY <1>1 DEF QueueInv, NewsIsDue
<1>7. QED
  BY <1>3, <1>4, <1>5, <1>6 DEF QueueInv

\* A refresh that is asked for while one is on its way is asked for again.
LEMMA AskingIsAFetch ==
    ASSUME FetchOK, page.echo = None, UNCHANGED <<page, writes>>, fetch' = Asking
    PROVE  FetchOK' /\ fetch'.at # "no"
<1>1. CASE fetch.at = "no"
  <2>1. fetch' = [at |-> "asked", again |-> FALSE, page |-> None]
    BY <1>1 DEF Asking, NoFetch
  <2>2. QED
    BY <2>1 DEF FetchOK
<1>2. CASE fetch.at # "no"
  <2>1. fetch' = [at |-> fetch.at, again |-> TRUE, page |-> fetch.page]
    BY <1>2 DEF Asking, FetchOK
  <2>2. fetch'.at = "read" => PageOK(fetch'.page, writes') /\ fetch'.page.echo = None
    BY <2>1 DEF FetchOK
  <2>3. QED
    BY <1>2, <2>1, <2>2 DEF FetchOK
<1>3. QED
  BY <1>1, <1>2

LEMMA InvTouch ==
    ASSUME QueueInv, NEW form, Touch(form)
    PROVE  QueueInv'
<1>1. UNCHANGED <<store, view, page, held, fetch, post, newsAt, offered>>
  BY DEF Touch
<1>2. FormOK(form) /\ Drawable(form, offered)
  BY DEF Touch, QueueInv, BrowserOK, TouchedOK, PageOK
<1>3. FormOK(touched') /\ touched'.group = form.group /\ touched'.boxes = form.boxes
  BY <1>2, ChangedOK DEF Touch
<1>4. TouchedOK'
  BY <1>1, <1>2, <1>3 DEF TouchedOK, Drawable
<1>5. QED
  BY <1>1, <1>4 DEF store, QueueInv, StoreOK, BrowserOK, FetchOK, PostOK, Stamped, NewsIsDue

LEMMA InvLeave ==
    ASSUME QueueInv, Leave
    PROVE  QueueInv'
<1>1. UNCHANGED <<store, view, page, post, newsAt, offered>> /\ touched' = None /\ post.at = "no"
  BY DEF Leave
<1>2. post = NoPost
  BY <1>1 DEF QueueInv, BrowserOK, PostOK
<1>3. CASE UNCHANGED <<held, fetch>>
  BY <1>1, <1>3 DEF store, QueueInv, StoreOK, BrowserOK, TouchedOK, FetchOK, PostOK, Stamped, NewsIsDue
<1>4. CASE held /\ page.echo = None /\ held' = FALSE /\ fetch' = Asking
  <2>1. FetchOK' /\ fetch'.at # "no"
    BY <1>1, <1>4, AskingIsAFetch DEF store, QueueInv, BrowserOK
  <2>2. QED
    BY <1>1, <1>2, <1>4, <2>1 DEF store, QueueInv, StoreOK, BrowserOK, TouchedOK, PostOK, NoPost,
                                  Stamped, NewsIsDue
<1>5. QED
  BY <1>3, <1>4 DEF Leave

LEMMA InvTurn ==
    ASSUME QueueInv, NEW v \in Views, Turn(v)
    PROVE  QueueInv'
<1>1. /\ UNCHANGED <<store, held, post, newsAt>> /\ post.at = "no" /\ view' = v
      /\ page' = Draw(v, None) /\ touched' = None /\ fetch' = NoFetch
      /\ offered' = offered \union Offers(page')
  BY DEF Turn
<1>2. PageOK(page', writes) /\ page'.version = writes /\ page'.echo = None
  BY <1>1, Drawn DEF QueueInv, Echo
<1>3. \A form \in page'.forms : Drawable(form, offered')
  BY <1>1 DEF Offers, Drawable
<1>4. post = NoPost
  BY <1>1 DEF QueueInv, BrowserOK, PostOK
<1>5. StoreOK' /\ Stamped'
  BY <1>1 DEF store, QueueInv, StoreOK, Stamped
<1>6. BrowserOK'
  BY <1>1, <1>2, <1>3, <1>4 DEF store, QueueInv, BrowserOK, TouchedOK, FetchOK, NoFetch, PostOK
<1>7. NewsIsDue'
  BY <1>1, <1>2 DEF store, QueueInv, StoreOK, BrowserOK, NewsIsDue
<1>8. QED
  BY <1>5, <1>6, <1>7 DEF QueueInv

LEMMA InvPoll ==
    ASSUME QueueInv, Poll
    PROVE  QueueInv'
<1>1. UNCHANGED <<store, view, page, touched, post, offered>>
  BY DEF Poll
<1>2. writes \in Nat /\ newsAt' \in 0..writes
  BY QueueConstants DEF Poll, QueueInv, StoreOK, BrowserOK
<1>3. StoreOK' /\ Stamped' /\ TouchedOK'
  BY <1>1 DEF store, QueueInv, StoreOK, Stamped, BrowserOK, TouchedOK
<1>4. CASE UNCHANGED <<held, fetch, newsAt>>
  BY <1>1, <1>3, <1>4 DEF store, QueueInv, StoreOK, BrowserOK, FetchOK, PostOK, NewsIsDue
<1>5. CASE MidDecision /\ held' = TRUE /\ UNCHANGED fetch
  <2>1. FetchOK' /\ PostOK'
    BY <1>1, <1>5 DEF store, QueueInv, BrowserOK, FetchOK, PostOK
  <2>2. QED
    BY <1>1, <1>2, <1>3, <1>5, <2>1 DEF store, QueueInv, BrowserOK, NewsIsDue
<1>6. CASE ~MidDecision /\ held' = FALSE /\ fetch' = Asking
  <2>1. post = NoPost /\ page.echo = None
    BY <1>6 DEF MidDecision, QueueInv, BrowserOK, PostOK
  <2>2. FetchOK' /\ fetch'.at # "no"
    BY <1>1, <1>6, <2>1, AskingIsAFetch DEF store, QueueInv, BrowserOK
  <2>3. QED
    BY <1>1, <1>2, <1>3, <1>6, <2>1, <2>2 DEF store, QueueInv, BrowserOK, PostOK, NoPost, NewsIsDue
<1>7. QED
  BY <1>4, <1>5, <1>6 DEF Poll

LEMMA InvRefresh ==
    ASSUME QueueInv, Refresh
    PROVE  QueueInv'
<1>1. /\ UNCHANGED <<store, view, page, touched, held, post, newsAt, offered>>
      /\ fetch.at = "asked" /\ fetch' = [fetch EXCEPT !.at = "read", !.page = Draw(view, None)]
  BY DEF Refresh
<1>2. /\ PageOK(Draw(view, None), writes) /\ Draw(view, None).version = writes
      /\ Draw(view, None).echo = None
  BY Drawn DEF QueueInv, BrowserOK, Echo
<1>3. fetch' = [at |-> "read", again |-> fetch.again, page |-> Draw(view, None)]
  BY <1>1 DEF QueueInv, BrowserOK, FetchOK
<1>4. FetchOK'
  <2> DEFINE drawn == Draw(view, None)
  <2>1. fetch' = [at |-> "read", again |-> fetch.again, page |-> drawn] /\ PageOK(drawn, writes)
        /\ drawn.version = writes /\ drawn.echo = None
    BY <1>2, <1>3
  <2>2. UNCHANGED <<writes, page, newsAt, held>> /\ fetch.at = "asked"
    BY <1>1 DEF store
  <2>3. FetchOK /\ newsAt \in 0..writes /\ writes \in Nat
    BY QueueConstants DEF QueueInv, BrowserOK, StoreOK
  <2> HIDE DEF drawn
  <2>4. QED
    BY <2>1, <2>2, <2>3 DEF FetchOK
<1>5. QED
  BY <1>1, <1>3, <1>4 DEF store, QueueInv, StoreOK, BrowserOK, TouchedOK, PostOK, Stamped, NewsIsDue

LEMMA InvRefreshArrives ==
    ASSUME QueueInv, RefreshArrives
    PROVE  QueueInv' /\ page.echo = None
<1>1. /\ UNCHANGED <<store, view, held, newsAt>> /\ fetch.at = "read"
      /\ page' = fetch.page /\ touched' = None /\ offered' = offered \union Offers(page')
      /\ fetch' = IF fetch.again THEN [NoFetch EXCEPT !.at = "asked"] ELSE NoFetch
      /\ post' = IF post.at = "no" THEN NoPost ELSE [post EXCEPT !.gone = TRUE]
  BY DEF RefreshArrives
<1>2. page.echo = None
  BY <1>1 DEF QueueInv, BrowserOK, FetchOK
<1>3. /\ PageOK(page', writes) /\ page'.echo = None
      /\ page'.version >= newsAt \/ held \/ fetch.again
  BY <1>1 DEF QueueInv, BrowserOK, FetchOK
<1>4. \A form \in page'.forms : Drawable(form, offered')
  BY <1>1 DEF Offers, Drawable
<1>5. StoreOK' /\ Stamped'
  BY <1>1 DEF store, QueueInv, StoreOK, Stamped
<1>6. FetchOK'
  <2>1. fetch' = [at |-> IF fetch.again THEN "asked" ELSE "no", again |-> FALSE, page |-> None]
    BY <1>1 DEF NoFetch
  <2>2. QED
    BY <1>3, <2>1 DEF FetchOK
<1>7. PostOK'
  <2>1. CASE post = NoPost
    BY <1>1, <2>1 DEF PostOK, NoPost
  <2>2. CASE post # NoPost
    <3>1. post' = [post EXCEPT !.gone = TRUE]
      BY <1>1, <2>2 DEF QueueInv, BrowserOK, PostOK
    <3>2. /\ post' = [at |-> post'.at, form |-> post'.form, outcome |-> post'.outcome,
                     view |-> post'.view, left |-> post'.left, failed |-> post'.failed,
                     gone |-> post'.gone, page |-> post'.page]
          /\ post'.at = post.at /\ post'.form = post.form /\ post'.outcome = post.outcome
          /\ post'.view = post.view /\ post'.left = post.left /\ post'.page = post.page
      BY <2>2, <3>1 DEF QueueInv, BrowserOK, PostOK
    <3>3. Drawable(post.form, offered) => Drawable(post.form, offered')
      BY <1>1, StillDrawable
    <3>4. QED
      BY <1>1, <2>2, <3>2, <3>3 DEF store, QueueInv, BrowserOK, PostOK
  <2>3. QED
    BY <2>1, <2>2
<1>8. BrowserOK'
  BY <1>1, <1>3, <1>4, <1>6, <1>7 DEF store, QueueInv, BrowserOK, TouchedOK
<1>9. NewsIsDue'
  BY <1>1, <1>3 DEF NoFetch, NewsIsDue
<1>10. QED
  BY <1>2, <1>5, <1>8, <1>9 DEF QueueInv

LEMMA InvPost ==
    ASSUME QueueInv, NEW form, NEW outcome \in Outcomes \union {"withdrawn"}, Post(form, outcome)
    PROVE  QueueInv'
<1> DEFINE at == IF IsBatch(form) /\ PlanRefused(form) THEN "refused" ELSE "calls"
<1>1. /\ UNCHANGED <<store, view, page, touched, held, fetch, newsAt, offered>>
      /\ IsBatch(form) => outcome = "declined"
      /\ post' = [at |-> at, form |-> form, outcome |-> outcome, view |-> view,
                 left |-> form.ticked, failed |-> {}, gone |-> FALSE, page |-> None]
  BY DEF Post
<1>2. FormOK(form) /\ Drawable(form, offered)
  BY DEF Post, QueueInv, BrowserOK, TouchedOK, PageOK
<1>3. at \in {"refused", "calls"} /\ (IsBatch(form) /\ at = "calls" =>
           \A m \in form.ticked : Word(form, m) # None)
  BY DEF PlanRefused
<1>4. PostOK'
  <2> HIDE DEF at
  <2> QED
    BY <1>1, <1>2, <1>3 DEF QueueInv, BrowserOK, PostOK
<1>5. QED
  BY <1>1, <1>4 DEF store, QueueInv, StoreOK, BrowserOK, TouchedOK, FetchOK, Stamped, NewsIsDue

LEMMA InvAnswer ==
    ASSUME QueueInv, Answer
    PROVE  QueueInv'
<1>1. /\ UNCHANGED <<store, view, page, touched, held, fetch, newsAt, offered>>
      /\ post.at \in {"refused", "calls"}
  BY DEF Answer
<1>2. PICK echo : /\ echo \in {post.form, None}
                  /\ post' = [post EXCEPT !.at = "back", !.page = Draw(post.view, echo)]
  BY DEF Answer
<1>3. post # NoPost /\ PostOK /\ StoreOK
  BY <1>1 DEF NoPost, QueueInv, BrowserOK
<1>4. Echo(echo) /\ post.view \in Views
  BY <1>2, <1>3 DEF PostOK, Echo
<1> DEFINE drawn == Draw(post.view, echo)
<1>5. PageOK(drawn, writes) /\ drawn.version = writes
  BY <1>3, <1>4, Drawn
<1>6. post' = [post EXCEPT !.at = "back", !.page = drawn]
  BY <1>2
<1>7. PostOK'
  <2> HIDE DEF drawn
  <2>1. post' = [at |-> "back", form |-> post.form, outcome |-> post.outcome,
                 view |-> post.view, left |-> post.left, failed |-> post.failed,
                 gone |-> post.gone, page |-> drawn]
    BY <1>3, <1>6 DEF PostOK
  <2>2. drawn.version >= newsAt
    BY <1>5, QueueConstants DEF QueueInv, StoreOK, BrowserOK
  <2>3. QED
    BY <1>1, <1>3, <1>5, <2>1, <2>2 DEF store, PostOK
<1>8. QED
  BY <1>1, <1>7 DEF store, QueueInv, StoreOK, BrowserOK, TouchedOK, FetchOK, Stamped, NewsIsDue

LEMMA InvAnswerArrives ==
    ASSUME QueueInv, AnswerArrives
    PROVE  QueueInv'
<1>1. UNCHANGED <<store, view, held, newsAt>> /\ post.at = "back" /\ post' = NoPost
  BY DEF AnswerArrives
<1>2. StoreOK' /\ PostOK'
  BY <1>1 DEF store, QueueInv, StoreOK, PostOK
<1>3. CASE UNCHANGED <<page, touched, fetch, offered>>
  BY <1>1, <1>2, <1>3 DEF store, QueueInv, BrowserOK, TouchedOK, FetchOK, Stamped, NewsIsDue
<1>4. CASE /\ page' = post.page /\ touched' = None /\ fetch' = NoFetch
           /\ offered' = offered \union Offers(page')
  <2>1. PageOK(page', writes) /\ (page'.version >= newsAt \/ held)
    BY <1>1, <1>4 DEF QueueInv, BrowserOK, PostOK, NoPost
  <2>2. \A form \in page'.forms : Drawable(form, offered')
    BY <1>4 DEF Offers, Drawable
  <2>3. BrowserOK'
    BY <1>1, <1>2, <1>4, <2>1, <2>2 DEF store, QueueInv, BrowserOK, TouchedOK, FetchOK, NoFetch
  <2>4. Stamped' /\ NewsIsDue'
    BY <1>1, <1>4, <2>1 DEF store, QueueInv, Stamped, NewsIsDue
  <2>5. QED
    BY <1>2, <2>3, <2>4 DEF QueueInv
<1>5. QED
  BY <1>3, <1>4 DEF AnswerArrives

LEMMA InvCall ==
    ASSUME QueueInv, NEW m \in Findings, Call(m)
    PROVE  QueueInv'
<1> DEFINE said == Said(post.form, m, post.outcome)
<1>1. /\ UNCHANGED <<minted, verdict, judged, view, page, touched, held, fetch, newsAt, offered>>
      /\ post.at = "calls" /\ m \in post.left
  BY DEF Call
<1>2. post # NoPost /\ PostOK
  BY <1>1 DEF NoPost, QueueInv, BrowserOK
<1>3. PICK failed : post' = [post EXCEPT !.left = @ \ {m}, !.failed = failed]
  BY DEF Call
<1>4. PostOK'
  <2>1. post' = [at |-> "calls", form |-> post.form, outcome |-> post.outcome,
                 view |-> post.view, left |-> post.left \ {m}, failed |-> failed,
                 gone |-> post.gone, page |-> post.page]
    BY <1>1, <1>2, <1>3 DEF PostOK
  <2>2. QED
    BY <1>1, <1>2, <2>1 DEF PostOK
<1>5. \/ UNCHANGED <<decision, writes>>
      \/ /\ writes < MaxWrites /\ writes' = writes + 1
         /\ decision' = [decision EXCEPT ![m] = IF post.outcome = "withdrawn" THEN None ELSE said]
  BY DEF Call, Write, MayWrite
<1>6. /\ writes \in Nat /\ writes' \in Nat /\ writes <= writes'
      /\ writes' \in 0..MaxWrites
  BY <1>5, QueueConstants DEF QueueInv, StoreOK
<1>7. StoreOK'
  <2>1. CASE UNCHANGED <<decision, writes>>
    BY <1>1, <2>1 DEF QueueInv, StoreOK
  <2>2. CASE /\ writes < MaxWrites /\ writes' = writes + 1
             /\ decision' = [decision EXCEPT ![m] = IF post.outcome = "withdrawn" THEN None ELSE said]
    <3>1. post.outcome # "withdrawn" =>
             said.outcome \in Outcomes /\ said.word \in Worded /\ said.n = writes + 2
      <4>1. Word(post.form, m) \in Worded
        BY <1>1, <1>2 DEF PostOK, FormOK, Word, Worded
      <4>2. QED
        BY <1>2, <4>1 DEF PostOK, Said, Worded
    <3> HIDE DEF said
    <3>2. \A f \in Findings : decision'[f] # None =>
             \/ f # m /\ decision'[f] = decision[f]
             \/ f = m /\ decision'[f] = said /\ post.outcome # "withdrawn"
      BY <2>2 DEF QueueInv, StoreOK
    <3>3. \A f \in Findings : decision'[f] # None =>
             /\ decision'[f].outcome \in Outcomes /\ decision'[f].word \in Worded
             /\ decision'[f].n \in 1..writes' + 1
      BY <2>2, <1>6, <3>1, <3>2 DEF QueueInv, StoreOK
    <3>4. decision' = [f \in Findings |-> decision'[f]]
      BY <2>2 DEF QueueInv, StoreOK
    <3>5. QED
      BY <1>1, <1>6, <2>2, <3>3, <3>4 DEF QueueInv, StoreOK
  <2>3. QED
    BY <1>5, <2>1, <2>2
<1>8. Stamped'
  <2>1. CASE UNCHANGED <<decision, writes>>
    BY <1>1, <2>1 DEF QueueInv, Stamped
  <2>2. CASE decision' = [decision EXCEPT ![m] = IF post.outcome = "withdrawn" THEN None ELSE said]
    <3>1. said.made = "batch" =>
             /\ said.outcome = "declined" /\ said.word # None /\ <<m, said.batch>> \in offered
      <4>1. SUFFICES ASSUME said.made = "batch"
                     PROVE  /\ said.outcome = "declined" /\ said.word # None
                            /\ <<m, said.batch>> \in offered
        OBVIOUS
      <4>2. IsBatch(post.form)
        BY <4>1 DEF Said
      <4>3. post.outcome = "declined" /\ Word(post.form, m) # None /\ m \in post.form.boxes
        BY <1>1, <1>2, <4>2 DEF PostOK, FormOK
      <4>4. <<m, post.form.group[m]>> \in offered
        BY <1>2, <4>3 DEF PostOK, Drawable
      <4>5. QED
        BY <4>2, <4>3, <4>4 DEF Said
    <3> HIDE DEF said
    <3>2. \A f \in Findings : decision'[f] # None =>
             (f # m /\ decision'[f] = decision[f]) \/ (f = m /\ decision'[f] = said)
      BY <2>2 DEF QueueInv, StoreOK
    <3>3. QED
      BY <1>1, <3>1, <3>2 DEF QueueInv, Stamped
  <2>3. QED
    BY <1>5, <2>1, <2>2
<1>9. BrowserOK'
  <2>1. PageOK(page, writes')
    BY <1>6, PageStays DEF QueueInv, BrowserOK
  <2>2. FetchOK'
    BY <1>1, <1>6, PageStays DEF QueueInv, BrowserOK, FetchOK
  <2>3. QED
    BY <1>1, <1>4, <1>6, <2>1, <2>2 DEF QueueInv, BrowserOK, TouchedOK
<1>10. NewsIsDue'
  BY <1>1 DEF QueueInv, NewsIsDue
<1>11. QED
  BY <1>7, <1>8, <1>9, <1>10 DEF QueueInv

LEMMA InvStep ==
    ASSUME QueueInv, [Next]_vars
    PROVE  QueueInv'
<1>1. CASE UNCHANGED vars
  BY <1>1 DEF vars, store, browser, bounds, QueueInv, StoreOK, BrowserOK, TouchedOK, FetchOK,
              PostOK, Stamped, NewsIsDue
<1>2. QED
  BY <1>1, InvOthers, InvTouch, InvLeave, InvTurn, InvPoll, InvRefresh, InvRefreshArrives,
     InvPost, InvCall, InvAnswer, InvAnswerArrives DEF Next

LEMMA Always == Spec => []QueueInv
BY InvInit, InvStep, PTL DEF Spec

-----------------------------------------------------------------------------
(* What a refusal keeps.  The forms of every section, and the one that is  *)
(* filled in or sent, are those of the view it was drawn for; so a form    *)
(* that is refused finds its place in the section that comes back, and     *)
(* while it stands there no refresh is asked for.                          *)

\* The form that a view has for a finding it lists.
FormOf(form, v) == IF v.kind \in {"rows", "walk"} THEN ~IsBatch(form) ELSE form.key = v.kind

Fits(p, v) == \A form \in p.forms : FormOf(form, v)

FitsView ==
    /\ Fits(page, view) /\ (touched # None => FormOf(touched, view))
    /\ fetch.at = "read" => Fits(fetch.page, view)
    /\ post.at # "no" => post.view = view /\ FormOf(post.form, view) /\ post.form # None
    /\ post.at = "back" => Fits(post.page, view)

\* What was refused stands on a section.
Stands(p, e) ==
    /\ p.echo # None
    /\ e.folded \/ \A m \in e.listed : \E form \in p.forms : AsEntered(form, e.form, m)

Kept ==
    \/ entered = None
    \/ /\ entered = [form |-> entered.form, listed |-> entered.listed,
                     folded |-> entered.folded, gone |-> entered.gone]
       /\ post.at \in {"no", "back"}
       /\ post.at = "back" => Stands(post.page, entered)
       /\ post.at = "no" => entered.gone \/ Stands(page, entered)

KeptInv == FitsView /\ Kept

LEMMA KeptImplies == KeptInv => RefusalLosesNothing
BY DEF KeptInv, Kept, Stands, RefusalLosesNothing

LEMMA KeyDrawn == \A key, groups, echo : BatchForm(key, groups, echo).key = key
BY DEF BatchForm

LEMMA FitsDrawn ==
    ASSUME StoreOK, NEW v \in Views, NEW echo
    PROVE  Fits(Draw(v, echo), v)
<1>1. Draw(v, echo).forms = Forms(v, echo)
  BY DEF Draw
<1>2. v.kind \in {"repeat", "comment", "file", "rows", "walk"}
  BY QueueConstants
<1>3. ASSUME NEW form \in Forms(v, echo) PROVE FormOf(form, v)
  <2>1. CASE v.kind \in {"rows", "walk"}
    <3>1. PICK f \in minted : form = RowForm(f, echo)
      BY <1>3, <2>1 DEF Forms, Listed, Asked, Pending, Steering
    <3>2. f \in Findings /\ form.key = f
      BY <3>1 DEF StoreOK, RowForm
    <3>3. QED
      BY <2>1, <3>2, QueueConstants DEF FormOf, IsBatch, Targets
  <2>2. CASE v.kind = "repeat"
    <3>1. form.key = "repeat"
      BY <1>3, <2>2, KeyDrawn DEF Forms
    <3>2. QED
      BY <2>2, <3>1 DEF FormOf
  <2>3. CASE v.kind \in Targets
    <3>1. PICK g \in Section(v) : form = BatchForm(g.key, {g}, echo)
      BY <1>3, <2>3 DEF Forms, Targets
    <3>2. g.key = v.kind
      BY <2>3, SectionOK DEF Targets
    <3>3. form.key = g.key
      BY <3>1, KeyDrawn
    <3>4. QED
      BY <2>3, <3>2, <3>3 DEF FormOf, Targets
  <2>4. QED
    BY <1>2, <2>1, <2>2, <2>3 DEF Targets
<1>4. QED
  BY <1>1, <1>3 DEF Fits

\* A group that is left to no other kind is in its section with whom the view lists of it.
LEMMA SectionHas ==
    ASSUME NEW v, NEW h \in Groups(v.kind), ~Folded(Index(v.kind), h),
           NEW m \in Listed(h.members, v)
    PROVE  \E g \in Section(v) : g.key = h.key /\ m \in g.members
<1> DEFINE g == [h EXCEPT !.members = Listed(@, v)]
<1>1. \E key, members, twin, word :
         h = [key |-> key, members |-> members, twin |-> twin, word |-> word]
  BY DEF Groups
<1>2. g.members = Listed(h.members, v) /\ g.key = h.key
  BY <1>1
<1>3. g \in Section(v)
  BY <1>2 DEF Section
<1>4. QED
  BY <1>2, <1>3

LEMMA BoxDrawn ==
    ASSUME NEW key, NEW groups, NEW echo, NEW g \in groups, NEW m \in g.members \intersect Rated
    PROVE  m \in BatchForm(key, groups, echo).boxes
BY DEF BatchForm

\* The form that was sent is in the section, with a box for each finding still listed.
LEMMA BoxesComeBack ==
    ASSUME StoreOK, NEW v \in Views, NEW sent, FormOK(sent), FormOf(sent, v), ~FoldedAway(v),
           NEW m \in sent.boxes \intersect Boxed(v)
    PROVE  \E form \in Forms(v, sent) : form.key = sent.key /\ m \in form.boxes
<1>1. v.kind \in {"repeat", "comment", "file", "rows", "walk"}
  BY QueueConstants
<1>2. CASE v.kind \in {"rows", "walk"}
  <2>1. m = sent.key
    BY <1>2 DEF FormOf, FormOK
  <2>2. RowForm(m, sent) \in Forms(v, sent)
    BY <1>2 DEF Boxed, Forms
  <2>3. RowForm(m, sent).key = m /\ RowForm(m, sent).boxes = {m}
    BY DEF RowForm
  <2>4. QED
    BY <2>1, <2>2, <2>3
<1>3. CASE v.kind = "repeat"
  <2>1. m \in Listed(Repeats, v) /\ m \in Rated /\ sent.key = "repeat"
    BY <1>3 DEF Boxed, FormOf
  <2> DEFINE h == [key |-> m, members |-> {m}, twin |-> Twin[m], word |-> decision[Twin[m]].word]
  <2>2. h \in Groups(v.kind) /\ ~ByTargetOnly(h) /\ m \in Listed(h.members, v)
    BY <1>3, <2>1 DEF Listed, Asked, Groups, Repeats, ByTargetOnly
  <2>3. ~Folded(Index(v.kind), h)
    BY <2>2 DEF Folded
  <2>4. PICK g \in Section(v) : m \in g.members
    <3> HIDE DEF h
    <3> QED
      BY <2>2, <2>3, SectionHas
  <2>5. BatchForm("repeat", Section(v), sent) \in Forms(v, sent)
    BY <1>3, <2>4 DEF Forms
  <2>6. QED
    BY <2>1, <2>4, <2>5, KeyDrawn, BoxDrawn
<1>4. CASE v.kind \in Targets
  <2>1. m \in Listed(Members(v.kind), v) /\ m \in Rated /\ sent.key = v.kind
    BY <1>4 DEF Boxed, FormOf, Targets
  <2> DEFINE h == [key |-> v.kind, members |-> Members(v.kind), twin |-> None,
                   word |-> suggested[v.kind]]
  <2>2. m \in Members(v.kind)
    BY <2>1 DEF Listed, Asked
  <2>3. h \in Groups(v.kind) /\ m \in Listed(h.members, v) /\ h.key = v.kind
    BY <1>4, <2>1, <2>2 DEF Groups, Targets
  <2>4. ~Folded(Index(v.kind), h)
    BY <1>4, <2>3 DEF FoldedAway
  <2>5. PICK g \in Section(v) : g.key = v.kind /\ m \in g.members
    <3> HIDE DEF h
    <3> QED
      BY <2>3, <2>4, SectionHas
  <2>6. BatchForm(g.key, {g}, sent) \in Forms(v, sent)
    BY <1>4, <2>5 DEF Forms, Targets
  <2>7. m \in g.members \intersect Rated /\ g \in {g}
    BY <2>1, <2>5
  <2>8. /\ BatchForm(g.key, {g}, sent).key = g.key
        /\ m \in BatchForm(g.key, {g}, sent).boxes
    BY <2>7, KeyDrawn, BoxDrawn
  <2>9. QED
    BY <2>1, <2>5, <2>6, <2>8
<1>5. QED
  BY <1>1, <1>2, <1>3, <1>4 DEF Targets

\* So each of its boxes and words stands there as it was sent.
LEMMA ComesBack ==
    ASSUME StoreOK, NEW v \in Views, NEW sent, FormOK(sent), FormOf(sent, v), sent # None,
           ~FoldedAway(v), NEW m \in sent.boxes \intersect Boxed(v)
    PROVE  \E form \in Draw(v, sent).forms : AsEntered(form, sent, m)
<1>1. PICK form \in Forms(v, sent) : form.key = sent.key /\ m \in form.boxes
  BY BoxesComeBack
<1>2. Draw(v, sent).forms = Forms(v, sent)
  BY DEF Draw
<1>3. PageOK(Draw(v, sent), writes) /\ Draw(v, sent).echo = sent
  BY Drawn DEF Echo
<1>4. AsSent(form, sent)
  BY <1>1, <1>2, <1>3 DEF PageOK
<1>5. QED
  BY <1>1, <1>2, <1>4 DEF AsSent, AsEntered

LEMMA KeptInit == Init => KeptInv
<1> SUFFICES ASSUME Init PROVE KeptInv
  OBVIOUS
<1>1. StoreOK /\ view \in Views /\ page = Draw(view, None)
  BY InvInit DEF Init, QueueInv, BrowserOK
<1>2. Fits(page, view)
  BY <1>1, FitsDrawn
<1>3. QED
  BY <1>2 DEF Init, KeptInv, FitsView, Kept, NoFetch, NoPost

\* A form with another box or word is of the same view.
LEMMA ChangedFits ==
    ASSUME NEW form, FormOK(form), NEW new \in Changed(form), NEW v, FormOf(form, v)
    PROVE  FormOf(new, v)
<1>1. new.key = form.key
  BY DEF Changed, FormOK
<1>2. QED
  BY <1>1 DEF FormOf, IsBatch

LEMMA FitsStep ==
    ASSUME QueueInv, FitsView, [Next]_vars
    PROVE  FitsView'
<1> DEFINE Screen == <<view, page, touched, fetch, post>>
<1>1. ASSUME UNCHANGED Screen PROVE FitsView'
  BY <1>1 DEF FitsView
<1>2. ASSUME \/ \E f \in Findings : Mint(f)
             \/ \E f \in Findings, word \in {"refuted", "upheld"} : Judge(f, word)
             \/ \E f \in Findings, outcome \in Outcomes, word \in Words \cup {None} :
                   DecideElsewhere(f, outcome, word)
      PROVE  FitsView'
  BY <1>1, <1>2 DEF Mint, Judge, DecideElsewhere, Others, browser
<1>3. ASSUME NEW form, form # None, Touch(form) PROVE FitsView'
  <2>1. /\ UNCHANGED <<view, page, fetch, post>> /\ touched' \in Changed(form)
        /\ FormOf(form, view) /\ FormOK(form)
    BY <1>3 DEF Touch, FitsView, Fits, QueueInv, BrowserOK, TouchedOK, PageOK
  <2>2. FormOf(touched', view)
    BY <2>1, ChangedFits
  <2>3. QED
    BY <2>1, <2>2 DEF FitsView
<1>4. ASSUME Leave PROVE FitsView'
  <2>1. /\ UNCHANGED <<view, page, post>> /\ touched' = None
        /\ fetch'.at = "read" => fetch.at = "read" /\ fetch'.page = fetch.page
    BY <1>4 DEF Leave, Asking, NoFetch, QueueInv, BrowserOK, FetchOK
  <2>2. QED
    BY <2>1 DEF FitsView
<1>5. ASSUME NEW v \in Views, Turn(v) PROVE FitsView'
  <2>1. /\ view' = v /\ page' = Draw(v, None) /\ touched' = None /\ fetch' = NoFetch
        /\ UNCHANGED post /\ post.at = "no"
    BY <1>5 DEF Turn
  <2>2. Fits(page', view')
    BY <2>1, FitsDrawn DEF QueueInv
  <2>3. QED
    BY <2>1, <2>2 DEF FitsView, NoFetch
<1>6. ASSUME Poll PROVE FitsView'
  <2>1. /\ UNCHANGED <<view, page, touched, post>>
        /\ fetch'.at = "read" => fetch.at = "read" /\ fetch'.page = fetch.page
    BY <1>6 DEF Poll, Asking, NoFetch, QueueInv, BrowserOK, FetchOK
  <2>2. QED
    BY <2>1 DEF FitsView
<1>7. ASSUME Refresh PROVE FitsView'
  <2>1. /\ UNCHANGED <<view, page, touched, post>> /\ fetch'.page = Draw(view, None)
    BY <1>7 DEF Refresh, QueueInv, BrowserOK, FetchOK
  <2>2. Fits(fetch'.page, view)
    BY <2>1, FitsDrawn DEF QueueInv, BrowserOK
  <2>3. QED
    BY <2>1, <2>2 DEF FitsView
<1>8. ASSUME RefreshArrives PROVE FitsView'
  <2>1. /\ UNCHANGED view /\ page' = fetch.page /\ fetch.at = "read" /\ touched' = None
        /\ fetch'.at # "read"
        /\ post' = IF post.at = "no" THEN NoPost ELSE [post EXCEPT !.gone = TRUE]
    BY <1>8 DEF RefreshArrives, NoFetch
  <2>2. CASE post.at = "no"
    BY <2>1, <2>2 DEF FitsView, NoPost
  <2>3. CASE post.at # "no"
    <3>1. /\ post'.at = post.at /\ post'.view = post.view /\ post'.form = post.form
          /\ post'.page = post.page
      BY <2>1, <2>3 DEF QueueInv, BrowserOK, PostOK, NoPost
    <3>2. QED
      BY <2>1, <3>1 DEF FitsView
  <2>4. QED
    BY <2>2, <2>3
<1>9. ASSUME NEW form, NEW outcome, form # None, Post(form, outcome) PROVE FitsView'
  <2>1. /\ UNCHANGED <<view, page, touched, fetch>> /\ FormOf(form, view)
        /\ post'.view = view /\ post'.form = form /\ form # None /\ post'.at \in {"refused", "calls"}
    BY <1>9 DEF Post, FitsView, Fits
  <2>2. QED
    BY <2>1 DEF FitsView
<1>10. ASSUME NEW m \in Findings, Call(m) PROVE FitsView'
  <2>1. PICK failed : /\ post' = [post EXCEPT !.left = @ \ {m}, !.failed = failed]
                      /\ post.at = "calls" /\ UNCHANGED <<view, page, touched, fetch>>
    BY <1>10 DEF Call
  <2>2. post'.at = "calls" /\ post'.view = post.view /\ post'.form = post.form
    BY <2>1 DEF QueueInv, BrowserOK, PostOK, NoPost
  <2>3. QED
    BY <2>1, <2>2 DEF FitsView
<1>11. ASSUME Answer PROVE FitsView'
  <2>1. PICK echo : /\ post' = [post EXCEPT !.at = "back", !.page = Draw(post.view, echo)]
                    /\ post.at \in {"refused", "calls"}
                    /\ UNCHANGED <<view, page, touched, fetch>>
    BY <1>11 DEF Answer
  <2>2. /\ post'.view = post.view /\ post'.form = post.form /\ post'.page = Draw(view, echo)
        /\ post.view = view
    BY <2>1 DEF FitsView, QueueInv, BrowserOK, PostOK, NoPost
  <2>3. Fits(post'.page, view)
    BY <2>2, FitsDrawn DEF QueueInv, BrowserOK
  <2>4. QED
    BY <2>1, <2>2, <2>3 DEF FitsView
<1>12. ASSUME AnswerArrives PROVE FitsView'
  <2>1. UNCHANGED view /\ post'.at = "no" /\ post.at = "back"
    BY <1>12 DEF AnswerArrives, NoPost
  <2>2. \/ UNCHANGED <<page, touched, fetch>>
        \/ page' = post.page /\ touched' = None /\ fetch' = NoFetch
    BY <1>12 DEF AnswerArrives
  <2>3. QED
    BY <2>1, <2>2 DEF FitsView, NoFetch
<1>13. ASSUME UNCHANGED vars PROVE FitsView'
  BY <1>1, <1>13 DEF vars, browser
<1> HIDE DEF Screen
<1>14. QED
  BY <1>2, <1>3, <1>4, <1>5, <1>6, <1>7, <1>8, <1>9, <1>10, <1>11, <1>12, <1>13 DEF Next

LEMMA KeptStep ==
    ASSUME QueueInv, KeptInv, [Next]_vars
    PROVE  Kept'
<1>1. ASSUME UNCHANGED <<page, post, entered>> PROVE Kept'
  BY <1>1 DEF KeptInv, Kept
<1>2. ASSUME \/ \E f \in Findings : Mint(f)
             \/ \E f \in Findings, word \in {"refuted", "upheld"} : Judge(f, word)
             \/ \E f \in Findings, outcome \in Outcomes, word \in Words \cup {None} :
                   DecideElsewhere(f, outcome, word)
      PROVE  Kept'
  BY <1>1, <1>2 DEF Mint, Judge, DecideElsewhere, Others, browser
<1>3. ASSUME \/ \E form \in page.forms \union {touched} : Touch(form)
             \/ Leave \/ Poll \/ Refresh \/ UNCHANGED vars
      PROVE  Kept'
  BY <1>1, <1>3 DEF Touch, Leave, Poll, Refresh, vars, browser
<1>4. ASSUME \/ \E v \in Views : Turn(v)
             \/ \E form \in page.forms \union {touched}, outcome \in Outcomes \union {"withdrawn"} :
                   Post(form, outcome)
      PROVE  Kept'
  BY <1>4 DEF Turn, Post, Kept
<1>5. ASSUME NEW m \in Findings, Call(m) PROVE Kept'
  BY <1>5 DEF Call, KeptInv, Kept
<1>6. ASSUME RefreshArrives PROVE Kept'
  <2>1. page.echo = None /\ UNCHANGED entered
        /\ post' = IF post.at = "no" THEN NoPost ELSE [post EXCEPT !.gone = TRUE]
    BY <1>6, InvRefreshArrives DEF RefreshArrives
  <2>2. CASE post.at = "no"
    BY <2>1, <2>2 DEF KeptInv, Kept, Stands, NoPost
  <2>3. CASE post.at # "no"
    <3>1. post'.at = post.at /\ post'.page = post.page
      BY <2>1, <2>3 DEF QueueInv, BrowserOK, PostOK, NoPost
    <3>2. QED
      BY <2>1, <2>3, <3>1 DEF KeptInv, Kept
  <2>4. QED
    BY <2>2, <2>3
<1>7. ASSUME Answer PROVE Kept'
  <2> DEFINE refused == post.at = "refused" \/ (~IsBatch(post.form) /\ post.failed # {})
  <2>1. CASE ~refused
    BY <1>7, <2>1 DEF Answer, Kept
  <2>2. CASE refused
    <3> DEFINE listed == post.form.boxes \intersect Boxed(post.view)
               folded == FoldedAway(post.view)
               drawn == Draw(post.view, post.form)
    <3>1. /\ post' = [post EXCEPT !.at = "back", !.page = drawn]
          /\ entered' = [form |-> post.form, gone |-> FALSE, folded |-> folded, listed |-> listed]
          /\ post.at \in {"refused", "calls"}
      BY <1>7, <2>2 DEF Answer
    <3>2. /\ StoreOK /\ post.view \in Views /\ FormOK(post.form) /\ FormOf(post.form, post.view)
          /\ post # NoPost /\ PostOK
      BY <3>1 DEF KeptInv, FitsView, QueueInv, BrowserOK, PostOK, NoPost
    <3>3. post'.at = "back" /\ post'.page = drawn
      BY <3>1, <3>2 DEF PostOK
    <3>4. post.form # None
      BY <3>1 DEF KeptInv, FitsView
    <3>5. drawn.echo = post.form
      BY DEF Draw
    <3>6. ASSUME ~folded, NEW m \in listed
          PROVE  \E form \in drawn.forms : AsEntered(form, post.form, m)
      BY <3>2, <3>4, <3>6, ComesBack
    <3>7. Stands(drawn, entered')
      <4> HIDE DEF drawn, folded, listed
      <4> QED
        BY <3>1, <3>4, <3>5, <3>6 DEF Stands
    <3>8. QED
      <4> HIDE DEF drawn, folded, listed
      <4> QED
        BY <3>1, <3>3, <3>7 DEF Kept
  <2>3. QED
    BY <2>1, <2>2
<1>8. ASSUME AnswerArrives PROVE Kept'
  <2>1. /\ post.at = "back" /\ post' = NoPost /\ entered' = Outlived
        /\ ~post.gone => page' = post.page
    BY <1>8 DEF AnswerArrives
  <2>2. CASE entered = None
    BY <2>1, <2>2 DEF Outlived, Kept
  <2>3. CASE entered # None /\ post.gone
    <3>1. entered' = [form |-> entered.form, listed |-> entered.listed,
                      folded |-> entered.folded, gone |-> TRUE]
      BY <2>1, <2>3 DEF Outlived, KeptInv, Kept
    <3>2. QED
      BY <2>1, <3>1 DEF Kept, NoPost
  <2>4. CASE entered # None /\ ~post.gone
    <3>1. entered' = entered /\ page' = post.page /\ Stands(post.page, entered)
      BY <2>1, <2>4 DEF Outlived, KeptInv, Kept
    <3>2. QED
      BY <2>1, <2>4, <3>1 DEF KeptInv, Kept, NoPost
  <2>5. QED
    BY <2>2, <2>3, <2>4
<1>9. QED
  BY <1>2, <1>3, <1>4, <1>5, <1>6, <1>7, <1>8 DEF Next

LEMMA AlwaysKept == Spec => []KeptInv
<1>1. Init => QueueInv /\ KeptInv
  BY InvInit, KeptInit
<1>2. (QueueInv /\ KeptInv) /\ [Next]_vars => (QueueInv /\ KeptInv)'
  BY InvStep, FitsStep, KeptStep DEF KeptInv
<1>3. QED
  BY <1>1, <1>2, PTL DEF Spec

-----------------------------------------------------------------------------
\* Every form that is drawn, filled in or posted is over findings of the store, each with a
\* box, a declared word or none; no decision, verdict or section is newer than the store.
THEOREM QueueTyping == Spec => []TypeOK
BY Always, Implied, PTL

\* batch.rs: every decline of a batch has a word, and is stamped with a group that the page
\* had drawn its finding in, whatever was regrouped, decided or refused between.
THEOREM DeclinesAreStamped == Spec => []StampsAreTrue
BY Always, Implied, PTL

\* gonk.js: the list is as new as the news last heard of, or a refresh is under way, or the
\* news is held: until a form is left as it was drawn, or the next news.
THEOREM NewsArrives == Spec => []NewsIsDue
BY Always, Implied, PTL

\* queue.rs and batch.rs: the badge counts what is listed and what is left out, and each
\* proposal is shown once, with its word.
THEOREM FindingsAreSaid == Spec => []EveryFindingIsSaid
BY Always, Implied, PTL

\* batch.rs and gonk.js: until the person turns the page or sends a form again, what was
\* entered in a form that was refused stands on the page as it was sent, but for a finding
\* that is no longer listed or is left to another kind when the refusal is drawn, and for a
\* form whose section a refresh had replaced while it was under way.
THEOREM RefusalsAreKept == Spec => []RefusalLosesNothing
BY AlwaysKept, KeptImplies, PTL

=============================================================================
