------------------------------ MODULE QueuePage ----------------------------
(***************************************************************************)
(* The Queue page: what it lists, groups and ticks (src/src/queue.rs,      *)
(* src/src/batch.rs, src/src/verdict.rs, src/src/walk.rs), what a person   *)
(* enters and posts, what is decided, refused and drawn back, and the      *)
(* header's poll that tells an open list there is news (src/web/gonk.js).  *)
(*                                                                         *)
(* The findings, their verdicts and their decisions are ikigai-browse's;   *)
(* other doors, a pass and the judge write them at any moment.  One person *)
(* has the page open, and edits one form at a time.  One read of the store *)
(* is one step: FindingsMemo has what stands between.                      *)
(***************************************************************************)
EXTENDS Naturals, FiniteSets, Sequences

CONSTANTS
    Findings,
    Twin,        \* the finding whose claim one repeats, or None
    Comments,    \* those that quote a comment
    Serious,     \* those rated in the set that the page asks about
    Rated,       \* those that the model rated
    Words,       \* the reason words that the contract declares
    Views,       \* what the person may ask to see: a kind of groups, the rows or the walk,
                 \* of all severities or the serious, with or without the refuted
    Suggestions, \* the words that browse may propose: of each target, a word or None
    None,
    MaxWrites, MaxEdits, MaxPosts   \* bounds: writes, edits and posts

ASSUME QueueConstants ==
    /\ IsFiniteSet(Findings) /\ Findings \cap {"repeat", "comment", "file"} = {}
    /\ Twin \in [Findings -> Findings \union {None}] /\ None \notin Findings
    /\ Views \subseteq [kind : {"repeat", "comment", "file", "rows", "walk"},
                        all : BOOLEAN, shown : BOOLEAN]
    /\ {MaxWrites, MaxEdits, MaxPosts} \subseteq Nat

VARIABLES
    minted, decision, verdict, judged,   \* of each finding; how many verdicts there are
    suggested,   \* the word browse proposes for a kind of group
    writes,      \* how often the store was written
    view,        \* what the person asked to see
    page,        \* the section that was drawn
    touched,     \* the form as the person has it now; None when as drawn
    seen,        \* the revision that the header last brought; None before the first
    held,        \* news came while the person was deciding
    fetch,       \* the refresh under way
    post,        \* the form under way, and what of it is decided
    edits, posts,
    newsAt,      \* history: the writes behind the revision that last was news
    offered,     \* history: each finding with the groups a page has drawn it in
    entered      \* history: the form that was refused last, until the next is sent or the page
                 \* turned, what of it was listed then, and whether its section had gone

store == <<minted, decision, verdict, judged, suggested, writes>>
bounds == <<edits, posts>>
browser == <<view, page, touched, seen, held, fetch, post>>
vars == <<store, browser, bounds, newsAt, offered, entered>>

Kinds == <<"repeat", "comment", "file">>
Targets == {"comment", "file"}
Pending == {f \in minted : decision[f] = None}
Declined(f) == decision[f] # None /\ decision[f].outcome = "declined"

\* browse: a decline with no word, made in a batch or a burst, is not evidence.
Confirmed(d) == d.word # None \/ d.made = "single" \/ d.outcome # "declined"

-----------------------------------------------------------------------------
(* What the page lists.                                                    *)

Refuted(f) == verdict[f] = "refuted"
Queues(f) == f \in Serious \/ f \notin Rated
HiddenByDefault(f) == decision[f] = None /\ Refuted(f)

\* First the severity, then the verdict; a decided row is a record, and is in neither.
Asked(rows, v) == {f \in rows : v.all \/ decision[f] # None \/ Queues(f)}
Listed(rows, v) == {f \in Asked(rows, v) : v.shown \/ ~HiddenByDefault(f)}

PendingCounts ==
    LET queued == {f \in Pending : Queues(f)}
        out == {f \in queued : HiddenByDefault(f)}
    IN  [serious |-> Cardinality(queued) - Cardinality(out), out |-> Cardinality(out),
         other |-> Cardinality(Pending) - Cardinality(queued), verdicts |-> judged]

Rev == PendingCounts

Members(kind) == IF kind = "comment" THEN Pending \cap Comments ELSE Pending
Repeats == {f \in Pending : Twin[f] # None /\ Declined(Twin[f])}

\* The groups of a kind: one per finding that repeats a declined one, or the findings
\* of one target.
Groups(kind) ==
    IF kind = "repeat"
    THEN {[key |-> f, members |-> {f}, twin |-> Twin[f], word |-> decision[Twin[f]].word] :
              f \in Repeats}
    ELSE {g \in {[key |-> kind, members |-> Members(kind), twin |-> None,
                  word |-> suggested[kind]]} : g.members # {}}

ByTargetOnly(g) == g.twin = None

\* Mutant: the first kind that proposes the findings keeps them, whatever its word.
FoldedIntoFirst(i, g) ==
    ByTargetOnly(g) /\ \E j \in 1..i - 1 : \E h \in Groups(Kinds[j]) :
                         ByTargetOnly(h) /\ h.members = g.members

\* A proposal that another kind makes too is left to it: to a later kind that suggests the
\* same, or when this one suggests no word; to an earlier one that alone suggests one.
Folded(i, g) ==
    /\ ByTargetOnly(g)
    /\ \E j \in DOMAIN Kinds : \E h \in Groups(Kinds[j]) :
         /\ ByTargetOnly(h) /\ h.members = g.members
         /\ \/ j > i /\ (h.word = g.word \/ g.word = None)
            \/ j < i /\ g.word = None /\ h.word # None

Index(kind) == CHOOSE i \in DOMAIN Kinds : Kinds[i] = kind

Section(v) ==
    LET kept == {g \in Groups(v.kind) : ~Folded(Index(v.kind), g)}
        left == {[g EXCEPT !.members = Listed(@, v)] : g \in kept}
    IN  {g \in left : g.members # {}}

-----------------------------------------------------------------------------
(* How a form is drawn: from the store, or, when it was refused, as sent.  *)

\* A form that was refused is drawn back into the form with its key.
BelongsTo(echo, key) == echo # None /\ echo.key = key

\* A box starts ticked where its twin's decline was evidently meant.
Evidence(g) == ~ByTargetOnly(g) /\ Confirmed(decision[g.twin])

\* Mutant: the boxes of findings that have left the form since are kept.
AllTicked(boxes, echo) == echo.ticked

StillTicked(boxes, echo) == boxes \cap echo.ticked

BatchForm(key, groups, echo) ==
    LET members == UNION {g.members : g \in groups}
        boxes == members \cap Rated
        in(m) == CHOOSE g \in groups : m \in g.members
        back == BelongsTo(echo, key)
    IN  [key |-> key, boxes |-> boxes, revises |-> 0,
         ticked |-> IF back THEN StillTicked(boxes, echo)
                            ELSE {m \in boxes : Evidence(in(m))},
         own |-> [m \in boxes |->
                    IF back THEN (IF m \in DOMAIN echo.own THEN echo.own[m] ELSE None)
                    ELSE IF ByTargetOnly(in(m)) THEN None ELSE in(m).word],
         word |-> IF back THEN echo.word ELSE None,
         group |-> [m \in boxes |-> in(m).key]]

\* The form of one row, which names the decision that it revises.
RowForm(f, echo) ==
    [key |-> f, boxes |-> {f}, ticked |-> {f}, own |-> [m \in {f} |-> None],
     revises |-> IF decision[f] = None THEN 0 ELSE decision[f].n,
     word |-> IF BelongsTo(echo, f) THEN echo.word ELSE None, group |-> [m \in {f} |-> f]]

Steering == {f \in minted : /\ Declined(f) /\ ~Confirmed(decision[f])
                            /\ \E g \in Pending : Twin[g] = f}

\* The groups that carry a twin are one form; the others are one form each.
Forms(v, echo) ==
    CASE v.kind = "rows" -> {RowForm(f, echo) : f \in Listed(Pending, v)}
      [] v.kind = "walk" -> {RowForm(f, echo) : f \in Steering}
      [] v.kind = "repeat" -> {BatchForm("repeat", Section(v), echo) : g \in Section(v)}
      [] OTHER -> {BatchForm(g.key, {g}, echo) : g \in Section(v)}

\* The findings that a view has a box for, unless their proposal is left to another kind.
Boxed(v) ==
    CASE v.kind = "rows" -> Listed(Pending, v)
      [] v.kind = "walk" -> Steering
      [] v.kind = "repeat" -> Listed(Repeats, v) \cap Rated
      [] OTHER -> Listed(Members(v.kind), v) \cap Rated

FoldedAway(v) == v.kind \in Targets /\ \E g \in Groups(v.kind) : Folded(Index(v.kind), g)

Draw(v, echo) == [forms |-> Forms(v, echo), echo |-> echo, version |-> writes]

Offers(drawn) == UNION {{<<m, form.group[m]>> : m \in form.boxes} : form \in drawn.forms}

NoFetch == [at |-> "no", again |-> FALSE, page |-> None]
NoPost == [at |-> "no"]
View(kind, all, shown) == [kind |-> kind, all |-> all, shown |-> shown]

FirstDecision(f) ==
    IF \E g \in Findings : Twin[g] = f
    THEN {[outcome |-> "declined", word |-> w, made |-> "elsewhere", batch |-> None, n |-> 1] :
              w \in Words \cup {None}} \cup {None}
    ELSE {None}

Init ==
    /\ minted \in {{f \in Findings : Twin[f] = None}, Findings}
    /\ decision \in {d \in [Findings -> UNION {FirstDecision(f) : f \in Findings}] :
                        \A f \in Findings : d[f] \in FirstDecision(f)}
    /\ verdict = [f \in Findings |-> None] /\ judged = 0
    /\ suggested \in Suggestions /\ writes = 0
    /\ view \in Views /\ page = Draw(view, None) /\ touched = None /\ seen = None
    /\ held = FALSE /\ fetch = NoFetch /\ post = NoPost
    /\ edits = 0 /\ posts = 0 /\ newsAt = 0 /\ offered = Offers(page) /\ entered = None

-----------------------------------------------------------------------------
(* The other doors, a pass and the judge.                                  *)

MayWrite == writes < MaxWrites
Write == MayWrite /\ writes' = writes + 1

Others == UNCHANGED <<browser, bounds, newsAt, offered, entered, suggested>>

Mint(f) ==
    /\ Write /\ f \notin minted
    /\ minted' = minted \cup {f}
    /\ Others /\ UNCHANGED <<decision, verdict, judged>>

\* The latest verdict is the one that counts; each stays on file.
Judge(f, word) ==
    /\ Write /\ f \in Pending /\ verdict[f] # word
    /\ verdict' = [verdict EXCEPT ![f] = word] /\ judged' = judged + 1
    /\ Others /\ UNCHANGED <<minted, decision>>

DecideElsewhere(f, outcome, word) ==
    /\ Write /\ f \in Pending /\ (word # None => outcome = "declined")
    /\ decision' = [decision EXCEPT ![f] = [outcome |-> outcome, word |-> word, n |-> writes + 2,
                                            made |-> "elsewhere", batch |-> None]]
    /\ Others /\ UNCHANGED <<minted, verdict, judged>>

-----------------------------------------------------------------------------
(* The person.                                                             *)

\* Mutant: what was sent and refused is no decision under way.
MidDecisionOnScreen == touched # None \/ post.at # "no"

MidDecision == touched # None \/ post.at # "no" \/ page.echo # None

\* A form is changed by one box or one word.
Changed(form) ==
    {[form EXCEPT !.ticked = IF m \in @ THEN @ \ {m} ELSE @ \cup {m}] :
         m \in IF form.key = "repeat" \/ form.key \in Targets THEN form.boxes ELSE {}}
    \cup {[form EXCEPT !.own[m] = w] :
             m \in IF form.key = "repeat" THEN form.boxes ELSE {}, w \in Words \cup {None}}
    \cup {[form EXCEPT !.word = w] : w \in Words \cup {None}}

Touch(form) ==
    /\ edits < MaxEdits /\ post.at = "no" /\ edits' = edits + 1
    /\ IF touched = None THEN form \in page.forms ELSE form = touched
    /\ touched' \in Changed(form) \ {form}
    /\ UNCHANGED <<store, view, page, seen, held, fetch, post, posts, newsAt, offered, entered>>

Asking == IF fetch.at = "no" THEN [NoFetch EXCEPT !.at = "asked"] ELSE [fetch EXCEPT !.again = TRUE]

\* The form is put back as it was drawn: news that was held goes on.
Leave ==
    /\ touched # None /\ post.at = "no" /\ touched' = None
    /\ IF held /\ page.echo = None
       THEN held' = FALSE /\ fetch' = Asking
       ELSE UNCHANGED <<held, fetch>>
    /\ UNCHANGED <<store, view, page, seen, post, bounds, newsAt, offered, entered>>

\* A section that is swapped in takes the refresh of the one before it along.
Turn(v) ==
    /\ v # view /\ post.at = "no" /\ edits < MaxEdits /\ edits' = edits + 1
    /\ view' = v /\ page' = Draw(v, None) /\ touched' = None /\ fetch' = NoFetch
    /\ offered' = offered \cup Offers(page') /\ entered' = None
    /\ UNCHANGED <<store, seen, held, post, posts, newsAt>>

-----------------------------------------------------------------------------
(* The header's poll, and the refresh that it sets off.                    *)

\* The first poll is the baseline; one that differs from the last is news, and is held
\* while a form is being filled in.
Poll ==
    /\ seen # Rev /\ seen' = Rev
    /\ IF seen = None THEN UNCHANGED <<held, fetch, newsAt>>
       ELSE /\ newsAt' = writes
            /\ IF MidDecision THEN held' = TRUE /\ UNCHANGED fetch
                              ELSE held' = FALSE /\ fetch' = Asking
    /\ UNCHANGED <<store, view, page, touched, post, bounds, offered, entered>>

Refresh ==
    /\ fetch.at = "asked"
    /\ fetch' = [fetch EXCEPT !.at = "read", !.page = Draw(view, None)]
    /\ UNCHANGED <<store, view, page, touched, seen, held, post, bounds, newsAt, offered, entered>>

\* Whoever is in the middle of a form by now loses it, and the answer to a form that was
\* sent has no section to come back to.
RefreshArrives ==
    /\ fetch.at = "read"
    /\ page' = fetch.page /\ touched' = None
    /\ fetch' = IF fetch.again THEN [NoFetch EXCEPT !.at = "asked"] ELSE NoFetch
    /\ post' = IF post.at = "no" THEN NoPost ELSE [post EXCEPT !.gone = TRUE]
    /\ offered' = offered \cup Offers(page')
    /\ UNCHANGED <<store, view, seen, held, bounds, newsAt, entered>>

-----------------------------------------------------------------------------
(* A form is posted: checked whole, then decided one call at a time.       *)

IsBatch(form) == form.key = "repeat" \/ form.key \in Targets

\* A finding's own word wins over the form's.
Word(form, m) == IF form.own[m] # None THEN form.own[m] ELSE form.word

\* None of it is tried when a finding has no word.
PlanRefused(form) == form.ticked = {} \/ \E m \in form.ticked : Word(form, m) = None

\* Mutant: the form's name is stamped on each of its findings.
SaidOfForm(form, m, outcome) ==
    [outcome |-> outcome, n |-> writes + 2,
     word |-> IF outcome = "declined" THEN Word(form, m) ELSE None,
     made |-> IF IsBatch(form) THEN "batch" ELSE "single",
     batch |-> IF IsBatch(form) THEN form.key ELSE None]

\* What a call says of a finding; a word travels with a decline only.
Said(form, m, outcome) ==
    [outcome |-> outcome, n |-> writes + 2,
     word |-> IF outcome = "declined" THEN Word(form, m) ELSE None,
     made |-> IF IsBatch(form) THEN "batch" ELSE "single",
     batch |-> IF IsBatch(form) THEN form.group[m] ELSE None]

SameAs(d, said) == d # None /\ d.outcome = said.outcome /\ d.word = said.word

Post(form, outcome) ==
    /\ posts < MaxPosts /\ post.at = "no" /\ posts' = posts + 1
    /\ IF touched = None THEN form \in page.forms ELSE form = touched
    /\ IsBatch(form) => outcome = "declined"
    /\ outcome = "withdrawn" => form.revises # 0
    /\ post' = [at |-> IF IsBatch(form) /\ PlanRefused(form) THEN "refused" ELSE "calls",
                form |-> form, outcome |-> outcome, view |-> view, left |-> form.ticked,
                failed |-> {}, gone |-> FALSE, page |-> None]
    /\ entered' = None
    /\ UNCHANGED <<store, view, page, touched, seen, held, fetch, edits, newsAt, offered>>

\* The finding's Sink: a first answer, the same one again, or a revision of the answer on
\* file; anything else is refused, and does not stop the others.
Call(m) ==
    /\ post.at = "calls" /\ m \in post.left
    /\ LET said == Said(post.form, m, post.outcome)
           again == post.form.revises = 0 /\ SameAs(decision[m], said)
           first == decision[m] = None /\ post.form.revises = 0
           revised == decision[m] # None /\ decision[m].n = post.form.revises
       IN  /\ IF first \/ revised
              THEN /\ Write
                   /\ decision' = [decision EXCEPT ![m] =
                                      IF post.outcome = "withdrawn" THEN None ELSE said]
              ELSE UNCHANGED <<decision, writes>>
           /\ post' = [post EXCEPT !.left = @ \ {m},
                          !.failed = IF first \/ revised \/ again THEN @ ELSE @ \cup {m}]
    /\ UNCHANGED <<minted, verdict, judged, suggested, view, page, touched, seen, held, fetch,
                   bounds, newsAt, offered, entered>>

\* The section is drawn from the store, or, when nothing was decided, with what was sent.
Answer ==
    /\ \/ post.at = "refused"
       \/ post.at = "calls" /\ post.left = {}
    /\ LET refused == post.at = "refused" \/ (~IsBatch(post.form) /\ post.failed # {})
       IN  /\ post' = [post EXCEPT !.at = "back",
                          !.page = Draw(post.view, IF refused THEN post.form ELSE None)]
           /\ entered' = IF ~refused THEN None
                         ELSE [form |-> post.form, gone |-> FALSE, folded |-> FoldedAway(post.view),
                               listed |-> post.form.boxes \cap Boxed(post.view)]
    /\ UNCHANGED <<store, view, page, touched, seen, held, fetch, bounds, newsAt, offered>>

\* A refusal whose section was swapped out under it comes back to nothing.
Outlived == IF entered # None /\ post.gone THEN [entered EXCEPT !.gone = TRUE] ELSE entered

\* Mutant: the list that comes with the answer is taken for the newest.
AnswerArrivesFresh ==
    /\ post.at = "back" /\ post' = NoPost /\ held' = FALSE
    /\ IF post.gone THEN UNCHANGED <<page, touched, fetch, offered>>
       ELSE /\ page' = post.page /\ touched' = None /\ fetch' = NoFetch
            /\ offered' = offered \cup Offers(page')
    /\ entered' = Outlived
    /\ UNCHANGED <<store, view, seen, bounds, newsAt>>

AnswerArrives ==
    /\ post.at = "back" /\ post' = NoPost
    /\ IF post.gone THEN UNCHANGED <<page, touched, fetch, offered>>
       ELSE /\ page' = post.page /\ touched' = None /\ fetch' = NoFetch
            /\ offered' = offered \cup Offers(page')
    /\ entered' = Outlived
    /\ UNCHANGED <<store, view, seen, held, bounds, newsAt>>

Outcomes == {"declined", "published"}

Next ==
    \/ \E f \in Findings : Mint(f)
    \/ \E f \in Findings, word \in {"refuted", "upheld"} : Judge(f, word)
    \/ \E f \in Findings, outcome \in Outcomes, word \in Words \cup {None} :
         DecideElsewhere(f, outcome, word)
    \/ \E form \in page.forms \cup {touched} : form # None /\ Touch(form)
    \/ Leave
    \/ \E v \in Views : Turn(v)
    \/ Poll \/ Refresh \/ RefreshArrives
    \/ \E form \in page.forms \cup {touched}, outcome \in Outcomes \cup {"withdrawn"} :
         form # None /\ Post(form, outcome)
    \/ \E m \in Findings : Call(m)
    \/ Answer \/ AnswerArrives

Spec == Init /\ [][Next]_vars

-----------------------------------------------------------------------------
(* Properties.                                                             *)

FormType(form) ==
    /\ form.boxes \subseteq Findings /\ form.ticked \subseteq form.boxes
    /\ form.own \in [form.boxes -> Words \cup {None}] /\ form.word \in Words \cup {None}
    /\ form.revises \in 0..MaxWrites + 1

TypeOK ==
    /\ minted \subseteq Findings /\ judged \in 0..MaxWrites /\ writes \in 0..MaxWrites
    /\ verdict \in [Findings -> {None, "refuted", "upheld"}]
    /\ \A f \in Findings : decision[f] # None =>
         decision[f].outcome \in Outcomes /\ decision[f].word \in Words \cup {None}
    /\ view \in Views /\ held \in BOOLEAN /\ newsAt \in 0..writes
    /\ \A form \in page.forms : FormType(form)
    /\ page.version \in 0..writes
    /\ touched = None \/ FormType(touched)
    /\ fetch.at \in {"no", "asked", "read"}
    /\ post.at \in {"no", "refused", "calls", "back"}

\* batch.rs: every decline of a batch has a reason word, and the door stamps it with the
\* group that the page had drawn the finding in -- through the form, the fan-out and a
\* refusal's redraw, whatever was regrouped meanwhile.
StampsAreTrue ==
    \A f \in Findings : decision[f] # None /\ decision[f].made = "batch" =>
        /\ decision[f].outcome = "declined" /\ decision[f].word # None
        /\ <<f, decision[f].batch>> \in offered

\* Drawn as it was sent.
AsEntered(form, sent, m) ==
    /\ form.key = sent.key /\ m \in form.boxes /\ form.word = sent.word
    /\ m \in form.ticked <=> m \in sent.ticked
    /\ form.own[m] = sent.own[m]

\* batch.rs and queue.rs: "a refusal never loses what the person entered": until the person
\* turns the page or sends a form again, each box and word of a form that was refused stands
\* on the page as it was sent, whatever is written, polled or asked for meanwhile.  Three
\* things are lost all the same: a finding that the view no longer lists when the refusal is
\* drawn, a group that is left to another kind by then, and the whole form when a refresh
\* asked for before it was sent is swapped in while it is under way.
RefusalLosesNothing ==
    entered # None /\ post.at = "no" =>
        \/ entered.gone \/ entered.folded
        \/ \A m \in entered.listed : \E form \in page.forms : AsEntered(form, entered.form, m)

\* gonk.js: the list on the page is as new as the news last heard of, or its refresh is
\* under way, or it is held: until a form is left as it was drawn, or the next news.
NewsIsDue == page.version >= newsAt \/ held \/ fetch.at # "no"

\* queue.rs: the badge counts what the page lists and what it leaves out, so that no
\* finding that waits for an answer is left unsaid.
CountsAreThePages ==
    LET v == View("rows", FALSE, FALSE)
        counts == PendingCounts
    IN  /\ counts.serious = Cardinality(Listed(Pending, v))
        /\ counts.out = Cardinality(Asked(Pending, v)) - Cardinality(Listed(Pending, v))
        /\ counts.other = Cardinality(Pending \ Asked(Pending, v))

\* batch.rs: one proposal is shown once, under the kind that carries a word: of the kinds
\* that propose the same findings one is shown, never two with the same word, nor one
\* without a word beside one that has it, and no word is lost.
Unfolded == {p \in UNION {{i} \X Groups(Kinds[i]) : i \in DOMAIN Kinds} : ~Folded(p[1], p[2])}
Proposals == UNION {{i} \X {g \in Groups(Kinds[i]) : ByTargetOnly(g)} : i \in DOMAIN Kinds}
ShownOnce ==
    /\ \A p \in Proposals : \E q \in Unfolded :
         q[2].members = p[2].members /\ (p[2].word # None => q[2].word = p[2].word)
    /\ \A p, q \in Proposals \cap Unfolded :
         p # q /\ p[2].members = q[2].members => p[2].word # q[2].word /\ p[2].word # None

EveryFindingIsSaid == CountsAreThePages /\ ShownOnce

\* gonk.js: "it never yanks a row someone is deciding on": what a person has entered is
\* not drawn over by a refresh.
NeverYanked == [][RefreshArrives => ~MidDecision]_vars

=============================================================================
