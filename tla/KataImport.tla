----------------------------- MODULE KataImport -----------------------------
(***************************************************************************)
(* `kata import`: the issues of an export filed as items of a ledger, by   *)
(* several runs at once: src/src/kata.rs, with the append of roborev.rs.   *)
(*                                                                         *)
(* A run appends an issue under its key, reads the item that holds it, and *)
(* sends what that reading lacks, one request each; the links come last.   *)
(* A request is refused, or its reply is lost, at any step, and the run    *)
(* ends there. People work on the items meanwhile, and kata moves on.      *)
(***************************************************************************)
EXTENDS Naturals, FiniteSets, Sequences

CONSTANTS Exports,        \* what kata writes out, from the earliest on: [issues, links]
          Importers,
          MaxRuns,        \* bound: runs begun
          MaxActs         \* bound: what people do in the ledger

Issues == DOMAIN Exports[1].issues

\* Each export has every issue, in the order of their numbers.
ImportConstants ==
    /\ MaxRuns \in Nat /\ MaxActs \in Nat /\ Len(Exports) \in Nat \ {0}
    /\ DOMAIN Exports = 1..Len(Exports) /\ Issues \subseteq Nat /\ IsFiniteSet(Issues)
    /\ \A e \in DOMAIN Exports :
         /\ DOMAIN Exports[e].issues = Issues
         /\ \A i \in Issues : /\ Exports[e].issues[i].closed \in BOOLEAN
                             /\ Exports[e].issues[i].deleted \in BOOLEAN
                             /\ IsFiniteSet(Exports[e].issues[i].comments)
         /\ IsFiniteSet(Exports[e].links) /\ Exports[e].links \subseteq Issues \X Issues

VARIABLES
    kata,       \* how far kata has come
    items,      \* per issue: the item its key names
    run,        \* per importer
    begun, acts,
    settled,    \* history: the exports a run finished, and no person acted since it began
    promise     \* history: what a dry run said, and nothing was written since it began

vars == <<kata, items, run, begun, acts, settled, promise>>

Unfiled == [is |-> "none", state |-> "filed", claim |-> "nobody", comments |-> {},
            marked |-> FALSE, deferred |-> FALSE, links |-> {}]
Filed == [Unfiled EXCEPT !.is = "open"]
WouldFile == Unfiled
Nothing == [filed |-> 0, already |-> 0, comments |-> 0, closed |-> 0, links |-> 0]
NoRun == [at |-> "over", export |-> 1, dry |-> FALSE, left |-> {}, here |-> <<>>, plan |-> <<>>,
          tally |-> Nothing, calm |-> FALSE, alone |-> FALSE, again |-> FALSE, said |-> Nothing]
NoPromise == [export |-> 0, tally |-> Nothing]

Init ==
    /\ kata = 1 /\ items = [i \in Issues |-> Unfiled] /\ run = [w \in Importers |-> NoRun]
    /\ begun = 0 /\ acts = 0 /\ settled = {} /\ promise = NoPromise

-----------------------------------------------------------------------------
(* What a run sends, given an issue and its item as it was read.           *)

When(condition, write) == IF condition THEN <<write>> ELSE <<>>

\* restore_work: an owner is a claim when it is the importer's own to make, else a marker and
\* a deferral; a state is moved to from `filed` only.
Restores(i, issue, item) ==
    LET open == ~issue.closed /\ item.is = "open"
        other == open /\ issue.owner = "other"
    IN  When(open /\ issue.owner = "mine" /\ item.claim = "nobody", [do |-> "claim", of |-> i])
        \o When(other /\ ~item.marked, [do |-> "mark", of |-> i])
        \o When(other /\ ~item.deferred, [do |-> "defer", of |-> i])
        \o When(issue.state # "filed" /\ item.is = "open" /\ item.state = "filed",
                [do |-> "state", of |-> i, to |-> issue.state])

\* A set of writes, in an order that nothing depends on.
InSomeOrder(S) ==
    CHOOSE q \in [1..Cardinality(S) -> S] : \A m, n \in DOMAIN q : q[m] = q[n] => m = n

Comments(i, issue, item) ==
    InSomeOrder({[do |-> "comment", of |-> i, to |-> c] : c \in issue.comments \ item.comments})

Closes(i, issue, item) == When(issue.closed /\ item.is = "open", [do |-> "close", of |-> i])

Plan(i, issue, item) == Restores(i, issue, item) \o Comments(i, issue, item) \o Closes(i, issue, item)

\* The second pass, over the items as the first pass read them; it has an item for an issue
\* that was imported, and no other.
Links(export, here) ==
    InSomeOrder({[do |-> "link", of |-> l[1], to |-> l[2]] :
                 l \in {k \in export.links : /\ k[1] \in DOMAIN here /\ k[2] \in DOMAIN here
                                             /\ k[2] \notin here[k[1]].links}})

Count(plan, do) == Cardinality({n \in DOMAIN plan : plan[n].do = do})
Add(tally, plan) == [tally EXCEPT !.comments = @ + Count(plan, "comment"),
                                  !.closed = @ + Count(plan, "close"),
                                  !.links = @ + Count(plan, "link")]

-----------------------------------------------------------------------------
(* The ledger. Every write names the item by its key.                      *)

\* A tombstone takes no write, a claim does not take another's, a state moves from `filed`.
Accepts(item, write) ==
    /\ item.is # "deleted"
    /\ write.do = "claim" => item.claim \in {"nobody", "mine"}
    /\ write.do = "state" => item.state = "filed"

Written(item, write) ==
    CASE write.do = "claim" -> [item EXCEPT !.claim = "mine"]
      [] write.do = "mark" -> [item EXCEPT !.marked = TRUE]
      [] write.do = "defer" -> [item EXCEPT !.deferred = TRUE]
      [] write.do = "state" -> [item EXCEPT !.state = write.to]
      [] write.do = "comment" -> [item EXCEPT !.comments = @ \cup {write.to}]
      [] write.do = "close" -> [item EXCEPT !.is = "closed"]
      [] write.do = "link" -> [item EXCEPT !.links = @ \cup {write.to}]

\* Mutant: the key is not asked.
AppendedAgain(item) == Filed

\* The key is checked and the item filed in one store update.
Appended(item) == IF item.is = "none" THEN Filed ELSE item

\* A write by w: what the others do is not alone any more, and a dry run's word is spent.
Store(i, item) ==
    /\ items' = [items EXCEPT ![i] = item]
    /\ promise' = IF item = items[i] THEN promise ELSE NoPromise

OthersOf(w, i, item) ==
    [v \in Importers |-> IF v = w \/ item = items[i] THEN run[v] ELSE [run[v] EXCEPT !.alone = FALSE]]

-----------------------------------------------------------------------------
Issue(w) == CHOOSE i \in run[w].left : \A j \in run[w].left : i <= j
Of(w) == Exports[run[w].export]

\* Begun with the export as kata writes it now; deleted issues are not imported.
Start(w, dry) ==
    /\ run[w].at = "over" /\ begun < MaxRuns /\ begun' = begun + 1
    /\ run' = [run EXCEPT ![w] =
         [at |-> "issue", export |-> kata, dry |-> dry,
          left |-> {i \in Issues : ~Exports[kata].issues[i].deleted}, here |-> <<>>, plan |-> <<>>,
          tally |-> Nothing, calm |-> TRUE, alone |-> TRUE, again |-> kata \in settled,
          said |-> IF ~dry /\ promise.export = kata THEN promise.tally ELSE Nothing]]
    /\ UNCHANGED <<kata, items, acts, settled, promise>>

Stopped(r) == [NoRun EXCEPT !.export = r.export]

\* `append key=`: `existing` when the key is taken, by a tombstone too.
FileKeyed(w) ==
    LET r == run[w] i == Issue(w) is == items[i].is
        item == Appended(items[i])
    IN  /\ r.at = "issue" /\ r.left # {} /\ ~r.dry
        /\ Store(i, item)
        /\ run' = [OthersOf(w, i, item) EXCEPT ![w] =
             CASE is = "none" -> [r EXCEPT !.at = "read", !.tally.filed = @ + 1]
               [] is = "deleted" -> [r EXCEPT !.left = @ \ {i}]
               [] OTHER -> [r EXCEPT !.at = "read", !.tally.already = @ + 1]]
        /\ UNCHANGED <<kata, begun, acts, settled>>

Learned(here, i, item) == [j \in DOMAIN here \cup {i} |-> IF j = i THEN item ELSE here[j]]

\* An issue with nothing left to send is done.
Done(r, i) == IF r.plan = <<>> THEN [r EXCEPT !.at = "issue", !.left = @ \ {i}] ELSE r

Read(w) ==
    LET r == run[w] i == Issue(w)
    IN  /\ r.at = "read"
        /\ run' = [run EXCEPT ![w] =
             IF items[i].is = "deleted" THEN Stopped(r)
             ELSE Done([r EXCEPT !.at = "writes", !.here = Learned(@, i, items[i]),
                                 !.plan = Plan(i, Of(w).issues[i], items[i])], i)]
        /\ UNCHANGED <<kata, items, begun, acts, settled, promise>>

\* A dry run reads, and counts what it would send; a tombstone is not found.
Look(w) ==
    LET r == run[w] i == Issue(w)
        there == items[i].is \in {"open", "closed"}
        item == IF there THEN items[i] ELSE WouldFile
        plan == Plan(i, Of(w).issues[i], IF there THEN item ELSE Filed)
        tally == IF there THEN [r.tally EXCEPT !.already = @ + 1]
                          ELSE [r.tally EXCEPT !.filed = @ + 1]
    IN  /\ r.at = "issue" /\ r.left # {} /\ r.dry
        /\ run' = [run EXCEPT ![w] =
             [r EXCEPT !.left = @ \ {i}, !.here = Learned(@, i, item), !.tally = Add(tally, plan)]]
        /\ UNCHANGED <<kata, items, begun, acts, settled, promise>>

\* The next write. A comment whose key is taken is not counted; a refusal ends the run
\* (Stop), but for a state's.
Write(w) ==
    LET r == run[w] write == Head(r.plan) i == write.of
        item == Written(items[i], write)
        there == write.do = "comment" /\ item = items[i]
        sent == [r EXCEPT !.plan = Tail(@), !.tally = IF there THEN @ ELSE Add(@, <<write>>)]
    IN  /\ r.at \in {"writes", "links"} /\ r.plan # <<>>
        /\ IF Accepts(items[i], write)
           THEN /\ Store(i, item)
                /\ run' = [OthersOf(w, i, item) EXCEPT ![w] =
                             IF r.at = "writes" THEN Done(sent, i) ELSE sent]
           ELSE /\ write.do = "state"
                /\ run' = [run EXCEPT ![w].at = "refused"] /\ UNCHANGED <<items, promise>>
        /\ UNCHANGED <<kata, begun, acts, settled>>

\* A state that was refused: another may have moved it there, and the item is read again.
Reread(w) ==
    LET r == run[w] write == Head(r.plan) i == write.of
    IN  /\ r.at = "refused"
        /\ run' = [run EXCEPT ![w] =
             IF items[i].is # "deleted" /\ items[i].state = write.to
             THEN Done([r EXCEPT !.at = "writes", !.plan = Tail(@)], i)
             ELSE Stopped(r)]
        /\ UNCHANGED <<kata, items, begun, acts, settled, promise>>

\* A refusal, an unreachable door, a kill; after a write, a reply that is lost.
Stop(w) ==
    /\ run[w].at # "over" /\ run' = [run EXCEPT ![w] = Stopped(run[w])]
    /\ UNCHANGED <<kata, items, begun, acts, settled, promise>>

SecondPass(w) ==
    LET r == run[w] links == Links(Of(w), r.here)
    IN  /\ r.at = "issue" /\ r.left = {}
        /\ run' = [run EXCEPT ![w].at = "links", ![w].plan = IF r.dry THEN <<>> ELSE links,
                              ![w].tally = IF r.dry THEN Add(@, links) ELSE @]
        /\ UNCHANGED <<kata, items, begun, acts, settled, promise>>

\* The tally is answered.
Finished(w) == run[w].at = "links" /\ run[w].plan = <<>>

Finish(w) ==
    LET r == run[w]
    IN  /\ Finished(w) /\ run' = [run EXCEPT ![w] = Stopped(r)]
        /\ settled' = IF r.calm /\ ~r.dry THEN settled \cup {r.export} ELSE settled
        /\ promise' = IF r.dry /\ r.alone /\ r.calm
                         /\ \A i \in Issues : items[i].is = "deleted" => Of(w).issues[i].deleted
                      THEN [export |-> r.export, tally |-> r.tally] ELSE promise
        /\ UNCHANGED <<kata, items, begun, acts>>

-----------------------------------------------------------------------------
(* Around the runs.                                                        *)

KataMovesOn ==
    /\ kata < Len(Exports) /\ kata' = kata + 1
    /\ UNCHANGED <<items, run, begun, acts, settled, promise>>

\* A person works on an item, or deletes it.
PersonActs(i, item) ==
    /\ acts < MaxActs /\ acts' = acts + 1 /\ items[i].is \in {"open", "closed"} /\ item # items[i]
    /\ items' = [items EXCEPT ![i] = item]
    /\ run' = [w \in Importers |-> [run[w] EXCEPT !.calm = FALSE, !.alone = FALSE]]
    /\ settled' = {} /\ promise' = NoPromise
    /\ UNCHANGED <<kata, begun>>

Acts(item) ==
    {[item EXCEPT !.claim = "someone"], [item EXCEPT !.claim = "nobody"],
     [item EXCEPT !.state = "advanced"], [item EXCEPT !.deferred = FALSE],
     [item EXCEPT !.is = "closed"], [item EXCEPT !.is = "open"],
     [item EXCEPT !.is = "deleted"]}

Next ==
    \/ \E w \in Importers : \/ FileKeyed(w) \/ Read(w) \/ Look(w) \/ Write(w) \/ Reread(w)
                            \/ Stop(w) \/ SecondPass(w) \/ Finish(w)
                            \/ \E dry \in BOOLEAN : Start(w, dry)
    \/ KataMovesOn
    \/ \E i \in Issues : \E item \in Acts(items[i]) : PersonActs(i, item)

Spec == Init /\ [][Next]_vars

-----------------------------------------------------------------------------
TypeOK ==
    /\ kata \in DOMAIN Exports /\ begun \in 0..MaxRuns /\ acts \in 0..MaxActs
    /\ settled \subseteq DOMAIN Exports /\ promise.export \in {0} \cup DOMAIN Exports
    /\ \A i \in Issues : items[i].is \in {"none", "open", "closed", "deleted"}
                         /\ items[i].claim \in {"nobody", "mine", "someone"}
                         /\ (items[i].is = "none" => items[i] = Unfiled)
    /\ \A w \in Importers : run[w].at \in {"over", "issue", "read", "writes", "refused", "links"}
                            /\ (run[w].dry => run[w].plan = <<>>)

\* "Never overwrite another holder or a state that has advanced locally", and "a deletion is a
\* decision an import does not undo": whatever a run read before, and however often it is
\* started again, what it sends takes nothing from an item.
PeoplesWorkStands ==
    [][acts' = acts => \A i \in Issues :
         /\ items[i].is = "deleted" => items'[i] = items[i]
         /\ items[i].is = "closed" => items'[i].is = "closed"
         /\ items[i].claim # "nobody" => items'[i].claim = items[i].claim
         /\ items[i].state # "filed" => items'[i].state = items[i].state
         /\ items[i].comments \subseteq items'[i].comments /\ items[i].links \subseteq items'[i].links
      ]_<<items, acts>>

\* "Running it again carries on from there": a run that finishes leaves nothing of its export
\* out, whatever earlier runs left half done and whichever run beside it does the same,
\* unless a person acted meanwhile.
Imported(export, i) ==
    LET issue == export.issues[i] item == items[i]
    IN  \/ issue.deleted \/ item.is = "deleted"
        \/ /\ item.is # "none" /\ issue.comments \subseteq item.comments
           /\ issue.closed => item.is = "closed"
           /\ item.is = "open" /\ issue.owner = "mine" => item.claim # "nobody"
           /\ item.is = "open" /\ issue.owner = "other" => item.marked /\ item.deferred
           /\ item.is = "open" /\ issue.state # "filed" => item.state # "filed"
           /\ \A l \in export.links :
                l[1] = i /\ ~export.issues[l[2]].deleted /\ items[l[2]].is # "deleted" =>
                    l[2] \in item.links

FinishedIsImported ==
    \A w \in Importers : Finished(w) /\ run[w].calm /\ ~run[w].dry =>
        \A i \in Issues : Imported(Of(w), i)

\* "The same export imported twice changes nothing."
AgainIsNothing ==
    \A w \in Importers :
        /\ run[w].again /\ run[w].calm
        /\ run[w].dry => \A i \in Issues : items[i].is # "deleted"
        => run[w].plan = <<>> /\ run[w].tally = [Nothing EXCEPT !.already = run[w].tally.already]

\* "The tally is what a real run would do now", but for an item that was deleted.
DryRunIsTrue ==
    \A w \in Importers : Finished(w) /\ run[w].alone /\ run[w].said # Nothing =>
        run[w].tally = run[w].said

=============================================================================
