# A formal model of ikigai-gonk

ikigai-gonk is a work-ledger server: one kernel of addressable resources over one RDF dataset,
reached through HTTP, QUIC and a Unix socket. This directory holds TLA+ modules for the parts
of it whose correctness is a matter of ordering, concurrency, crashes and time, the TLC
configurations that check them on small instances, and TLAPS proofs of what holds for every
instance. `PROJECT.json` maps each definition to the lines it models, lists the hazards, and
for each property names a plausible bug of the code ("Mutant" in the comments of the modules)
that makes it fail.

Run `tlc -config X.cfg M` for a configuration of section 3 and `tlapm M.tla` for a module of
section 4.

## 1. Inventory

Paths are under `src/src/`. "Hard" is what a unit test hardly reaches.

| component | state | operations and interactions | hard | what makes it correct |
|---|---|---|---|---|
| **Review queue** `trigger.rs` | inbox/outbox/error/.processing directories, the handler file, one `Record` of counters in memory | hooks drop tuples (other processes); the armed reactor claims, passes, settles; a person pipes one tuple; the page's button reviews directly | drops during a review, stops mid-pass, hand-run passes beside the reactor, counters read without asking the reactor | one pass at a time; every pass and review counted once; the newest drop never forgotten; the depth truthful; waiting is claimed |
| **Judge backfill** `backfill.rs` | a run record and a stop flag, each under its own lock; browse's verdict archive | start, stop, one walking thread; reads the queue's activity and inbox before each finding | start and stop from several threads; two looks that are not one; a restart | one walk; a truthful record; a review is delayed by one call at most; the walk ends |
| **Passkey ceremonies** `identity.rs`, `quic.rs` | sealed challenges, `answered`, `clients.json`, `grants.json`, `invites.json` and their lock files | challenge, register, sign in; the command line invites and revokes in other processes | the lock is dropped and taken again around verification; challenges expire in flight | single use; an invite enrols one passkey; a revoke stands |
| **Passkey sessions** `identity.rs` | the session table, `sessions.json`, the place read in `passkeys.log` | identity, sign-out, sign-in, start; other processes append to the log | the mutex is dropped while files are read; saves fail; restarts restore | nothing ended comes back; the log is heard; the bound holds; idle never grows |
| **Authority file cache** `file_cache.rs` | one parse per file, kept by its version, behind a lock | every request opens, stamps, compares, and parses when it must | writers in place, in parts or by rename, on file systems of coarse and fine stamps | no answer older than the question, none torn, none of another version |
| **Task layers** `mirror.rs`, `taker.rs`, `layer.rs`, `egress.rs` | `about` edges on items, tuples and receipts in a peer's layer | record an offer, drop, withdraw; take, file, hand back | crash between record and drop; a take racing a withdrawal; a reply lost | one offer one filing; a take is never reversed; returns are bounded |
| **Watch and cached reads** `watch.rs`, `browse.rs`, `queue.rs` | the watched roots, an epoch per root, cached answers, the rows kept for a root | a change cuts the thread and moves the epoch; a read is cached only under a watch | a change, or a re-arrangement of the roots, between the read and the fill; a watcher that loses an event | no stale answer outlives its cut, and one whose change the watcher lost not the next; unwatched is uncached |
| **Live roots** `roots.rs`, `checkout.rs` | mounted names, `config.toml` and its lock | add, remove, reload, watch of the file | two writers; an edit while the watch drains | the configuration and the mounts agree in the end |
| **Layers page** `layers_view.rs` | a copy of followed layers, cursors of the viewer, a follower thread | discover, read, long poll; posts; pages that open, ask and mark | tabs, lost answers, a host restored to a shorter log, a door that is down | a page misses nothing; unseen is unread; pages catch up |
| **Backup** `backup.rs` | the rotation directory and its lock, a restore's staging directory | archive, sidecar, prune, the timer; restore | a crash between any two files; two backups at once; a directory filled meanwhile | a sidecar vouches for its own archive; the last backup survives; a restore is whole or nothing |
| **Queue page decisions** `queue.rs`, `batch.rs`, `walk.rs`, `verdict.rs`, `web/gonk.js` | browse's decisions, what a person entered, the header's poll | group, tick, post, fan out, refuse and draw back; poll and refresh | the store moves under a form; news while somebody decides | declines are stamped with what was seen; refusals keep what was entered; news is never forgotten |
| **Mounted peer** `mount.rs` | connection, failures, hold | call, drop the connection, redial after a hold | a lost reply beside another call | only a dial that fails starts the hold |
| **Onboarding** `onboard.rs`, `quic.rs`, `participants.rs`, `holders.rs` | signed entitlements in a layer, the enrolment, invites, the bundle on disk | mint, approve, revoke, fold, apply, serve | replays; applies that overtake one another; stops between two writes | one entitlement stands for a certificate; an apply brings what stands; an invite is spent by what was said |
| **Importers** `kata.rs`, `keys.rs`, `roborev.rs`, `findings.rs` | items with keys | import an export, key older items, file with a key | a retry after half an import; people and bridges between the reads and the writes | nothing filed twice, nothing a person did undone; a key names one subject |
| **Named views** `views.rs`, `views_page.rs` | declared names in a file | declare, remove, answer | – | – |
| **Doors** `doors.rs`, `admit.rs`, `grants.rs` | connection permits, authority files | admit, refuse, clamp a capability | bounds at their limit | bounds hold |
| **Query budget, scripts** `budget.rs`, `script.rs`, `rules.rs`, `sparql.rs`, `nl.rs` | spent time per window | charge, refuse, refill | concurrent charges | the budget is never overspent by more than what is running |
| **Rendering** `web.rs`, `render.rs`, `k.rs`, `dashboard.rs`, … | none of their own | format resources | – | – |
| **Process** `main.rs`, `config.rs`, `lib.rs`, `stack.rs`, `bridge.rs` | flags | wiring at the start | – | – |

The ledger, the store, `ikigai-intray` (the reactor), `ikigai-browse` (findings, verdicts), the
kernel's cuts and htmx are dependencies outside the repository; they appear only as this code
uses them.

## 2. Modules

| module | models |
|---|---|
| `ReviewQueue` | `trigger.rs`: stages, reactor, pass slot, hand-run reviews, start and stop |
| `ReviewDepth` | `trigger.rs`: the depth, which lists the stages and then reads the activity, over `ReviewQueue` |
| `Backfill` | `backfill.rs`: start, stop, walk, the judge |
| `ReviewAndBackfill` | instances of the two in one process, and the refinement of the second |
| `PasskeyCeremony` | `identity.rs`: challenges, invites, registration, sign-in up to the counter, revoke |
| `PasskeySessions` | `identity.rs`: sessions from the sign-in's decision on, file, log, restart |
| `WorkPlace` | what a task layer promises: an item's work is in one place (abstract) |
| `TaskMirror` | `mirror.rs`: the offer role's pass; refines `WorkPlace` |
| `TaskTake` | `taker.rs`: the take command and the pass of reports |
| `CachedReads` | `watch.rs`, `browse.rs`, `roots.rs`: cached reads, cuts, epochs, re-arrangement |
| `FindingsMemo` | `queue.rs`, `watch.rs`, `browse.rs`: the rows kept for a root, and the writes |
| `FileCache` | `file_cache.rs` |
| `MountedPeer` | `mount.rs`: one shared connection, dial, hold, deadlines |
| `BackupRotation` | `backup.rs`: backups, prune, the timer, restarts |
| `RestoreInto` | `backup.rs`: restores of stores (by rename) and scripts (in place) |
| `RootsFile` | `checkout.rs`, `roots.rs`: every writer of `config.toml`, its lock and its watch |
| `Entitlements` | `onboard.rs`, `quic.rs`: invites, entries, the fold, the applies, the certificate served |
| `KataImport` | `kata.rs`: an import run, dry or not, beside people and other runs |
| `BackfillKeys` | `keys.rs`, `roborev.rs`, `findings.rs`: the command beside bridges that file |
| `QueuePage` | `queue.rs`, `batch.rs`, `walk.rs`, `verdict.rs`, `gonk.js`: the page and one person |
| `LayersView` | `layers_view.rs`: the follower, posts, cursors and pages |
| `MCBackfill`, `MCTaskMirror`, `MCTaskTake`, `MCQueuePage`, `MCLayersView` | the constants TLC uses for the module named |
| `MCReviewQueue` | an instance of `ReviewDepth` (and with it `ReviewQueue`) with names of its own, so that it can stand beside the backfill |
| `MCReviewAndBackfill`, `MCPasskeys`, `MCReads`, `MCDisk`, `MCLayers` | several parts side by side in one run (below) |
| `…Proofs` | the theorems, section 4; `DiskProofs` extends `FilesProofs` |

**Side by side.** The last five composites put parts that share no state in one specification.
A variable `part` says which of them moves in a behaviour, and the others stay as they began.
This is not a product: its states are the sum of those of the parts, and nothing is claimed
of the parts together. What two components do have in common (the review queue and the
backfill) is composed in `ReviewAndBackfill`, where both move.

**Reading a module.** One action is one handler, or the piece of it between two locks, awaits
or files. `at` (or a field of that name) is the program counter of a request, a pass or a
command; variables under "history" are read by properties and by nothing else. Bounds are
constants called `Max…`, and appear only in guards.

### ReviewQueue, ReviewDepth, Backfill, ReviewAndBackfill

A tuple's name is the hash of its bytes and its bytes name a repository and a path only, so a
stage directory is a set of files. `tree` is the content the review will read; the history
variables `dropped` and `reviewed` hold its version at the last drop and at the best review.
`at` is a program counter for each of the two actors that can be inside a pass: the reactor and
a person at `DRAIN_ONE`. `holding` is a claimed tuple before `Activity::begin`, `begun` holds
the slot, `reviewing` is inside the review call, `ended` has released the slot and has the
tuple still to settle. `Begin`/`Refuse` are the two answers of `begin`, `Malformed` every early
return of the pass. The guards `Pass` and `Reviewing` settle on every way out, so the counting
is part of each action. `Start` is `arm` with its recovery, which may fail for any of the
tuples; `Stop` is a stop or a crash, at any point; `WatcherDies` the watcher thread's end.

`ReviewDepth` adds the depth resource: `List` counts what is claimed, and the answer is what
`Lost` makes of that count and of the slot as it is when the snapshot is taken, any number of
steps later. `LostIsTrue` is read off every state with a look open, as if the snapshot were taken
there. One listing is one step, and a listing with no claimed tuple, which is answered "none
lost" whatever follows, opens no look.

In `Backfill` one caller may be inside `start` or `stop`, between its two lock acquisitions,
while another does the same and a walk runs. The environment may change `passRunning` and
`queueWaits` at will; the listing may be any set of findings, since they are minted and decided
meanwhile; `OthersJudge` is every other caller of the judge. `ReviewAndBackfill` computes those
two from the queue's state, as `review_first` does, and `ImplementsBackfill` says that every
step of the queue is then a step, or a stutter, of the environment `Backfill` was checked with.

### PasskeyCeremony, PasskeySessions

A challenge is sealed, so it is not state until it is answered: `minted` remembers what the
sealed bytes carry, `boot` is the key of this start. A request's steps are the pieces between
its locks: register = check / redeem under the clients lock / enrol under it; sign in = check /
verify against the entry read / answer / decide again under the lock and write the counter. A
request takes the clock once. `PasskeySessions` continues where the sign-in stops: `Look`,
`ReadClients`, `ReadGrants`, `Commit` are the pieces of a request that takes the mutex twice;
`Save` is the one way the file is written and may fail, then `dirty` stays set and the table
stands; `ended` is the history of what ended since the start, `written` of what ended before a save
that was written. A trouble there is a start, an edit of the authority files or a save that fails.

### TaskMirror, WorkPlace, TaskTake

A pass of the mirror reads pending tuples, receipts, recorded offers and items one after the
other and then acts on each item of what it read, in the order of the code (`ActOn`): reports
taken and applied, a second listing, withdrawals, claims, a new offer, its record before its
drop, orphans. Every call may fail before or after its effect and the pass may end anywhere;
each costs a trouble. Offers are numbered in the order their names are minted. `TaskTake` has a
call of the take command per caller and the pass that sends what every filed item is owed; the
layer grants a tuple to a server and not to a caller, so two callers are one taker.

### CachedReads, FindingsMemo, FileCache, MountedPeer

`CachedReads` keeps watches as generations: each is started for an edit of the configuration,
has its own queue of events, and applies them in order. A reload swaps the family, cuts the
roots and retires the older watches in separate steps, with readers between any two. Of a change
each watch gets the event with its path or, where the watcher fails or its queue overflows, an
error: `apply` takes it and cuts nothing, and the histories `missed` and `missedRows` say whose
thread, or epoch, has not moved since. Of the
kernel it takes what `src/docs/design/push-at-the-door.md` says of cuts and of entries computed
while one of their threads is cut. `FindingsMemo` separates a write from the touch of the
epochs after it, and a read from the stamp before it. `FileCache` has two-part texts, so that a
torn read can be told. In `MountedPeer` time is ticks, and the lock is held across a dial only.

### BackupRotation, RestoreInto, RootsFile

The disk is what is there under each stamp, and every rename is one step; a process may stop
between any two. A prune removes three files of an archive one after the other; each removal may
fail, which the code ignores, and the history `stuck` says of which stamps; `cut` has the stamps
where a second backup of the same second stopped between its archive and its sidecar. `RootsFile`
separates the lock, the read of the text, the decision on that text
and the rename; a hand that edits the file takes no lock. The watch settles and drains, and an
edit may fall into the drain.

### Entitlements

The layer is a sequence of entries: of a certificate's print, an invite, what it gives, and the
entry it supersedes. `CurrentAfter(log)` is `fold`: which entry stands for each print after every
prefix of a log. An actor (the door's approvals, the timer) goes mint / fold / say / mark used /
forget the code, or apply: fold, and for each print trust the bundle, read the certificate, add,
replace, enrol, unenrol, unbundle, report. Applies of two actors interleave; `disturbed` is the
history of those that an entry or another apply overtook. `Restart` is `open_door`: with a
default bind, a named one or none, it trusts every bundle on disk, has no door when nobody is
enrolled, or is refused (then there is no step: nothing runs until a start that is not). The
history `shutOut` has the certificates whose bundle the last start found and, without a door, did
not trust.

### KataImport, BackfillKeys, QueuePage, LayersView

An importer plans each issue from what it read of the item and writes one request after the
other; a run may be cut after any of them and started again. The key backfill reads the items,
then the keys, plans, and writes conditional updates. `QueuePage` draws a view as a set of forms
(`Draw`), lets the person change one of them within what a browser allows (`Changed`), posts it,
and fans it out finding by finding (`Call`) with others writing between the calls; the poll, the
refresh it asks for and their answers are separate steps. The history `entered` keeps the form
that was refused last with what the view listed of it then, until the person turns the page or
sends a form, and `RefusalLosesNothing` compares the page with it. `LayersView` has who holds the read of
the door into the copy (`sync`), the follower's loop, posts, and per tab a page, a question and
an answer that may be lost.

## 3. What the runs check

Properties that are expected to hold (all finish with no error):

| run, module | properties | instance |
|---|---|---|
| `ReviewQueue`, `MCReviewQueue` | `QueueTypeOK`, `OnePassAtATime`, `EveryPassIsCounted`, `ReviewsAreCounted`, `NewestDropIsReviewed`, `LostIsTrue`, `WaitingIsClaimed` | two files, two versions of each, two drops, two starts, one review by hand |
| `ReviewAndBackfill`, `MCReviewAndBackfill` | `TypeOK`, `OneWalk`, `TallyAddsUp`, `WalkEnds`; beside the queue `ImplementsBackfill` (with `AtMostOneDelay`) | alone: two callers, two findings, two runs; beside: one file, caller and finding, two runs, every other bound one |
| `Passkeys`, `MCPasskeys` | `PartsTypeOK`, `CeremoniesAreFinal`, `EndedStaysEnded`, `CleanFileIsTheTable` | one passkey; ceremonies: two challenges, invites, requests and starts, one revoke, three clock values; a crowd: two sessions, room for one, two requests; restarts: two sessions, one request, three troubles |
| `Layers`, `MCLayers` | `PartsTypeOK`, `ReturnsStayBounded`, `ImplementsWorkPlace`, `AllCatchUp`, `PagesMissNothing` | mirror: one item, two offers, two reports, two acts of its dispatcher, one trouble, the budgets scaled from three to one; pages: a followed channel in two tabs, an unfed channel and a tuplespace in one, two positions, one trouble |
| `TaskTake`, `MCTaskTake` | `TypeOK`, `FiledOnce`, `ReportsAreOwed`, `EveryTakeIsServed` | one offer, two callers, two days, two edits, one trouble; deadlock is checked |
| `Reads`, `MCReads` | `PartsTypeOK`, `StaleIsDue`, `AnswersAreCurrent`, `NothingGoesBack`, `HoldsAreOfDials` | cached reads: one root, two directories, two changes, one edit; rows: two requests, one writer, two roots, two grants; files: two requests, two inodes, two rewrites; mount: two callers, holds up to the cap |
| `Disk`, `MCDisk` | `PartsTypeOK`, `RootsStand`, `EnrolmentIsTheLayers`, `BackupsStand`, `FiledOnce` | backups: two and the timer, two starts; restores: two stores and scripts; roots: two writers, two names, one edit by hand; nodes: two certificates, one name, one invite, two entries, one restart; import: two issues, two exports, two importers of two runs, one act of a person; keys: the command twice, one bridge, three older items |
| `QueuePage`, `MCQueuePage` | `TypeOK`, `StampsAreTrue`, `NewsIsDue`, `EveryFindingIsSaid`, `RefusalLosesNothing` | two findings (the second a twin of the first, a comment, and serious), four views, three proposals of a word, two writes, one edit, two posts |

Why these bounds are enough: each hazard is a race of two actors over one thing, so two of each
racer and one of the thing they race for are needed, and one trouble between any two steps. A
second drop is what can be forgotten during a review, a second start is what recovers, the
third clock value is the one after an expiry, a second entry of a layer is the revocation, the
replay or the other certificate's answer to the same invite. Where a longer run could matter (the
replay of a revocation needs three entries, a change of name two invites) the proofs of section 4
cover it: they hold for all constants, and all of the safety properties above are proved.

Properties a sentence of the code promises and its steps break; TLC shows the run of steps:

| run | property | the sentence, and what happens |
|---|---|---|
| `BackfillStop` | `StopIsHeard` | "Ask a live run to stop after the call in flight": `start` clears the flag after it released the record's lock, and erases a stop that came in between |
| `TaskMirrorTorn` | `OnlyGoneIsOrphaned` | "A torn listing now ends, marked partial (so no item is withdrawn as gone on its evidence)": the second listing of a pass drops what it says of its completeness, and offers are withdrawn on the first one's |
| `QueueYank` | `NeverYanked` | "IT NEVER YANKS A ROW SOMEONE IS DECIDING ON": whether somebody decides is asked when the refresh is sent for, and not when its answer is swapped in |
| `LayersRestored` | `FollowsAgain` | "A cursor past a layer's end: the host was restored or replaced. Read every layer again from its feed": `catch_up` keeps the larger of the old and the new position, so the next poll is refused again, without end |

**More disagreements**, met while modelling or proving and not given a run each. Where a module
still states one as a definition, its name is given.

- A sign-in decided before a revoke's line is read may open a session after it; enrolling the
  passkey again makes that session good ("A fresh sign-in is the only way to a new session").
- A sign-out (or another ending) whose save fails is answered all the same; when no later save
  is written before the process stops, the restart reads the session back ("so nothing ended comes
  back after a restart"). `EndedStaysEnded` therefore speaks of the table while the process runs,
  and of a restart only once a save after the ending was written.
- Two sign-ins of one passkey may write their counters in the other order ("The highest
  signature counter seen").
- A challenge that expires while two ceremonies carry it may be answered by both: the first
  answer is forgotten at the expiry by another request's clock.
- When the backfill's thread cannot be spawned, its record stays live and every later start is
  answered with a run nobody walks.
- The depth lists the stage directories before it reads the activity. A tuple claimed, or settled,
  between the two is counted with the wrong state of the slot: a lost tuple can read as none, or
  a tuple in good hands as lost, in a poll that lands in neither of the two edges `Status::lost`
  names. `LostIsTrue` has it as a third, and says that the count is one off at most.
- The recovery at a start requeues what a stop left claimed, and the catch-up claims it ("no
  catch-up retries it"). `begin`'s refusal blames the reactor's thread although a pass run by
  hand is what refuses the reactor's own. The depth's STUCK sentence is also said between two
  passes of a live watcher.
- A connection that is replaced while a call over the old one is in flight may be dropped by
  that call's failure. What is left of a request's overall deadline is read before the connection
  is asked for, so a request that waits for a dial may outlast it.
- A lease that a silent taker let lapse is claimed for it again by the next pass ("so a sweep
  does not extend a lease nobody is reporting on").
- An error of the platform's watcher, or an event without a path (an overflow), cuts nothing:
  `RootWatch::apply` returns. A cached read that the lost change made stale is served until the
  next event, or re-arrangement, that cuts its thread, against `watch.rs`'s "There is no path on
  which a read is cached and unwatched". `StaleIsDue` has these reads as its one exception, and
  only until that next cut.
- An edit of `config.toml` between the start's reading and the watch is heard only with the next.
  `onboard init` writes the file without the lock, from the text it read before.
- An archive whose publication was cut is vouched for by nothing and counts toward `keep`. When
  it is the second backup of its second it has replaced the archive of the first, whose sidecar
  now vouches for it ("A crash between them leaves an archive without a sidecar, which `STATUS`
  reports as exactly that"). `VouchedIsWhole` and `LastStands` except these stamps (`cut`).
- A prune ignores a removal that fails: the sidecar may stay when the archive goes ("the one
  state that reads like a backup and is not"), and what would not go stays beside `keep` others.
  The parts of `BackupsStand` except the stamps where that happened (`stuck`), until their name
  is published again.
- An apply that is stopped between the bundle and the enrolment of the first node, and a start
  then, leave the door off: nobody is enrolled. The next apply enrols the certificate that the
  bundle already holds and says of it `newly = false`, so no restart is pending although the
  server trusts nothing ("restart ikigai-gonk to trust the certificate" is said of a written
  bundle only). `RestartIsTold` excepts the certificates that a start has shut out (`shutOut`).
- An invite is answered twice when the first approval stops before it spends it (both entries
  stand, for two certificates); an entry that was said may be refused by the fold, when another
  was said after its approval looked.
- A fingerprint approved under a second name keeps the bundle filed under its first. When the
  first name later goes to another fingerprint, `add_client`'s replacement unenrols the
  fingerprint although it is enrolled under the second name, until the next apply. The proof of
  `AppliedIsEnrolled` found it, TLC confirms it with two names, and the property therefore
  speaks of certificates that kept their name (`KeptItsName`).
- News that is held when a form is answered stays held, although the answer brought the list: it
  is let go by the next look after a change or a loss of focus, or by the next news ("delivered
  when the decision is submitted"). `NewsIsDue` says held, and no more.
- "A refusal never loses what the person entered": it does when a refresh that was asked for
  before the form was sent is swapped in while the post is under way (the answer then has no
  section to come back to); and a refused form is drawn nowhere when its group is left to another
  kind by then. `RefusalLosesNothing` names both (`gone`, `folded`), and TLC reaches both.
- A layer page drawn before the first read carries no watcher although its notice says that it
  updates; one opened while a Conflict is being read starts from `last` and never gets what is
  there; entries drained past the window between two polls are skipped silently; two tabs may
  set a cursor back; a lost answer to an open marks as read.
- An operator's undefer of an item whose owner matches nobody is undone by the next import.
  `keys.rs` reports a keyed item that was deleted before the read-back as lost to "a filing".

**Deadlock** is checked of `TaskTake`. Elsewhere the bounds end every behaviour, and a server
that is idle or down may rest for ever.

**Fairness.** Every assumption is about a thread or a timer that the code runs, none about
people, hooks, other hosts, starts or stops:

- `ReviewDepth!DepthLiveSpec`: the reactor's own steps, while its thread lives (the review call has a
  timeout). `WaitingIsClaimed` has "up, armed and alive for good" as its hypothesis.
- `Backfill`: each walk's steps: a spawned thread runs and its pauses end. That reviews stop
  coming is the hypothesis of `WalkEnds`.
- `TaskMirror`: the pass thread runs again after each kick and each SWEEP.
- `TaskTake!LiveSpec`: the pass, and each caller's command once it runs.
- `LayersView`: the follower's steps; the unfed layer's post once it is sent (`SaidIsRead`); each
  page's timer, which asks and is answered. "While the door answers" is the hypothesis of
  `PagesCatchUp`.

## 4. What is proved

Each theorem holds for every value of the constants that the named assumption of its module
allows: the bounds are naturals, a value that stands for "none" is none of the others, what is
counted is finite. None assumes anything of the order of steps. Every invariant below was
checked by TLC on a small instance before it was proved.

| module | theorems | inductive invariant, and why it is needed |
|---|---|---|
| `BackfillProofs`, the queue | `QueueTyping`, `PassesAreSerial`, `PassesAreCounted`, `ReviewsCounted`, `NoDropIsForgotten`, `LostTellsTheTruth` | `QueueTyped` (a runner that is not idle has a file in hand), `Serial` (the slot stands for one pass alone), `QueueCounted` (at most one runner reviews), `DropInv` (the reactor's tuple is claimed until it is settled, and a later drop shows as a waiting tuple), `Listed` (what an open look has counted is still what is claimed, unless a tuple has moved) |
| `BackfillProofs`, the backfill | `BackfillTyping`, `WalksAreSerial`, `TallyHolds`; beside the queue `BackfillImplemented` | `Alone` (a live record has one walk or one caller on its way to spawn it), `Tallied` (the columns are what was walked of the listing). The refinement maps each step of the queue to a step of `passRunning` or `queueWaits` or to a stutter; `AloneHere` carries `Alone` over, and `Delayed` bounds the judge calls that one pass meets |
| `TaskTakeProofs` | `TakeTyping`, `OffersAreFiledOnce`, `ReportsAreOnlyWhatIsOwed` | `Typed`, `Owner` (a command past its take holds a tuple that is ours, a key that was read names an item that was filed), `Accounted` (what the pass saw is what was; every report that could be sent is already justified by a close, or by evidence) |
| `PasskeysProofs` | `PasskeyTyping`, `SessionsStayEnded`, `FilesAreTheTable`, `CeremoniesStayFinal` | `SessionsInv(v)`, of any site `v`: what a log line named is due to end wherever the table or the file has not read that far (`Due`), which is what makes an old file harmless; `Clean` (a table that is not dirty is its file); `Stored` (what the file lost of `last_seen` is less than SEEN_WRITE_SECONDS). `CeremonyInv`: `Underway` (what a request carries was minted, and before its end), `Answered` (what was answered is remembered while it lives), `Redeeming` (the lock is of the registration between its two steps), `RevokeStands` |
| `LayersProofs` | `WorkIsInOnePlace`, `ReturnsAreFew`, `LayersTyped`, `PagesFollow`, `PagesAreBrought` | `MirrorInv` = `WorldInv` (what is so between any two calls: who made which name, that every offer of an item but the newest is over, that releases come in the order of the offers, and `Budgeted`: an item whose newest offer is not back has a return left) and `PassInv` (what a pass read is still so as far as it acts on it: see below). `ViewInv(v)`, of any channels, tuplespaces, feeds, tabs and bounds `v`: `DoorInv` (the logs only grow, and without a restore there is one generation), `CopiesInv` (what is kept of a channel is the whole window below its position, of a tuplespace open tuples), `FollowerInv` and `FollowerTrue` (it reads up to positions the door has; a tuple it did not find again has a take), `PagesTrue` (what lies below a cursor, or below the position a page asks from, was sent, and the page has it unless it was too old by then) |
| `QueuePageProofs` | `QueueTyping`, `DeclinesAreStamped`, `NewsArrives`, `FindingsAreSaid`, `RefusalsAreKept` | `QueueInv`: `StoreOK`, `BrowserOK` (nothing the browser holds is newer than the store, and each form on its screen, in its post or in an answer is one that was drawn), `Stamped`, `NewsIsDue`; and `KeptInv`: `FitsView` (a form on the screen, in a post or in an answer is of the view it was drawn for, so a refused one finds its place in the section that comes back), `Kept` (what was refused stands in the answer, then on the page, where its echo keeps every refresh from being asked for) |
| `ReadsProofs` | `ReadsTyping`, `StaleReadsAreCut`, `ReadsAreCurrent`, `NothingKeptGoesBack`, `HoldsAreDials` | `ReadsInv` = `MemoInv` (an epoch that rows were stamped with moved before anything they lack was touched for), `FileInv` (what a request saw of a file is what that file was between its opening and now), `MountInv` (a hold is of so many failures, the lock of one caller), `CachedInv` (the watches are of the edits in order and the last is in force or on its way; every event that makes an entry stale is in a live watch, or in a reload that will cut; a reader that was overtaken carries the thread that was cut) |
| `FilesProofs` | `EnrolmentFollows`, `RootsFollowTheFile`, `BackupsAreKept` | `EntInv`: `Reads` (an apply's work is of a prefix of the layer), `Spending` (an invite is spent, or on its way, only for an entry said), `Told` (the restart owed is known), `Bundled` (who is enrolled under a bundle), `BringsAll` (an apply that nobody overtook has, for each print it is done with, already brought what stands). `RootsInv`: `Writing` (a writer past the lock writes a text that is the file's but for its own line), `OwedIsRead`, `Heard` (what is mounted is the file's, or a reading is to come). `RotInv`: `Alone` (whoever is past the lock holds it, and is of this start of the process), `Files` (the archive of a stamp is written first and removed last, but for stamps of which something would not go, and `PassedBy`: a prune goes on when the file before is gone; outside a publication and its cuts a sidecar is of its own archive), `Spared` (whoever prunes published the last backup, spares it, and what it dooms leaves `keep` of what is there, beside what would not go), `DueSoon` (the next run is due by an archive, by what was published since, or a CATCH_UP after the start). `IntoInv`: a store that has verified is whole; the directory is filled only by a restore that finished, by scripts or by someone else. |
| `DiskProofs` | `FilingsAreOnce`, `DiskTyped` | `KataInv`: `Ordered` (which writes a plan has, each once, and of which issue), `Owing` (what a run that no person disturbs owes of its export has arrived or is in its plan), `Repeating` (a run of what was imported finds nothing left), `Foretelling` (the tally with what is still to be counted is the same at every step), `Kept` (what the history holds of an import or of a dry run is so still). `KeysInv`: numbers are given in order, a key is of one item, and whatever was there without a key when a command read is among what it read, is keyed, or is on its plan |

Which run's property each states is in `PROJECT.json`. The typing theorems are not inductive by
themselves: what a request holds is of its type because of where it came from, and each is
proved together with the invariant of its row.

**Six arguments worth knowing.** *The fold.* `CurrentAfter(log)` is a recursive function over the
positions of a log. `FilesProofs` begins with facts about it for every log (`CurrentFolds`,
`FoldStep`, `FoldOnlyGrows`: that it has a value, what one more entry does to it, that appending
changes no prefix; then `OneEntitlementStands` and `ReplaysAreRefused`). They are proved by
induction on the length, in the form "a set of naturals that is not empty has a least member"
(`LeastOf`, from the library's well-foundedness of `<`), since the prover does not take
induction theorems that have an operator as a parameter. *What is on its way.* The properties
that say "stale, unless a cut is under way" or "behind, unless a reading is owed" become
inductive by naming every place where that cut, event or reading can be, and showing that each
step hands it on to the next place. *A pass that acts on what it read.* `TaskMirror` reads four
things one after the other while takers, leases and people go on, so nothing it holds is the
state. `PassInv` says of each reading in which direction it can be wrong: receipts and taken
reports only grow, so what was seen of them is still true; a pending tuple may have been taken
meanwhile, and then a withdrawal is refused by the layer; of an offer not yet recorded nothing
is in the layer, since the record comes before the drop. From that every step of `TaskMirror` is
a step of `WorkPlace` or a stutter (`WorkSteps`, by cases of `Next`), and the initial states are
its initial states (`WorkBegins`). `HandbacksBounded` counts: the keys of an offer's hand-backs
are mapped one to one into the positions of `heard` that `HandbacksOn` counts. *What a prune leaves.*
`OldestAre` (of a set of k numbers the n oldest are n, by induction on k as above) gives
`DoomedAre`: the archives outside the doomed are `keep`, or fewer when nothing is doomed. Between
the decision and the last removal nobody else publishes, since the lock is held, and each removal
takes a stamp out of both sets, so their difference, with the last backup in it, stays; one that
fails takes it out of the doomed alone, and puts it among those that would not go. *What a
tally comes to.* A dry run says a tally, a real run counts its own write by write, and the two
agree although neither knows the other's plan: `ComesTo` adds to what a run has counted the
numbers of what it has still to file, find, comment and close, as sets of the ledger as it is
now. Each write moves one element from the set into the count, each look at an issue moves the
whole of it, so the sum is constant; at the beginning it is `WholeOf` the export, at the end the
sets are empty. The links are counted at the close of the first pass, for the whole export at
once. *What a page is brought.* The position that a page asks from is what it was last answered,
so everything below it was in an answer, or was too old when the answer was drawn: `PageIs` says
this of the page, `AskIs` of the answer on its way to it, `ReadOf` of the copy the answer is
drawn from, and a lost answer moves no position. All three hold only while no log was cut, which
is why the property speaks of no restore.

**Assumptions.** `MirrorConstants` has that `MaxReleases` is not zero (the code's constant is 3):
an item's first offer does not ask the budget, and would come back once even if there were none.
`LayersConstants` has that a channel is no tuplespace, and that what stands for "none" is no
layer; `SessionConstants` the types of its bounds. Both are assumed of a parameter (`View(v)`,
`Site(v)`), and `ViewBounds` and `SiteBounds` state them of the parts that the run has.
`ImportConstants` has that every export has the same issues, with numbers, and finitely many
comments and links: `kata.rs` takes an export as a whole, and an issue that a later one adds is
in the model one that the earlier has as deleted. `KeysConstants` has that what stands for "no
key" is no key, and that the older items fit below the bound.
`RotationConstants` has that `keep` is at least 1 (`config.rs` refuses 0: the
backup just taken would be one too many) and `IntoConstants` that who writes can be
told from what is written; of the restores `MCDisk` itself fixes two stores, one scripts archive
and two parts of each, so that is what `BackupsAreKept` is about, whoever else writes there.
`MountConstants` has, beside the types of its bounds, that a power of two is a
natural number: arithmetic that the provers do not have. The model value `NoCounter` is outside
the naturals, as the code's `None` is.

**Only model-checked:** liveness (`WaitingIsClaimed`, `WalkEnds`, `EveryTakeIsServed`,
`AllCatchUp`), which with `ENABLED` is out of this prover's reach. The four runs that show a
violation are TLC's alone, since what they state does not hold. Of every other invariant and
action property that a run checks there is a theorem.

## 5. Not modelled, and abstractions

Not modelled, as a whole:

- **Named views** (`views.rs`): a file of declared names, each over one request; no protocol.
- **Doors and admission**, **query budget**: counters at their limit under locks of the libraries.
- **Scripts and rules**: the script family is a library's.
- **Rendering**, **process and configuration**: formatting, and wiring read once at the start.
- **The libraries** listed in section 1, but for what the code here relies on.

Abstractions, by module:

- *Everywhere*: a whole-file write by rename is one step, as the rename is. Names, texts, claims
  and tokens are model values or numbers. Formatting is left out.
- `ReviewQueue`: a rename that fails inside the reactor; the hook installer. `ReviewDepth`: the
  other counts of the depth; one directory is listed in one step.
- `PasskeyCeremony`: signature verification is its counter rule; authenticators that keep no
  counter. `PasskeySessions`: `passkeys.log` cut or replaced (the read has the code's case for a
  shorter log, no action shortens it).
- `TaskMirror`: the text of an offer and its gate (an offer may be withheld); the hold-off of a
  write that keeps failing. `TaskTake`: tuples of other classes.
- `CachedReads`: which bytes a read answers (a text and whether a rule hides it); the routing of
  the families; a change that the platform loses without an error. `FileCache`: a text is two halves.
- `BackupRotation`: the reading of archives back over the door. `RestoreInto`: what verifies.
- `RootsFile`: git, and every other line of `config.toml`.
- `Entitlements`: enrolment writes do not fail (one that fails after the bundle was written loses
  `newly` as a stop does, also without a restart); no expiry of an entry, and no entries of other
  controllers. TLC's instance has one name; with several, only the proof covers `KeptItsName`.
- `KataImport`: the ledger refuses a claim of another's item and writes on tombstones; a lost
  reply is a stop right after the write; a dry run's documented exception for deleted items is
  part of `DryRunIsTrue`.
- `QueuePage`: one person, who edits one form at a time and none while its post is under way; one
  draw reads the store in one step (`FindingsMemo` has what stands between). Of htmx: a swap of
  the section drops the refresh in flight of the old one, a trigger during a fetch asks again
  after it, an answer whose target was replaced is dropped. `Rev` is counts and not a digest; the
  first poll is only the baseline; the calls of a fan-out may come in any order. Undeclared
  words, groups with a kept row, the severity field, the reproduced mark and the list's limit
  are left out, and no finding of the instance is unrated.
- `LayersView`: reading a channel and keeping what was read is one step; pages of a hundred
  entries, the overview's rows and files are left out; there is one viewer, and things are said
  on channels only.

## 6. Plan

1. Named views with their file, and the grant computation as a function with a reference
   definition; after them the doors' bounds and the query budget.
2. The doors' halves of the protocols that are external here (the layer's take and lease, the
   ledger's conditional writes), so that what this code relies on is stated in one place.
