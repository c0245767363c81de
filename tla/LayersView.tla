----------------------------- MODULE LayersView ----------------------------
(***************************************************************************)
(* The Layers page (src/src/layers_view.rs): one follower thread keeps a   *)
(* copy of the layers that an identity may read at a door, a post catches  *)
(* up the layers that no feed covers, and open pages ask for what is new   *)
(* in the copy, which moves their viewer's cursors.                        *)
(*                                                                         *)
(* The door and the layers behind it are another host's.  A layer is a log *)
(* whose positions are the feed's; the host may be restored to a shorter   *)
(* one.  A channel holds entries; a tuplespace holds tuples and the takes  *)
(* of them.  There is one viewer, with tabs.                               *)
(***************************************************************************)
EXTENDS Naturals, Sequences, FiniteSets

CONSTANTS
    Channels, Spaces,   \* the layers, by their access model
    Fed,                \* those whose feed the identity may follow
    Tabs,
    Window,             \* how many entries of a channel are kept
    None,
    MaxSeq, MaxOpens, MaxTroubles   \* bounds: positions of a layer, pages opened, troubles

\* What is kept of a layer: up to where it was read, and what was found, by position.
Copies == [last : Nat, synced : BOOLEAN, entries : SUBSET (Nat \X Nat), taken : SUBSET (Nat \X Nat)]

LayersConstants ==
    /\ {Window, MaxSeq, MaxOpens, MaxTroubles} \subseteq Nat
    /\ Channels \cap Spaces = {}
    /\ None # "follower" /\ None \notin Channels \cup Spaces /\ None \notin Copies

VARIABLES
    log,          \* at the door: of each layer, what was written at each position
    up,           \* the door answers
    granted,      \* the layers that the identity may read
    copy,         \* of each layer: what was read of it, or None while it is not known
    discovered,   \* every layer has been read once
    down,         \* the page says that the door cannot be reached
    sync,         \* who reads the door into the copy
    follower,     \* the follower thread
    saying,       \* the layer that a post still has to catch up, or None
    cursor,       \* of each layer: the position that the viewer was last shown
    page,         \* of each tab: the page on it, or None
    ask,          \* of each tab: the answer that is being drawn for it, or None
    opens, troubles,
    restores,     \* how often a layer's log was cut
    sent          \* history: of each layer, the positions that an answer showed or told of

door == <<log, up, granted>>
kept == <<copy, discovered, down>>
viewer == <<cursor, page, ask, opens, sent>>
vars == <<door, kept, sync, follower, saying, viewer, troubles, restores>>

Layers == Channels \cup Spaces
Whole == MaxSeq + 1     \* u64::MAX: read whatever there is
Known == {l \in Layers : copy[l] # None}

Most(S) == CHOOSE n \in S : \A m \in S : m <= n
Upper(m, n) == IF m > n THEN m ELSE n
Lower(m, n) == IF m < n THEN m ELSE n

\* An entry or a tuple, or the take of the tuple at a position; every restore begins a
\* generation, so that what is written again at a position differs.
Item(l, of) == [of |-> of, gen |-> restores]
End(l) == Len(log[l])
At(l, i) == <<i, log[l][i].gen>>

Unread == [last |-> 0, synced |-> FALSE, entries |-> {}, taken |-> {}]
Idle == [at |-> "off", phase |-> "sync", todo |-> {}, layer |-> None, to |-> 0, got |-> {},
         tops |-> [l \in Layers |-> 0]]

Init ==
    /\ log = [l \in Layers |-> <<>>] /\ up \in BOOLEAN /\ granted = Layers
    /\ copy = [l \in Layers |-> None] /\ discovered = FALSE /\ down = FALSE
    /\ sync = None /\ follower = Idle /\ saying = None
    /\ cursor = [l \in Layers |-> 0]
    /\ page = [t \in Tabs |-> None] /\ ask = [t \in Tabs |-> None]
    /\ opens = 0 /\ troubles = 0 /\ restores = 0
    /\ sent = [l \in Layers |-> {}]

-----------------------------------------------------------------------------
(* What the door answers, and how it is kept.                              *)

Entries(l, after) == {At(l, i) : i \in after + 1..End(l)}
Takes(l) == {i \in 1..End(l) : log[l][i].of # 0}
Pending(l) == {i \in 1..End(l) : log[l][i].of = 0 /\ ~\E j \in Takes(l) : log[l][j].of = i}

\* The newest Window of a channel's entries, by position.
Newest(entries) ==
    {e \in entries : Cardinality({d \in entries : d[1] > e[1] \/ (d[1] = e[1] /\ d[2] > e[2])})
                       < Window}

\* A first read starts a Window before the end, a later one where the last one ended.
StartOf(from, to) ==
    IF from = 0 /\ to # Whole THEN (IF to > Window THEN to - Window ELSE 0) ELSE from

WithEntries(c, l, from, to) ==
    LET start == StartOf(from, to)
        end == Upper(start, End(l))
        last == IF to = Whole THEN end ELSE Upper(to, end)
    IN  [c EXCEPT !.entries = Newest(@ \cup Entries(l, start)),
                  !.last = Upper(@, last), !.synced = TRUE]

\* The tuples were read before the takes.
WithTuples(c, l, tuples, to) ==
    LET taken == {At(l, i) : i \in Takes(l)}
        newest == Most({e[1] : e \in tuples \cup taken} \cup {0})
        last == IF to = Whole THEN newest ELSE Upper(to, newest)
    IN  [c EXCEPT !.entries = tuples, !.taken = taken, !.last = Upper(@, last), !.synced = TRUE]

-----------------------------------------------------------------------------
(* The follower.                                                           *)

Goes(f) == follower' = f

\* The first page, poll or count that needs the copy starts it, once.
Start ==
    /\ follower.at = "off" /\ Goes([Idle EXCEPT !.at = "top"])
    /\ UNCHANGED <<door, kept, sync, saying, viewer, troubles, restores>>

\* Who the identity is and what it holds is read at first and every ten minutes; a layer
\* that is still held keeps what was read of it.
Discover ==
    /\ follower.at = "top" /\ sync = None /\ sync' = "follower"
    /\ \/ up /\ copy' = [l \in Layers |-> IF l \notin granted THEN None
                                          ELSE IF copy[l] # None THEN copy[l] ELSE Unread]
       \/ (Known # {} \/ discovered) /\ UNCHANGED copy
    /\ Goes([follower EXCEPT !.at = "next", !.phase = "sync",
                !.todo = {l \in Layers : copy'[l] # None /\ ~copy'[l].synced}])
    /\ UNCHANGED <<door, discovered, down, saying, viewer, troubles, restores>>

\* The next layer, and up to where it is read: to the end that its feed tells, to the event
\* that was heard, or, without a feed, whatever there is.
Take(l) ==
    /\ follower.at = "next" /\ l \in follower.todo
    /\ follower.phase = "sync" /\ l \in Fed => up
    /\ Goes([follower EXCEPT !.at = "read", !.todo = @ \ {l}, !.layer = l,
                !.to = IF l \notin Fed THEN Whole
                       ELSE IF follower.phase = "sync" THEN End(l) ELSE follower.tops[l]])
    /\ UNCHANGED <<door, kept, sync, saying, viewer, troubles, restores>>

From(l) == IF follower.phase = "sync" THEN 0 ELSE copy[l].last

ReadEntries ==
    /\ follower.at = "read" /\ follower.layer \in Channels /\ up
    /\ copy' = [copy EXCEPT ![follower.layer] =
                   WithEntries(@, follower.layer, From(follower.layer), follower.to)]
    /\ Goes([follower EXCEPT !.at = "next", !.layer = None, !.to = 0])
    /\ UNCHANGED <<door, discovered, down, sync, saying, viewer, troubles, restores>>

ReadTuples ==
    /\ follower.at = "read" /\ follower.layer \in Spaces /\ up
    /\ Goes([follower EXCEPT !.at = "taken",
                !.got = {At(follower.layer, i) : i \in Pending(follower.layer)}])
    /\ UNCHANGED <<door, kept, sync, saying, viewer, troubles, restores>>

ReadTakes ==
    /\ follower.at = "taken" /\ up
    /\ LET l == follower.layer
       IN  copy' = [copy EXCEPT ![l] = WithTuples(@, l, follower.got, follower.to)]
    /\ Goes([follower EXCEPT !.at = "next", !.layer = None, !.to = 0, !.got = {}])
    /\ UNCHANGED <<door, discovered, down, sync, saying, viewer, troubles, restores>>

ReadTheUnfed ==
    /\ follower.at = "next" /\ follower.phase = "sync" /\ follower.todo = {}
    /\ Goes([follower EXCEPT !.phase = "unfed", !.todo = Known \ Fed])
    /\ UNCHANGED <<door, kept, sync, saying, viewer, troubles, restores>>

\* Read once means every layer read; then the one long poll, from where each was read to.
Follow ==
    /\ follower.at = "next" /\ follower.phase = "unfed" /\ follower.todo = {}
    /\ discovered' = TRUE /\ down' = FALSE /\ sync' = None
    /\ Goes([Idle EXCEPT !.at = IF Known \cap Fed = {} THEN "sleep" ELSE "poll",
                !.todo = Known \cap Fed, !.tops = [l \in Layers |-> IF l \in Known \cap Fed
                                                        THEN copy[l].last ELSE 0]])
    /\ UNCHANGED <<door, copy, saying, viewer, troubles, restores>>

PastTheEnd == \E l \in follower.todo : follower.tops[l] > End(l)

\* The door refuses a position past a layer's end: everything is read again.
Conflict ==
    /\ follower.at = "poll" /\ up /\ PastTheEnd
    /\ copy' = [l \in Layers |-> IF copy[l] = None THEN None ELSE [copy[l] EXCEPT !.synced = FALSE]]
    /\ Goes([Idle EXCEPT !.at = "top"])
    /\ UNCHANGED <<door, discovered, down, sync, saying, viewer, troubles, restores>>

\* The wait ends with the layers that have events, at most with none.
Hear ==
    /\ follower.at = "poll" /\ up /\ ~PastTheEnd
    /\ LET heard == {l \in follower.todo : End(l) > follower.tops[l]}
       IN  Goes(IF heard = {} THEN [Idle EXCEPT !.at = "top"]
                ELSE [Idle EXCEPT !.at = "heard", !.todo = heard,
                         !.tops = [l \in Layers |-> IF l \in heard THEN End(l) ELSE 0]])
    /\ UNCHANGED <<door, kept, sync, saying, viewer, troubles, restores>>

CatchUp ==
    /\ follower.at = "heard" /\ sync = None /\ sync' = "follower"
    /\ Goes([follower EXCEPT !.at = "next", !.phase = "events", !.todo = @ \cap Known])
    /\ UNCHANGED <<door, kept, saying, viewer, troubles, restores>>

CaughtUp ==
    /\ follower.at = "next" /\ follower.phase = "events" /\ follower.todo = {}
    /\ sync' = None /\ Goes([Idle EXCEPT !.at = "top"])
    /\ UNCHANGED <<door, kept, saying, viewer, troubles, restores>>

\* A call that fails ends the step: the page says why, and the follower rests.
Fail ==
    /\ ~up
    /\ \/ follower.at \in {"read", "taken", "poll"}
       \/ follower.at = "top" /\ sync = None
       \/ follower.at = "next" /\ follower.phase = "sync" /\ follower.todo \cap Fed # {}
    /\ down' = TRUE /\ sync' = IF sync = "follower" THEN None ELSE sync
    /\ Goes([Idle EXCEPT !.at = "sleep"])
    /\ UNCHANGED <<door, copy, discovered, saying, viewer, troubles, restores>>

Wake ==
    /\ follower.at = "sleep" /\ Goes([Idle EXCEPT !.at = "top"])
    /\ UNCHANGED <<door, kept, sync, saying, viewer, troubles, restores>>

-----------------------------------------------------------------------------
(* Posts, and the others who write the layers.                             *)

Write(l, of) == End(l) < MaxSeq /\ log' = [log EXCEPT ![l] = Append(@, Item(l, of))]

\* A post is said at the door; a layer that no feed covers is then caught up.
Say(l) ==
    /\ up /\ saying = None /\ l \in Channels \cap Known /\ Write(l, 0)
    /\ saying' = IF l \in Fed THEN None ELSE l
    /\ UNCHANGED <<up, granted, kept, sync, follower, viewer, troubles, restores>>

SaidIsRead ==
    /\ saying # None /\ sync = None /\ saying' = None
    /\ copy' = IF up /\ copy[saying] # None
               THEN [copy EXCEPT ![saying] = WithEntries(@, saying, @.last, Whole)] ELSE copy
    /\ UNCHANGED <<door, discovered, down, sync, follower, viewer, troubles, restores>>

Others(l) ==
    /\ \/ Write(l, 0)
       \/ l \in Spaces /\ \E i \in Pending(l) : Write(l, i)
    /\ UNCHANGED <<up, granted, kept, sync, follower, saying, viewer, troubles, restores>>

-----------------------------------------------------------------------------
(* The pages.                                                              *)

\* Opening a layer takes the copy as it is when the first read is done, has failed or takes
\* too long. Of a layer that is not known by then a page is drawn that asks for nothing more.
Open(t, l) ==
    /\ opens < MaxOpens /\ page[t] = None /\ ask[t] = None /\ follower.at # "off"
    /\ opens' = opens + 1
    /\ \/ l \in Known /\ ask' = [ask EXCEPT ![t] = [layer |-> l, opens |-> TRUE, found |-> copy[l]]]
                      /\ UNCHANGED page
       \/ l \notin Known /\ ~discovered /\ UNCHANGED ask
          /\ page' = [page EXCEPT ![t] = [layer |-> l, after |-> 0, watch |-> FALSE, has |-> {}, aged |-> {}]]
    /\ UNCHANGED <<door, kept, sync, follower, saying, cursor, sent, troubles, restores>>

\* The page asks for what lies past its position, a few seconds after it last did.
Ask(t) ==
    /\ page[t] # None /\ page[t].watch /\ ask[t] = None /\ follower.at # "off"
    /\ LET l == page[t].layer
       IN  /\ l \in Known /\ copy[l].last > page[t].after
           /\ ask' = [ask EXCEPT ![t] = [layer |-> l, opens |-> FALSE, found |-> copy[l]]]
    /\ UNCHANGED <<door, kept, sync, follower, saying, cursor, page, opens, sent, troubles, restores>>

\* What the header and the overview count as new.
NotShown(l) == copy[l].last - Lower(cursor[l], copy[l].last)

NewOn(t, found) ==
    LET after == IF ask[t].opens THEN 0 ELSE page[t].after
    IN  {e \in found.entries \cup found.taken : e[1] > after}

\* What is older than the window: told of, or drained before anybody asked.
Aged(l, found) == {i \in 1..found.last : l \in Channels /\ i + Window <= found.last}

\* Mutant: the cursor is set to the end of the copy as it is by now.
MarkNow(t) ==
    IF copy[ask[t].layer] = None THEN ask[t].found.last ELSE copy[ask[t].layer].last

Mark(t) == ask[t].found.last

\* Mutant: the next watcher asks from where this one did.
NextAfterSame(t) == IF ask[t].opens THEN ask[t].found.last ELSE page[t].after

NextAfter(t) == ask[t].found.last

\* The answer moves the cursor to what it shows, and reaches the page or is lost; a layer not
\* yet read is drawn with an empty list.
Answer(t) ==
    /\ ask[t] # None /\ ask' = [ask EXCEPT ![t] = None]
    /\ LET l == ask[t].layer
           found == ask[t].found
           shows == ~ask[t].opens \/ found.synced
           new == IF shows THEN NewOn(t, found) ELSE {}
           had == IF ask[t].opens \/ l \in Spaces THEN {} ELSE page[t].has
       IN  /\ cursor' = IF shows THEN [cursor EXCEPT ![l] = Mark(t)] ELSE cursor
           /\ sent' = IF shows THEN [sent EXCEPT ![l] = @ \cup {e[1] : e \in new} \cup Aged(l, found)]
                               ELSE sent
           /\ \/ page' = [page EXCEPT ![t] =
                   [layer |-> l, after |-> NextAfter(t), watch |-> TRUE, has |-> had \cup new,
                    aged |-> IF ask[t].opens THEN Aged(l, found)
                             ELSE @.aged \cup {i \in Aged(l, found) : i > @.after}]]
                 /\ UNCHANGED troubles
              \/ troubles < MaxTroubles /\ troubles' = troubles + 1 /\ UNCHANGED page
    /\ UNCHANGED <<door, kept, sync, follower, saying, opens, restores>>

-----------------------------------------------------------------------------
(* Troubles: the door comes and goes, its host is restored or grants       *)
(* something else, gonk is restarted; an answer lost is in Answer.         *)

Trouble == troubles < MaxTroubles /\ troubles' = troubles + 1

\* A door that was down comes back at no cost.
DoorTurns ==
    /\ up' = ~up /\ IF up THEN Trouble ELSE UNCHANGED troubles
    /\ UNCHANGED <<log, granted, kept, sync, follower, saying, viewer, restores>>

Restore(l) ==
    /\ Trouble /\ restores' = restores + 1
    /\ \E n \in 0..End(l) - 1 : log' = [log EXCEPT ![l] = SubSeq(@, 1, n)]
    /\ UNCHANGED <<up, granted, kept, sync, follower, saying, viewer>>

Regrant(l) ==
    /\ Trouble /\ granted' = IF l \in granted THEN granted \ {l} ELSE granted \cup {l}
    /\ UNCHANGED <<log, up, kept, sync, follower, saying, viewer, restores>>

\* The copy is this process's; the cursors are in a file.
Restart ==
    /\ Trouble /\ follower.at # "off"
    /\ copy' = [l \in Layers |-> None] /\ discovered' = FALSE /\ down' = FALSE
    /\ sync' = None /\ follower' = Idle /\ saying' = None
    /\ ask' = [t \in Tabs |-> None]
    /\ UNCHANGED <<door, cursor, page, opens, sent, restores>>

FollowerStep ==
    \/ Start \/ Discover \/ (\E l \in Layers : Take(l)) \/ ReadEntries \/ ReadTuples \/ ReadTakes
    \/ ReadTheUnfed \/ Follow \/ Conflict \/ Hear \/ CatchUp \/ CaughtUp \/ Fail \/ Wake

Next ==
    \/ FollowerStep
    \/ \E l \in Layers : Say(l) \/ Others(l) \/ Restore(l) \/ Regrant(l)
    \/ SaidIsRead
    \/ \E t \in Tabs : Ask(t) \/ Answer(t) \/ \E l \in Layers : Open(t, l)
    \/ DoorTurns \/ Restart

Spec == Init /\ [][Next]_vars

\* The thread goes on for as long as the process lives, and pages that are open ask again.
LiveSpec ==
    /\ Spec
    /\ WF_vars(FollowerStep) /\ WF_vars(SaidIsRead)
    /\ \A t \in Tabs : WF_vars(Ask(t)) /\ WF_vars(Answer(t))

-----------------------------------------------------------------------------
(* Properties.                                                             *)

CopyType(c) ==
    /\ c.last \in 0..Whole /\ c.synced \in BOOLEAN
    /\ \A e \in c.entries \cup c.taken : e[1] \in 1..MaxSeq

TypeOK ==
    /\ \A l \in Layers : End(l) <= MaxSeq /\ (copy[l] # None => CopyType(copy[l]))
    /\ granted \subseteq Layers /\ sync \in {None, "follower"}
    /\ sync = "follower" <=> follower.at \in {"next", "read", "taken"}
    /\ cursor \in [Layers -> 0..MaxSeq]
    /\ \A l \in Channels : copy[l] # None => Cardinality(copy[l].entries) <= Window
    /\ \A t \in Tabs : page[t] # None => page[t].after \in 0..MaxSeq

\* layers_view.rs: an open page is brought every entry up to the position that it asks from,
\* but those that were older than the newest Window by then.
PagesMissNothing ==
    restores = 0 => \A t \in Tabs : page[t] # None /\ page[t].layer \in Channels =>
        \A i \in 1..page[t].after : At(page[t].layer, i) \in page[t].has \/ i \in page[t].aged

\* layers_view.rs: the unread count leaves out only what an answer showed this viewer, in
\* whichever tab, or told of as older than what it shows.
UnseenIsUnread ==
    restores = 0 => \A l \in Channels \cap Known :
        Cardinality(1..copy[l].last \ sent[l]) <= NotShown(l)

\* layers_view.rs: a tuple that is listed leaves the list only when its take is listed.
TuplesStay ==
    \A l \in Spaces \cap Known : restores = 0 /\ copy'[l] # None =>
        \A e \in copy[l].entries :
           e \in copy'[l].entries \/ \E d \in copy'[l].taken : log[l][d[1]].of = e[1]

TuplesStayOrAreTaken == [][TuplesStay]_vars

\* layers_view.rs: while the door answers, a page that asks is brought to its layer's end.
PagesCatchUp ==
    [](restores = 0 /\ granted = Layers) /\ <>[]up =>
        <>[](\A t \in DOMAIN page : page[t] # None /\ page[t].watch => page[t].after = End(page[t].layer))

\* layers_view.rs: "The last feed position read": a tuple at or below it that still waits to
\* be taken is in the list.
LastIsRead ==
    restores = 0 => \A l \in Spaces \cap Known : copy[l].synced =>
        \A i \in Pending(l) : i <= copy[l].last => At(l, i) \in copy[l].entries

\* layers_view.rs: "the host was restored or replaced. Read every layer again from its feed":
\* the follower comes to ask from positions that the door has.
FollowsAgain ==
    <>[](up /\ granted = Layers) => []<>(follower.at = "poll" /\ ~PastTheEnd)

=============================================================================
