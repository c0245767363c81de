----------------------------- MODULE MCLayers ------------------------------
(* A gonk and the layers of another host, in one run: the offers that it    *)
(* mirrors to a task layer, and the page on which a person follows the      *)
(* layers -- a channel with its feed, in two tabs; a channel without one;   *)
(* a tuplespace. They share no state, so one of them moves in each          *)
(* behaviour, and the others stay as they began.                            *)
EXTENDS MCTaskMirror

CONSTANTS l1, t1, t2, None

VARIABLES
    part,
    log, up, granted, copy, discovered, down, sync, follower, saying, cursor, page, ask, opens,
    hitches, restores, sent

\* The page, by the constants of a part.
View(v) == INSTANCE LayersView
             WITH Channels <- v.channels, Spaces <- v.spaces, Fed <- v.fed, Tabs <- v.tabs,
                  Window <- v.window, MaxSeq <- v.last, MaxOpens <- v.opens,
                  MaxTroubles <- v.troubles, troubles <- hitches

followed == [channels |-> {l1}, spaces |-> {}, fed |-> {l1}, tabs |-> {t1, t2}, window |-> 1,
             last |-> 2, opens |-> 2, troubles |-> 1]
unfed == [channels |-> {l1}, spaces |-> {}, fed |-> {}, tabs |-> {t1}, window |-> 1,
          last |-> 2, opens |-> 1, troubles |-> 1]
space == [channels |-> {}, spaces |-> {l1}, fed |-> {l1}, tabs |-> {t1}, window |-> 1,
          last |-> 2, opens |-> 1, troubles |-> 1]

ASSUME ViewBounds ==
    View(followed)!LayersConstants /\ View(unfed)!LayersConstants /\ View(space)!LayersConstants

viewVars == <<log, up, granted, copy, discovered, down, sync, follower, saying, cursor, page, ask,
              opens, hitches, restores, sent>>

PartsInit ==
    /\ Init
    /\ \/ part \in {"mirror", "followed"} /\ View(followed)!Init /\ up
       \/ part = "unfed" /\ View(unfed)!Init /\ up
       \/ part = "space" /\ View(space)!Init /\ up

PartsNext ==
    /\ \/ part = "mirror" /\ Next /\ UNCHANGED viewVars
       \/ part = "followed" /\ View(followed)!Next /\ UNCHANGED vars
       \/ part = "unfed" /\ View(unfed)!Next /\ UNCHANGED vars
       \/ part = "space" /\ View(space)!Next /\ UNCHANGED vars
    /\ UNCHANGED part

\* The fairness of each part's LiveSpec, while it is the one that moves.
FollowerStep ==
    \/ part = "followed" /\ View(followed)!FollowerStep
    \/ part = "unfed" /\ View(unfed)!FollowerStep
    \/ part = "space" /\ View(space)!FollowerStep

PageStep(t) ==
    \/ part = "followed" /\ (View(followed)!Ask(t) \/ View(followed)!Answer(t))
    \/ part = "unfed" /\ t = t1 /\ (View(unfed)!Ask(t) \/ View(unfed)!Answer(t))
    \/ part = "space" /\ t = t1 /\ (View(space)!Ask(t) \/ View(space)!Answer(t))

all == <<part, vars, viewVars>>

PartsSpec ==
    /\ PartsInit /\ [][PartsNext]_all
    /\ WF_vars(part = "mirror" /\ PassStep)
    /\ WF_viewVars(FollowerStep)
    /\ WF_viewVars(part = "unfed" /\ View(unfed)!SaidIsRead)
    /\ \A t \in {t1, t2} : WF_viewVars(PageStep(t))

-----------------------------------------------------------------------------
(* Each conjunct is stated, with the code's words, in the part's module.   *)

\* The types of both.
PartsTypeOK ==
    /\ TypeOK
    /\ part \in {"mirror", "followed"} => View(followed)!TypeOK
    /\ part = "unfed" => View(unfed)!TypeOK
    /\ part = "space" => View(space)!TypeOK

\* mirror.rs: an item that its takers keep releasing, or handing back, is offered again and
\* interrupts its dispatcher only so often, and only with what it was not told before.
ReturnsStayBounded == []ReturnsAreBounded /\ OnlyNewsInterrupts

\* layers_view.rs: a page is brought every entry that it asks past, whichever tab asked
\* first; what no answer showed is counted as unread; and a tuple leaves the list only when
\* its take is listed.
PagesMissNothing ==
    /\ [](part = "followed" => View(followed)!PagesMissNothing /\ View(followed)!UnseenIsUnread)
    /\ [](part = "unfed" => View(unfed)!PagesMissNothing /\ View(unfed)!UnseenIsUnread)
    /\ [][part = "space" => View(space)!TuplesStay]_all

\* mirror.rs: the layer follows each item in the end; layers_view.rs: while the door answers,
\* every page that asks is brought to its layer's end (the same of the three).
AllCatchUp ==
    /\ part = "mirror" => OfferFollowsItem
    /\ View(followed)!PagesCatchUp
=============================================================================
