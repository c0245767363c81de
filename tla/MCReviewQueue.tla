--------------------------- MODULE MCReviewQueue ---------------------------
(* The review queue and its depth under names of their own, so that they   *)
(* can also be read beside the backfill.  ReviewQueue.cfg takes two files, *)
(* one edit each way, and enough drops, starts and hand-run reviews that a *)
(* drop can meet every stage of a pass and of a restart, and the depth be  *)
(* asked at any point of it.                                               *)

CONSTANTS FilesHere, NoFile, MaxVersion, MaxDrops, MaxStarts, MaxByHand

VARIABLES
    tree, inbox, processing, outbox, error, handler, up, armed, alive,
    at, file, seen, ok, slot, passes, reviewsInFlight, clicks,
    dropped, reviewed, letdown, drops, starts, byHand,
    look

Queue == INSTANCE ReviewDepth WITH Files <- FilesHere

ASSUME QueueBounds == Queue!QueueConstants

QueueSpec == Queue!DepthSpec
QueueLiveSpec == Queue!DepthLiveSpec

-----------------------------------------------------------------------------
(* Each is stated, with the code's words, in ReviewQueue and ReviewDepth.   *)

\* trigger.rs: what a stage, a runner and a counter may hold.
QueueTypeOK == Queue!TypeOK

\* trigger.rs, Activity: the pass slot is held exactly while one runner is inside a pass.
OnePassAtATime == Queue!OnePassAtATime

\* trigger.rs, Pass: every pass begun is counted once, but for the one running now.
EveryPassIsCounted == Queue!EveryPassIsCounted

\* trigger.rs, Reviewing: reviews_in_flight is the number of reviews that run.
ReviewsAreCounted == Queue!ReviewsAreCounted

\* trigger.rs: drops of one file collapse, and its newest drop is never forgotten.
NewestDropIsReviewed == Queue!NewestDropIsReviewed

\* trigger.rs, DepthEndpoint::status: the claimed tuples nobody works on, but for the two
\* edges the code names and the one its two looks leave.
LostIsTrue == Queue!LostIsTrue

\* trigger.rs: a server that stays up, armed and watching claims every waiting request.
WaitingIsClaimed == Queue!WaitingIsClaimed
=============================================================================
