--------------------------- MODULE BackfillProofs ---------------------------
(***************************************************************************)
(* What holds of the review queue for any files, any number of drops,      *)
(* edits, starts and hand-run reviews, and of the judge backfill for any   *)
(* callers, any finite set of findings and any number of runs, alone and   *)
(* beside the queue: what ReviewQueue.cfg and ReviewAndBackfill.cfg check  *)
(* on small instances.  The queue comes first; each of its theorems is an  *)
(* invariant proved on top of the ones before it.                          *)
(***************************************************************************)
EXTENDS MCReviewAndBackfill, FiniteSetTheorems, TLAPS

-----------------------------------------------------------------------------
(* Asking for the depth changes nothing of the queue.                      *)

LEMMA QueueSteps == QueueSpec => Queue!Spec
<1>1. Queue!DepthInit => Queue!Init
  BY DEF Queue!DepthInit
<1>2. [Queue!DepthNext]_(Queue!depthVars) => [Queue!Next]_(Queue!vars)
  BY DEF Queue!DepthNext, Queue!QueueStep, Queue!List, Queue!Answered, Queue!depthVars
<1>3. QED
  BY <1>1, <1>2, PTL DEF QueueSpec, Queue!DepthSpec, Queue!Spec

-----------------------------------------------------------------------------
(* The queue's type correctness.  A stage holds files only because a       *)
(* runner that is not idle has a file in hand.                             *)

InHand ==
    \A r \in Queue!Runners : IF at[r] = "idle" THEN file[r] = NoFile ELSE file[r] \in FilesHere

QueueTyped == Queue!TypeOK /\ InHand

LEMMA QueueTypedPassStep ==
    ASSUME QueueTyped, NEW r \in Queue!Runners, Queue!PassStep(r)
    PROVE  QueueTyped'
<1> USE DEF QueueTyped, Queue!TypeOK, InHand, Queue!Runners, Queue!stages, Queue!process,
            Queue!history, Queue!bounds
<1>1. CASE Queue!Begin(r)
  BY <1>1 DEF Queue!Begin
<1>2. CASE Queue!Refuse(r)
  <2>1. ok' \in BOOLEAN
    BY <1>2 DEF Queue!Refuse, Queue!Leave
  <2>2. QED
    BY <1>2, <2>1 DEF Queue!Refuse, Queue!Leave, Queue!activity
<1>3. CASE Queue!Malformed(r)
  <2>1. ok' \in BOOLEAN
    BY <1>3 DEF Queue!Malformed, Queue!Leave
  <2>2. QED
    BY <1>3, <2>1 DEF Queue!Malformed, Queue!SettlePass, Queue!Leave
<1>4. CASE Queue!Review(r)
  BY <1>4 DEF Queue!Review
<1>5. ASSUME NEW b \in BOOLEAN, Queue!Answer(r, b) PROVE QueueTyped'
  <2>1. ok' \in BOOLEAN
    BY <1>5 DEF Queue!Answer, Queue!Leave
  <2>2. passes' \in [started : Nat, succeeded : Nat, failed : Nat]
    BY <1>5 DEF Queue!Answer, Queue!SettlePass
  <2>3. reviewed' \in [FilesHere -> Nat]
    BY <1>5 DEF Queue!Answer, Queue!Larger
  <2>4. QED
    BY <1>5, <2>1, <2>2, <2>3 DEF Queue!Answer, Queue!SettlePass, Queue!Leave, Queue!LessOne
<1>6. QED
  BY <1>1, <1>2, <1>3, <1>4, <1>5 DEF Queue!PassStep

LEMMA QueueTypedStep ==
    ASSUME QueueTyped, [Queue!Next]_(Queue!vars)
    PROVE  QueueTyped'
<1> USE QueueBounds DEF QueueTyped, Queue!TypeOK, InHand, Queue!Runners, Queue!stages,
                        Queue!process, Queue!runners, Queue!activity, Queue!history, Queue!bounds
<1>1. ASSUME NEW f \in FilesHere, Queue!Edit(f) PROVE QueueTyped'
  BY <1>1 DEF Queue!Edit
<1>2. ASSUME NEW f \in FilesHere, Queue!Drop(f) PROVE QueueTyped'
  BY <1>2 DEF Queue!Drop
<1>3. ASSUME NEW f \in FilesHere, Queue!Claim(f) PROVE QueueTyped'
  BY <1>3 DEF Queue!Claim
<1>4. ASSUME NEW f \in FilesHere, NEW take \in BOOLEAN, Queue!Pipe(f, take) PROVE QueueTyped'
  BY <1>4 DEF Queue!Pipe
<1>5. CASE Queue!RewriteHandler
  BY <1>5 DEF Queue!RewriteHandler
<1>6. ASSUME NEW arm \in BOOLEAN, NEW recovered \in SUBSET processing, Queue!Start(arm, recovered)
      PROVE QueueTyped'
  BY <1>6 DEF Queue!Start
<1>7. CASE Queue!Stop
  BY <1>7 DEF Queue!Stop, Queue!NoPasses
<1>8. CASE Queue!WatcherDies
  <2>1. passes' \in [started : Nat, succeeded : Nat, failed : Nat]
    BY <1>8 DEF Queue!WatcherDies, Queue!SettlePass
  <2>2. reviewsInFlight' \in Nat /\ slot' \in Queue!Runners \union {"free"}
    BY <1>8 DEF Queue!WatcherDies, Queue!SettlePass, Queue!LessOne
  <2>3. Queue!TypeOK'
    BY <1>8, <2>1, <2>2 DEF Queue!WatcherDies
  <2>4. InHand'
    BY <1>8 DEF Queue!WatcherDies
  <2>5. QED
    BY <2>3, <2>4
<1>9. CASE Queue!Settle
  <2>1. file["reactor"] \in FilesHere
    BY <1>9 DEF Queue!Settle
  <2>2. error' \subseteq FilesHere /\ outbox' \subseteq FilesHere /\ letdown' \subseteq FilesHere
    BY <1>9, <2>1 DEF Queue!Settle
  <2>3. QED
    BY <1>9, <2>2 DEF Queue!Settle
<1>10. ASSUME NEW r \in Queue!Runners, Queue!PassStep(r) PROVE QueueTyped'
  BY <1>10, QueueTypedPassStep
<1>11. CASE Queue!Click
  BY <1>11 DEF Queue!Click
<1>12. CASE Queue!ClickAnswered
  BY <1>12 DEF Queue!ClickAnswered, Queue!LessOne
<1>13. CASE UNCHANGED Queue!vars
  BY <1>13 DEF Queue!vars
<1>14. QED
  BY <1>1, <1>2, <1>3, <1>4, <1>5, <1>6, <1>7, <1>8, <1>9, <1>10, <1>11, <1>12, <1>13 DEF
                                                                                          Queue!Next

LEMMA QueueTypedInit == Queue!Init => QueueTyped
<1> SUFFICES ASSUME Queue!Init PROVE QueueTyped
  OBVIOUS
<1>1. passes \in [started : Nat, succeeded : Nat, failed : Nat]
  BY DEF Queue!Init, Queue!NoPasses
<1>2. Queue!TypeOK
  BY <1>1 DEF Queue!Init, Queue!TypeOK, Queue!Runners
<1>3. InHand
  BY DEF Queue!Init, InHand
<1>4. QED
  BY <1>2, <1>3 DEF QueueTyped

\* Every state the queue reaches is well typed: the counters never go below
\* zero and the stages never hold anything but files somebody may ask about.
THEOREM QueueTyping == QueueSpec => []QueueTypeOK
<1>1. QueueTyped => QueueTypeOK
  BY DEF QueueTyped, QueueTypeOK
<1>2. QED
  BY <1>1, QueueTypedInit, QueueTypedStep, QueueSteps, PTL DEF Queue!Spec

-----------------------------------------------------------------------------
(* One pass at a time, each counted once.  The two go together: a pass is  *)
(* settled once because it is the only one the slot stands for.            *)

Serial == Queue!OnePassAtATime /\ Queue!EveryPassIsCounted

LEMMA SerialPassStep ==
    ASSUME QueueTyped, Serial, NEW r \in Queue!Runners, Queue!PassStep(r)
    PROVE  Serial'
<1> USE DEF QueueTyped, Queue!TypeOK, Serial, Queue!OnePassAtATime, Queue!EveryPassIsCounted,
            Queue!Runners
<1>1. CASE Queue!Begin(r)
  BY <1>1 DEF Queue!Begin
<1>2. CASE Queue!Refuse(r)
  BY <1>2 DEF Queue!Refuse, Queue!Leave, Queue!activity
<1>3. CASE Queue!Malformed(r)
  BY <1>3 DEF Queue!Malformed, Queue!SettlePass, Queue!Leave
<1>4. CASE Queue!Review(r)
  BY <1>4 DEF Queue!Review
<1>5. ASSUME NEW b \in BOOLEAN, Queue!Answer(r, b) PROVE Serial'
  BY <1>5 DEF Queue!Answer, Queue!SettlePass, Queue!Leave
<1>6. QED
  BY <1>1, <1>2, <1>3, <1>4, <1>5 DEF Queue!PassStep

LEMMA SerialStep ==
    ASSUME QueueTyped, Serial, [Queue!Next]_(Queue!vars)
    PROVE  Serial'
<1> USE DEF QueueTyped, Queue!TypeOK, Serial, Queue!OnePassAtATime, Queue!EveryPassIsCounted,
            Queue!Runners, Queue!runners, Queue!activity
<1>1. ASSUME NEW f \in FilesHere, Queue!Edit(f) PROVE Serial'
  BY <1>1 DEF Queue!Edit
<1>2. ASSUME NEW f \in FilesHere, Queue!Drop(f) PROVE Serial'
  BY <1>2 DEF Queue!Drop
<1>3. ASSUME NEW f \in FilesHere, Queue!Claim(f) PROVE Serial'
  BY <1>3 DEF Queue!Claim
<1>4. ASSUME NEW f \in FilesHere, NEW take \in BOOLEAN, Queue!Pipe(f, take) PROVE Serial'
  BY <1>4 DEF Queue!Pipe
<1>5. CASE Queue!RewriteHandler
  BY <1>5 DEF Queue!RewriteHandler
<1>6. ASSUME NEW arm \in BOOLEAN, NEW recovered \in SUBSET processing, Queue!Start(arm, recovered)
      PROVE Serial'
  BY <1>6 DEF Queue!Start
<1>7. CASE Queue!Stop
  BY <1>7 DEF Queue!Stop, Queue!NoPasses
<1>8. CASE Queue!WatcherDies
  BY <1>8 DEF Queue!WatcherDies, Queue!SettlePass
<1>9. CASE Queue!Settle
  BY <1>9 DEF Queue!Settle
<1>10. ASSUME NEW r \in Queue!Runners, Queue!PassStep(r) PROVE Serial'
  BY <1>10, SerialPassStep
<1>11. CASE Queue!Click
  BY <1>11 DEF Queue!Click
<1>12. CASE Queue!ClickAnswered
  BY <1>12 DEF Queue!ClickAnswered
<1>13. CASE UNCHANGED Queue!vars
  BY <1>13 DEF Queue!vars
<1>14. QED
  BY <1>1, <1>2, <1>3, <1>4, <1>5, <1>6, <1>7, <1>8, <1>9, <1>10, <1>11, <1>12, <1>13 DEF
                                                                                          Queue!Next

LEMMA SerialInit == Queue!Init => Serial
BY DEF Queue!Init, Serial, Queue!OnePassAtATime, Queue!EveryPassIsCounted, Queue!NoPasses,
       Queue!Runners

LEMMA AlwaysSerial == QueueSpec => [](QueueTyped /\ Serial)
BY QueueTypedInit, QueueTypedStep, SerialInit, SerialStep, QueueSteps, PTL DEF Queue!Spec

\* The one pass slot is held exactly while a runner is inside a pass, so the
\* reactor and a person at DRAIN_ONE are never inside one together (Activity).
THEOREM PassesAreSerial == QueueSpec => []OnePassAtATime
<1>1. QueueTyped /\ Serial => OnePassAtATime
  BY DEF Serial, OnePassAtATime
<1>2. QED
  BY <1>1, AlwaysSerial, PTL

\* Every pass begun since the start is counted once, as succeeded or failed,
\* but for the one that is running (Pass, a guard that counts when it is dropped).
THEOREM PassesAreCounted == QueueSpec => []EveryPassIsCounted
<1>1. QueueTyped /\ Serial => EveryPassIsCounted
  BY DEF Serial, EveryPassIsCounted
<1>2. QED
  BY <1>1, AlwaysSerial, PTL

-----------------------------------------------------------------------------
(* The reviews in flight.  At most one runner reviews, so the queue's part *)
(* of the count is 0 or 1.                                                 *)

\* Cardinality is the same under either name.
LEMMA QueueCountsAlike == \A S : Queue!Cardinality(S) = Cardinality(S)
BY Zenon DEF Queue!Cardinality, Cardinality

Reviewers == {r \in Queue!Runners : at[r] = "reviewing"}

QueueCounted == reviewsInFlight = clicks + (IF Reviewers = {} THEN 0 ELSE 1)

LEMMA ReviewersCount ==
    ASSUME QueueTyped, Serial
    PROVE  Cardinality(Reviewers) = IF Reviewers = {} THEN 0 ELSE 1
<1>1. CASE Reviewers = {}
  BY <1>1, FS_EmptySet
<1>2. CASE Reviewers # {}
  <2>1. PICK r \in Queue!Runners : at[r] = "reviewing"
    BY <1>2 DEF Reviewers
  <2>2. Reviewers = {r}
    BY <2>1 DEF Reviewers, Serial, Queue!OnePassAtATime
  <2>3. QED
    BY <1>2, <2>2, FS_Singleton
<1>3. QED
  BY <1>1, <1>2

LEMMA QueueCountedPassStep ==
    ASSUME QueueTyped, Serial, QueueCounted, NEW r \in Queue!Runners, Queue!PassStep(r)
    PROVE  QueueCounted'
<1> USE DEF QueueTyped, Queue!TypeOK, Serial, Queue!OnePassAtATime, QueueCounted, Reviewers,
            Queue!Runners
<1>1. CASE Queue!Begin(r)
  BY <1>1 DEF Queue!Begin
<1>2. CASE Queue!Refuse(r)
  BY <1>2 DEF Queue!Refuse, Queue!Leave, Queue!activity
<1>3. CASE Queue!Malformed(r)
  BY <1>3 DEF Queue!Malformed, Queue!Leave
<1>4. CASE Queue!Review(r)
  BY <1>4 DEF Queue!Review
<1>5. ASSUME NEW b \in BOOLEAN, Queue!Answer(r, b) PROVE QueueCounted'
  BY <1>5 DEF Queue!Answer, Queue!Leave, Queue!LessOne
<1>6. QED
  BY <1>1, <1>2, <1>3, <1>4, <1>5 DEF Queue!PassStep

LEMMA QueueCountedStep ==
    ASSUME QueueTyped, Serial, QueueCounted, [Queue!Next]_(Queue!vars)
    PROVE  QueueCounted'
<1> USE DEF QueueTyped, Queue!TypeOK, Serial, Queue!OnePassAtATime, QueueCounted, Reviewers,
            Queue!Runners, Queue!runners, Queue!activity
<1>1. ASSUME NEW f \in FilesHere, Queue!Edit(f) PROVE QueueCounted'
  BY <1>1 DEF Queue!Edit
<1>2. ASSUME NEW f \in FilesHere, Queue!Drop(f) PROVE QueueCounted'
  BY <1>2 DEF Queue!Drop
<1>3. ASSUME NEW f \in FilesHere, Queue!Claim(f) PROVE QueueCounted'
  BY <1>3 DEF Queue!Claim
<1>4. ASSUME NEW f \in FilesHere, NEW take \in BOOLEAN, Queue!Pipe(f, take) PROVE QueueCounted'
  BY <1>4 DEF Queue!Pipe
<1>5. CASE Queue!RewriteHandler
  BY <1>5 DEF Queue!RewriteHandler
<1>6. ASSUME NEW arm \in BOOLEAN, NEW recovered \in SUBSET processing, Queue!Start(arm, recovered)
      PROVE QueueCounted'
  BY <1>6 DEF Queue!Start
<1>7. CASE Queue!Stop
  BY <1>7 DEF Queue!Stop
<1>8. CASE Queue!WatcherDies
  BY <1>8 DEF Queue!WatcherDies, Queue!LessOne
<1>9. CASE Queue!Settle
  BY <1>9 DEF Queue!Settle
<1>10. ASSUME NEW r \in Queue!Runners, Queue!PassStep(r) PROVE QueueCounted'
  BY <1>10, QueueCountedPassStep
<1>11. CASE Queue!Click
  BY <1>11 DEF Queue!Click
<1>12. CASE Queue!ClickAnswered
  BY <1>12 DEF Queue!ClickAnswered, Queue!LessOne
<1>13. CASE UNCHANGED Queue!vars
  BY <1>13 DEF Queue!vars
<1>14. QED
  BY <1>1, <1>2, <1>3, <1>4, <1>5, <1>6, <1>7, <1>8, <1>9, <1>10, <1>11, <1>12, <1>13 DEF
                                                                                          Queue!Next

\* reviews_in_flight is the number of reviews that run, the queue's and the
\* button's: no early return, failure or death of the watcher leaks one.
THEOREM ReviewsCounted == QueueSpec => []ReviewsAreCounted
<1>1. Queue!Init => QueueCounted
  BY DEF Queue!Init, QueueCounted, Reviewers
<1>2. QueueTyped /\ Serial /\ QueueCounted => ReviewsAreCounted
  BY ReviewersCount, QueueCountsAlike DEF QueueCounted, Reviewers, ReviewsAreCounted,
                                          Queue!ReviewsAreCounted
<1>3. QED
  BY <1>1, <1>2, AlwaysSerial, QueueCountedStep, QueueSteps, PTL DEF Queue!Spec

-----------------------------------------------------------------------------
(* No drop is forgotten.  The tuple in the reactor's hand is claimed; while *)
(* it is reviewed, and until it is settled, a later drop of its file shows *)
(* as a waiting tuple, or as one taken away by hand.                       *)

InTheHand == at["reactor"] # "idle" => file["reactor"] \in processing

Asked(f) == f \in inbox \union letdown

Remembered ==
    /\ \A f \in FilesHere : dropped[f] <= tree[f]
    /\ \A f \in FilesHere : f \in processing \/ Asked(f) \/ reviewed[f] >= dropped[f]
    /\ at["reactor"] = "reviewing" =>
          Asked(file["reactor"]) \/ seen["reactor"] >= dropped[file["reactor"]]
    /\ at["reactor"] = "ended" /\ ok =>
          Asked(file["reactor"]) \/ reviewed[file["reactor"]] >= dropped[file["reactor"]]

DropInv ==
    /\ ~up => \A r \in Queue!Runners : at[r] = "idle"
    /\ InTheHand
    /\ IsFiniteSet(processing)
    /\ Remembered

LEMMA DropInvPassStep ==
    ASSUME QueueTyped, DropInv, NEW r \in Queue!Runners, Queue!PassStep(r)
    PROVE  DropInv'
<1> USE DEF QueueTyped, Queue!TypeOK, InHand, DropInv, InTheHand, Remembered, Asked,
            Queue!Runners, Queue!stages, Queue!process, Queue!history
<1>1. CASE Queue!Begin(r)
  BY <1>1 DEF Queue!Begin
<1>2. CASE Queue!Refuse(r)
  BY <1>2 DEF Queue!Refuse, Queue!Leave
<1>3. CASE Queue!Malformed(r)
  BY <1>3 DEF Queue!Malformed, Queue!Leave
<1>4. CASE Queue!Review(r)
  BY <1>4 DEF Queue!Review
<1>5. ASSUME NEW b \in BOOLEAN, Queue!Answer(r, b) PROVE DropInv'
  BY <1>5 DEF Queue!Answer, Queue!Leave, Queue!Larger
<1>6. QED
  BY <1>1, <1>2, <1>3, <1>4, <1>5 DEF Queue!PassStep

LEMMA DropInvStep ==
    ASSUME QueueTyped, DropInv, [Queue!Next]_(Queue!vars)
    PROVE  DropInv'
<1> USE DEF QueueTyped, Queue!TypeOK, InHand, DropInv, InTheHand, Remembered, Asked,
            Queue!Runners, Queue!stages, Queue!process, Queue!runners, Queue!history
<1>1. ASSUME NEW f \in FilesHere, Queue!Edit(f) PROVE DropInv'
  BY <1>1 DEF Queue!Edit
<1>2. ASSUME NEW f \in FilesHere, Queue!Drop(f) PROVE DropInv'
  BY <1>2 DEF Queue!Drop
<1>3. ASSUME NEW f \in FilesHere, Queue!Claim(f) PROVE DropInv'
  <2>1. IsFiniteSet(processing')
    BY <1>3, FS_AddElement DEF Queue!Claim
  <2>2. QED
    BY <1>3, <2>1 DEF Queue!Claim
<1>4. ASSUME NEW f \in FilesHere, NEW take \in BOOLEAN, Queue!Pipe(f, take) PROVE DropInv'
  BY <1>4 DEF Queue!Pipe
<1>5. CASE Queue!RewriteHandler
  BY <1>5 DEF Queue!RewriteHandler
<1>6. ASSUME NEW arm \in BOOLEAN, NEW recovered \in SUBSET processing, Queue!Start(arm, recovered)
      PROVE DropInv'
  <2>1. IsFiniteSet(processing')
    BY <1>6, FS_Subset DEF Queue!Start
  <2>2. \A r \in Queue!Runners : at'[r] = "idle"
    BY <1>6 DEF Queue!Start
  <2>3. Remembered'
    BY <1>6, <2>2 DEF Queue!Start
  <2>4. QED
    BY <2>1, <2>2, <2>3
<1>7. CASE Queue!Stop
  BY <1>7 DEF Queue!Stop
<1>8. CASE Queue!WatcherDies
  BY <1>8 DEF Queue!WatcherDies
<1>9. CASE Queue!Settle
  <2>1. IsFiniteSet(processing')
    BY <1>9, FS_RemoveElement DEF Queue!Settle
  <2>2. InTheHand' /\ (~up' => \A r \in Queue!Runners : at'[r] = "idle")
    BY <1>9 DEF Queue!Settle
  <2>3. Remembered'
    BY <1>9 DEF Queue!Settle
  <2>4. QED
    BY <2>1, <2>2, <2>3
<1>10. ASSUME NEW r \in Queue!Runners, Queue!PassStep(r) PROVE DropInv'
  BY <1>10, DropInvPassStep
<1>11. CASE Queue!Click
  BY <1>11 DEF Queue!Click
<1>12. CASE Queue!ClickAnswered
  BY <1>12 DEF Queue!ClickAnswered
<1>13. CASE UNCHANGED Queue!vars
  BY <1>13 DEF Queue!vars
<1>14. QED
  BY <1>1, <1>2, <1>3, <1>4, <1>5, <1>6, <1>7, <1>8, <1>9, <1>10, <1>11, <1>12, <1>13 DEF
                                                                                          Queue!Next

LEMMA DropInvInit == Queue!Init => DropInv
BY FS_EmptySet DEF Queue!Init, DropInv, InTheHand, Remembered, Asked, Queue!Runners

LEMMA AlwaysDropInv == QueueSpec => [](QueueTyped /\ Serial /\ DropInv)
BY AlwaysSerial, DropInvInit, DropInvStep, QueueSteps, PTL DEF Queue!Spec

\* A file that is neither waiting nor claimed, and whose tuple was neither
\* dead-lettered nor taken away by hand, has been reviewed at the version of its
\* last drop or a later one, whatever stops, starts and drops came between.
THEOREM NoDropIsForgotten == QueueSpec => []NewestDropIsReviewed
<1>1. QueueTyped /\ Serial /\ DropInv => NewestDropIsReviewed
  BY DEF DropInv, Remembered, Asked, NewestDropIsReviewed, Queue!NewestDropIsReviewed
<1>2. QED
  BY <1>1, AlwaysDropInv, PTL

-----------------------------------------------------------------------------
(* The depth.  What an open look has listed is one more than what was      *)
(* abandoned when a tuple was in the reactor's hand, and is still all that *)
(* is claimed unless a tuple has moved.                                    *)

Listed ==
    /\ look \in [open : BOOLEAN, listed : Nat, abandoned : Nat, moved : BOOLEAN]
    /\ look.open =>
        /\ look.listed \in {look.abandoned, look.abandoned + 1}
        /\ look.moved \/ look.listed = Cardinality(processing)

LEMMA ClaimedAreCounted ==
    ASSUME QueueTyped, DropInv
    PROVE  /\ Cardinality(processing) \in Nat
           /\ Cardinality(Queue!Abandoned) \in Nat
           /\ IF at["reactor"] = "idle"
              THEN Queue!Abandoned = processing
              ELSE Cardinality(processing) = Cardinality(Queue!Abandoned) + 1
<1>1. Cardinality(processing) \in Nat /\ IsFiniteSet(processing)
  BY FS_CardinalityType DEF DropInv
<1>2. CASE at["reactor"] = "idle"
  <2>1. processing \ {file["reactor"]} = processing
    BY <1>2, QueueBounds DEF QueueTyped, Queue!TypeOK, InHand, Queue!Runners,
                             Queue!QueueConstants
  <2>2. QED
    BY <1>1, <1>2, <2>1 DEF Queue!Abandoned
<1>3. CASE at["reactor"] # "idle"
  <2>1. file["reactor"] \in processing
    BY <1>3 DEF DropInv, InTheHand
  <2>2. Cardinality(Queue!Abandoned) = Cardinality(processing) - 1
    BY <1>1, <2>1, FS_RemoveElement DEF Queue!Abandoned
  <2>3. Cardinality(Queue!Abandoned) \in Nat
    BY <1>1, FS_RemoveElement, FS_CardinalityType DEF Queue!Abandoned
  <2>4. QED
    BY <1>1, <1>3, <2>2, <2>3
<1>4. QED
  BY <1>2, <1>3

LEMMA ListedStep ==
    ASSUME QueueTyped, DropInv, Listed, [Queue!DepthNext]_(Queue!depthVars)
    PROVE  Listed'
<1>1. CASE Queue!List
  <2>1. look' = [open |-> TRUE, listed |-> Cardinality(processing),
                 abandoned |-> Cardinality(Queue!Abandoned), moved |-> FALSE]
    BY <1>1, QueueCountsAlike DEF Queue!List
  <2>2. Cardinality(processing) \in {Cardinality(Queue!Abandoned),
                                     Cardinality(Queue!Abandoned) + 1}
    BY ClaimedAreCounted
  <2>3. processing' = processing
    BY <1>1 DEF Queue!List, Queue!vars, Queue!stages
  <2>4. QED
    BY <2>1, <2>2, <2>3, ClaimedAreCounted DEF Listed
<1>2. CASE Queue!Answered
  BY <1>2 DEF Queue!Answered, Queue!NoLook, Listed
<1>3. CASE Queue!QueueStep
  <2>1. CASE look.open /\ up'
    <3>1. look' = [look EXCEPT !.moved = @ \/ processing' # processing]
      BY <1>3, <2>1 DEF Queue!QueueStep
    <3>2. /\ look'.open = look.open /\ look'.listed = look.listed
          /\ look'.abandoned = look.abandoned
      BY <3>1
    <3>3. look'.moved = (look.moved \/ processing' # processing)
      BY <3>1 DEF Listed
    <3>4. look' \in [open : BOOLEAN, listed : Nat, abandoned : Nat, moved : BOOLEAN]
      BY <3>1 DEF Listed
    <3>5. QED
      BY <2>1, <3>2, <3>3, <3>4 DEF Listed
  <2>2. CASE ~(look.open /\ up')
    BY <1>3, <2>2 DEF Queue!QueueStep, Queue!NoLook, Listed
  <2>3. QED
    BY <2>1, <2>2
<1>4. CASE UNCHANGED Queue!depthVars
  BY <1>4 DEF Queue!depthVars, Queue!vars, Queue!stages, Listed
<1>5. QED
  BY <1>1, <1>2, <1>3, <1>4 DEF Queue!DepthNext

\* What the depth answers as lost, from two looks between which the queue goes on, is the
\* number of claimed tuples nobody works on as it answers, outside the edges trigger.rs
\* names (Status::lost) and but for a tuple that moved between the looks, across which it
\* is one off at most.
THEOREM LostTellsTheTruth == QueueSpec => []LostIsTrue
<1>1. Queue!DepthInit => Listed
  BY DEF Queue!DepthInit, Queue!NoLook, Listed
<1>2. ASSUME QueueTyped, Serial, DropInv, Listed PROVE LostIsTrue
  <2> SUFFICES ASSUME look.open, at["reactor"] \notin {"holding", "ended"}, slot # "person",
                      ~(/\ look.moved
                        /\ Queue!Lost \in {look.abandoned - 1, look.abandoned,
                                           look.abandoned + 1})
               PROVE  Queue!Lost = Cardinality(Queue!Abandoned)
    BY QueueCountsAlike DEF LostIsTrue, Queue!LostIsTrue
  <2>1. look.listed \in Nat /\ look.abandoned \in Nat
        /\ look.listed \in {look.abandoned, look.abandoned + 1}
    BY <1>2 DEF Listed
  <2>2. Queue!Lost \in {look.abandoned - 1, look.abandoned, look.abandoned + 1}
    BY <2>1 DEF Queue!Lost, Queue!LessOne
  <2>3. look.listed = Cardinality(processing)
    BY <1>2, <2>2 DEF Listed
  <2>4. CASE at["reactor"] = "idle"
    <3>1. slot = "free"
      BY <1>2, <2>4 DEF QueueTyped, Queue!TypeOK, Serial, Queue!OnePassAtATime, Queue!Runners
    <3>2. QED
      BY <1>2, <2>3, <2>4, <3>1, ClaimedAreCounted DEF Queue!Lost
  <2>5. CASE at["reactor"] \in {"begun", "reviewing"}
    <3>1. slot # "free"
      BY <1>2, <2>5 DEF Serial, Queue!OnePassAtATime, Queue!Runners
    <3>2. QED
      BY <1>2, <2>3, <2>5, <3>1, ClaimedAreCounted DEF Queue!Lost, Queue!LessOne
  <2>6. QED
    BY <1>2, <2>4, <2>5 DEF QueueTyped, Queue!TypeOK, Queue!Runners
<1>3. QED
  BY <1>1, <1>2, ListedStep, AlwaysDropInv, PTL DEF QueueSpec, Queue!DepthSpec

-----------------------------------------------------------------------------
(* The backfill's type correctness.                                        *)

LEMMA TypedRecorded ==
    ASSUME TypeOK, NEW c \in Callers, NEW f \in Findings,
           NEW column \in {"judged", "already", "cannot", "failed"}, Recorded(c, f, column)
    PROVE  /\ tally' \in [Counters -> Nat]
           /\ unjudgeable' \subseteq Findings
           /\ work' \in [Callers -> SUBSET Findings]
           /\ walk' \in [Callers -> Walking \union {"none"}]
<1> USE DEF TypeOK, Recorded, Walking, Counters
<1>1. unjudgeable' \subseteq Findings
  OBVIOUS
<1>2. work' \in [Callers -> SUBSET Findings] /\ walk' \in [Callers -> Walking \union {"none"}]
  OBVIOUS
<1>3. tally' \in [Counters -> Nat]
  OBVIOUS
<1>4. QED
  BY <1>1, <1>2, <1>3

LEMMA TypedStep ==
    ASSUME TypeOK, [Next]_vars
    PROVE  TypeOK'
<1> USE Constants DEF TypeOK, Live, Walking, env, record, hist, NoTally, Counters
<1>1. ASSUME NEW c \in Callers, CallStep(c) PROVE TypeOK'
  <2>1. CASE StartClaim(c)
    <3>1. tally' \in [Counters -> Nat]
      BY <2>1 DEF StartClaim
    <3>2. phase' \in Live /\ call' \in [Callers -> {"idle", "claimed", "cleared", "stopping"}]
      BY <2>1 DEF StartClaim
    <3>3. runs' \in Nat /\ started' \in Nat
      BY <2>1 DEF StartClaim
    <3>4. asked' \in BOOLEAN
      BY <2>1, Zenon DEF StartClaim
    <3>5. QED
      BY <2>1, <3>1, <3>2, <3>3, <3>4 DEF StartClaim
  <2>2. CASE StartClear(c)
    BY <2>2 DEF StartClear
  <2>3. CASE StartSpawn(c)
    BY <2>3 DEF StartSpawn
  <2>4. CASE StopStore(c)
    BY <2>4 DEF StopStore
  <2>5. CASE StopPhase(c)
    BY <2>5 DEF StopPhase
  <2>6. QED
    BY <1>1, <2>1, <2>2, <2>3, <2>4, <2>5 DEF CallStep
<1>2. ASSUME NEW c \in Callers, WalkStep(c) PROVE TypeOK'
  <2>1. CASE List(c)
    <3>1. PICK listed \in SUBSET Findings : /\ work' = [work EXCEPT ![c] = listed]
                                            /\ tally' = [tally EXCEPT !.total = Cardinality(listed)]
      BY <2>1 DEF List
    <3>2. Cardinality(listed) \in Nat
      BY <3>1, FS_Subset, FS_CardinalityType
    <3>3. QED
      BY <2>1, <3>1, <3>2 DEF List
  <2>2. CASE CheckStop(c)
    BY <2>2 DEF CheckStop
  <2>6. CASE Yield(c) \/ SeeNoPass(c) \/ SeeNoQueue(c)
    BY <2>6 DEF Yield, SeeNoPass, SeeNoQueue
  <2>7. CASE Go(c)
    BY <2>7 DEF Go
  <2>3. ASSUME NEW f \in Findings, AskExists(c, f) PROVE TypeOK'
    <3>1. CASE \E column \in {"already", "failed"} : Recorded(c, f, column)
      BY <2>3, <3>1, TypedRecorded DEF AskExists
    <3>2. CASE f \notin verdicts /\ walk' = [walk EXCEPT ![c] = "judge"]
               /\ work' = work /\ UNCHANGED <<tally, unjudgeable>>
      BY <2>3, <3>2 DEF AskExists
    <3>3. QED
      BY <2>3, <3>1, <3>2 DEF AskExists
  <2>4. ASSUME NEW f \in Findings, Judge(c, f) PROVE TypeOK'
    <3>1. \E column \in {"judged", "already", "cannot", "failed"} : Recorded(c, f, column)
      BY <2>4 DEF Judge
    <3>2. verdicts' \subseteq Findings /\ UNCHANGED <<env, phase, stop, call, runs, hist>>
      BY <2>4 DEF Judge
    <3>3. QED
      BY <3>1, <3>2, TypedRecorded
  <2>5. QED
    BY <1>2, <2>1, <2>2, <2>3, <2>4, <2>6, <2>7 DEF WalkStep
<1>3. ASSUME NEW f \in Findings, OthersJudge(f) PROVE TypeOK'
  BY <1>3 DEF OthersJudge
<1>4. CASE ReviewsComeAndGo
  BY <1>4 DEF ReviewsComeAndGo
<1>5. CASE Restart
  BY <1>5 DEF Restart, Forget
<1>6. CASE UNCHANGED vars
  BY <1>6 DEF vars
<1>7. QED
  BY <1>1, <1>2, <1>3, <1>4, <1>5, <1>6 DEF Next, BackfillNext

\* The backfill is well typed for any callers and findings: no counter is ever negative.
THEOREM BackfillTyping == Spec => []TypeOK
<1>1. ASSUME Init PROVE TypeOK
  <2> USE DEF Init, TypeOK, Live, Walking
  <2>1. tally \in [Counters -> Nat]
    BY <1>1 DEF NoTally
  <2>2. passRunning \in BOOLEAN /\ queueWaits \in BOOLEAN /\ stop \in BOOLEAN /\ asked \in BOOLEAN
    BY <1>1
  <2>3. QED
    BY <1>1, <2>1, <2>2
<1>2. TypeOK /\ [Next]_vars => TypeOK'
  BY TypedStep
<1>3. QED
  BY <1>1, <1>2, PTL DEF Spec

-----------------------------------------------------------------------------
(* One walk at a time.  A start that has claimed the record is as good as  *)
(* its walk: the record is live through both, and a caller that is in the  *)
(* middle of a call has no walk of its own.                                *)

Starting(c) == call[c] \in {"claimed", "cleared"}
Busy(c) == walk[c] # "none" \/ Starting(c)

Alone ==
    /\ \A c, d \in Callers : Busy(c) /\ Busy(d) => c = d
    /\ \A c \in Callers : Busy(c) => phase \in Live
    /\ \A c \in Callers : call[c] # "idle" => walk[c] = "none"

LEMMA AloneCall ==
    ASSUME TypeOK, Alone, NEW c \in Callers, CallStep(c)
    PROVE  Alone'
<1> USE DEF Alone, Busy, Starting, TypeOK, record, Walking
<1>1. CASE StartClaim(c)
  <2>1. \A d \in Callers : ~Busy(d)
    BY <1>1 DEF StartClaim
  <2>2. \A d \in Callers : Busy(d)' => d = c
    BY <1>1, <2>1 DEF StartClaim
  <2>3. phase' \in Live /\ walk'[c] = "none"
    BY <1>1 DEF StartClaim, Live
  <2>4. \A d \in Callers : call'[d] # "idle" => walk'[d] = "none"
    BY <1>1 DEF StartClaim
  <2>5. QED
    BY <2>2, <2>3, <2>4
<1>2. CASE StartClear(c)
  BY <1>2 DEF StartClear
<1>3. CASE StartSpawn(c)
  <2>1. Busy(c) /\ \A d \in Callers : Busy(d)' => d = c
    BY <1>3 DEF StartSpawn
  <2>2. Busy(c)' => phase' \in Live
    BY <1>3, <2>1 DEF StartSpawn
  <2>3. \A d \in Callers : call'[d] # "idle" => walk'[d] = "none"
    BY <1>3 DEF StartSpawn
  <2>4. QED
    BY <2>1, <2>2, <2>3
<1>4. CASE StopStore(c)
  BY <1>4 DEF StopStore
<1>5. CASE StopPhase(c)
  <2>1. phase \in Live => phase' \in Live
    BY <1>5 DEF StopPhase, Live
  <2>2. \A d \in Callers : Busy(d)' => Busy(d)
    BY <1>5 DEF StopPhase
  <2>3. \A d \in Callers : call'[d] # "idle" => walk'[d] = "none"
    BY <1>5 DEF StopPhase
  <2>4. QED
    BY <2>1, <2>2, <2>3
<1>6. QED
  BY <1>1, <1>2, <1>3, <1>4, <1>5 DEF CallStep

LEMMA AloneWalk ==
    ASSUME TypeOK, Alone, NEW c \in Callers, WalkStep(c)
    PROVE  Alone'
<1> USE DEF Alone, Busy, Starting, TypeOK, record, Walking
<1>1. walk[c] # "none" /\ call' = call /\ \A d \in Callers : d # c => walk'[d] = walk[d]
  BY DEF WalkStep, List, CheckStop, Yield, SeeNoPass, SeeNoQueue, Go, AskExists, Judge, Recorded
<1>2. \A d \in Callers : Busy(d)' => d = c
  BY <1>1
<1>3. call[c] = "idle"
  BY <1>1
<1>4. walk'[c] # "none" => phase' \in Live
  <2>1. CASE List(c) \/ CheckStop(c) \/ Yield(c) \/ Go(c)
    BY <1>1, <2>1 DEF List, CheckStop, Yield, Go, Live
  <2>2. CASE SeeNoPass(c) \/ SeeNoQueue(c) \/ \E f \in Findings : AskExists(c, f) \/ Judge(c, f)
    <3>1. phase' = phase
      BY <2>2 DEF SeeNoPass, SeeNoQueue, AskExists, Judge
    <3>2. QED
      BY <1>1, <3>1
  <2>3. QED
    BY <2>1, <2>2 DEF WalkStep
<1>5. QED
  BY <1>1, <1>2, <1>3, <1>4

LEMMA AloneStep ==
    ASSUME TypeOK, Alone, [Next]_vars
    PROVE  Alone'
<1>1. ASSUME NEW f \in Findings, OthersJudge(f) PROVE Alone'
  BY <1>1 DEF OthersJudge, Alone, Busy, Starting, record
<1>2. CASE ReviewsComeAndGo
  BY <1>2 DEF ReviewsComeAndGo, Alone, Busy, Starting, record
<1>3. CASE Restart
  BY <1>3 DEF Restart, Forget, Alone, Busy, Starting
<1>4. CASE UNCHANGED vars
  BY <1>4 DEF vars, record, Alone, Busy, Starting
<1>5. QED
  BY <1>1, <1>2, <1>3, <1>4, AloneCall, AloneWalk DEF Next, BackfillNext

LEMMA AlwaysAlone == Spec => []Alone
<1>1. Init => Alone
  BY DEF Init, Alone, Busy, Starting
<1>2. TypeOK /\ Alone /\ [Next]_vars => Alone'
  BY AloneStep
<1>3. QED
  BY <1>1, <1>2, BackfillTyping, PTL DEF Spec

\* However many callers start and stop, one run at a time is started or walked, and while one
\* walks the record is live.
THEOREM WalksAreSerial == Spec => []OneWalk
<1>1. Alone => OneWalk
  BY DEF Alone, Busy, Starting, OneWalk, Walked
<1>2. QED
  BY <1>1, AlwaysAlone, PTL

-----------------------------------------------------------------------------
(* The tally.  It is that of the one walk: blank until the listing, and    *)
(* from then on what was walked and what is left make the total.           *)

Summed == tally.done = tally.judged + tally.already + tally.cannot + tally.failed

Left(c) ==
    /\ Starting(c) \/ walk[c] = "list" => tally = NoTally
    /\ walk[c] \notin {"none", "list"} => tally.total = tally.done + Cardinality(work[c])

Tallied == Summed /\ \A c \in Callers : Left(c)

\* One finding recorded is one more walked and one fewer left.
LEMMA TalliedRecorded ==
    ASSUME TypeOK, Tallied, NEW c \in Callers, walk[c] \in {"exists", "judge"},
           NEW f \in work[c],
           NEW column \in {"judged", "already", "cannot", "failed"}, Recorded(c, f, column)
    PROVE  Summed' /\ tally'.total = tally'.done + Cardinality(work'[c])
<1> USE DEF TypeOK, Counters
<1>1. IsFiniteSet(work[c])
  BY Constants, FS_Subset
<1>2. /\ Cardinality(work[c] \ {f}) = Cardinality(work[c]) - 1
      /\ Cardinality(work[c]) \in Nat
  BY <1>1, FS_RemoveElement, FS_CardinalityType
<1>3. work'[c] = work[c] \ {f}
  BY DEF Recorded
<1>4. tally.total = tally.done + Cardinality(work[c])
  BY DEF Tallied, Left
<1>5. tally'.done = tally.done + 1 /\ tally'.total = tally.total
  BY DEF Recorded
<1>6. tally'.total = tally'.done + Cardinality(work'[c])
  BY <1>2, <1>3, <1>4, <1>5
<1>7. Summed'
  BY DEF Recorded, Tallied, Summed
<1>8. QED
  BY <1>6, <1>7

LEMMA TalliedWalk ==
    ASSUME TypeOK, Alone, Tallied, NEW c \in Callers, WalkStep(c)
    PROVE  Tallied'
<1> USE DEF Starting, Busy, record, TypeOK, Counters
<1>1. walk[c] # "none" /\ call' = call
      /\ \A d \in Callers : d # c => walk'[d] = walk[d] /\ work'[d] = work[d]
  BY DEF WalkStep, List, CheckStop, Yield, SeeNoPass, SeeNoQueue, Go, AskExists, Judge, Recorded
<1>2. \A d \in Callers : d # c => walk[d] = "none" /\ ~Starting(d)
  BY <1>1 DEF Alone
<1>3. \A d \in Callers : d # c => Left(d)'
  BY <1>1, <1>2 DEF Left
<1>4. ~Starting(c)
  BY <1>1 DEF Alone
<1>5. ASSUME Summed', walk'[c] # "list",
             walk'[c] # "none" => tally'.total = tally'.done + Cardinality(work'[c])
      PROVE  Tallied'
  BY <1>1, <1>3, <1>4, <1>5 DEF Tallied, Left
<1>6. CASE List(c)
  <2>1. PICK listed \in SUBSET Findings : /\ work' = [work EXCEPT ![c] = listed]
                                          /\ tally' = [tally EXCEPT !.total = Cardinality(listed)]
    BY <1>6 DEF List
  <2>2. tally = NoTally /\ Cardinality(listed) \in Nat
    BY <1>6, Constants, FS_Subset, FS_CardinalityType DEF List, Tallied, Left
  <2>3. /\ tally'.total = Cardinality(work'[c]) /\ tally'.done = 0
        /\ tally'.judged = 0 /\ tally'.already = 0 /\ tally'.cannot = 0 /\ tally'.failed = 0
    BY <2>1, <2>2 DEF NoTally
  <2>4. walk'[c] = "check"
    BY <1>6 DEF List
  <2>5. QED
    BY <1>5, <2>1, <2>2, <2>3, <2>4 DEF Summed
<1>7. CASE CheckStop(c) \/ Yield(c) \/ SeeNoPass(c) \/ SeeNoQueue(c) \/ Go(c)
  <2>1. tally' = tally /\ walk'[c] # "list" /\ walk[c] # "list"
    BY <1>7 DEF CheckStop, Yield, SeeNoPass, SeeNoQueue, Go
  <2>2. walk'[c] # "none" => work'[c] = work[c]
    BY <1>7 DEF CheckStop, Yield, SeeNoPass, SeeNoQueue, Go
  <2>3. QED
    BY <1>1, <1>5, <2>1, <2>2 DEF Tallied, Left, Summed
<1>8. ASSUME NEW f \in Findings, AskExists(c, f) \/ Judge(c, f) PROVE Tallied'
  <2>1. f \in work[c] /\ walk[c] \in {"exists", "judge"}
    BY <1>8 DEF AskExists, Judge
  <2>2. CASE \E column \in {"judged", "already", "cannot", "failed"} : Recorded(c, f, column)
    <3>1. Summed' /\ tally'.total = tally'.done + Cardinality(work'[c])
      BY <2>1, <2>2, TalliedRecorded
    <3>2. walk'[c] = "check"
      BY <2>2 DEF Recorded
    <3>3. QED
      BY <1>5, <3>1, <3>2
  <2>3. CASE walk'[c] = "judge" /\ work' = work /\ tally' = tally
    BY <1>5, <2>1, <2>3 DEF Tallied, Left, Summed
  <2>4. QED
    BY <1>8, <2>2, <2>3 DEF AskExists, Judge
<1>9. QED
  BY <1>6, <1>7, <1>8 DEF WalkStep

LEMMA TalliedCall ==
    ASSUME TypeOK, Alone, Tallied, NEW c \in Callers, CallStep(c)
    PROVE  Tallied'
<1> USE DEF Starting, Busy, record, TypeOK, Counters
<1>1. CASE StartClaim(c)
  <2>1. Summed' /\ tally' = NoTally
    BY <1>1 DEF StartClaim, Summed, NoTally
  <2>2. \A d \in Callers : walk[d] = "none"
    BY <1>1 DEF StartClaim, Alone
  <2>3. QED
    BY <1>1, <2>1, <2>2 DEF StartClaim, Tallied, Left
<1>2. CASE StartClear(c)
  BY <1>2 DEF StartClear, Tallied, Left, Summed
<1>3. CASE StartSpawn(c)
  <2>1. tally' = tally /\ work' = work /\ Starting(c)
    BY <1>3 DEF StartSpawn
  <2>2. tally = NoTally
    BY <2>1 DEF Tallied, Left
  <2>3. \A d \in Callers : walk'[d] \in {walk[d], "list"}
    BY <1>3 DEF StartSpawn
  <2>4. QED
    BY <2>1, <2>2, <2>3 DEF Tallied, Left, Summed
<1>4. CASE StopStore(c) \/ StopPhase(c)
  <2>1. tally' = tally /\ work' = work /\ walk' = walk
    BY <1>4 DEF StopStore, StopPhase
  <2>2. \A d \in Callers : Starting(d)' => Starting(d)
    BY <1>4 DEF StopStore, StopPhase
  <2>3. QED
    BY <2>1, <2>2 DEF Tallied, Left, Summed
<1>5. QED
  BY <1>1, <1>2, <1>3, <1>4 DEF CallStep

LEMMA TalliedStep ==
    ASSUME TypeOK, Alone, Tallied, [Next]_vars
    PROVE  Tallied'
<1> USE DEF Tallied, Left, Summed, Starting, record
<1>1. ASSUME NEW f \in Findings, OthersJudge(f) PROVE Tallied'
  BY <1>1 DEF OthersJudge
<1>2. CASE ReviewsComeAndGo
  BY <1>2 DEF ReviewsComeAndGo
<1>3. CASE Restart
  BY <1>3 DEF Restart, Forget, NoTally, Counters
<1>4. CASE UNCHANGED vars
  BY <1>4 DEF vars
<1>5. QED
  BY <1>1, <1>2, <1>3, <1>4, TalliedCall, TalliedWalk DEF Next, BackfillNext

\* Of any listing, each finding walked is in exactly one column of the record, and what is left
\* to walk is what the record says remains.
THEOREM TallyHolds == Spec => []TallyAddsUp
<1>1. Init => Tallied
  BY DEF Init, Tallied, Left, Summed, Starting, NoTally, Counters
<1>2. TypeOK /\ Alone /\ Tallied /\ [Next]_vars => Tallied'
  BY TalliedStep
<1>3. Tallied => TallyAddsUp
  BY DEF Tallied, Left, Summed, TallyAddsUp
<1>4. QED
  BY <1>1, <1>2, <1>3, BackfillTyping, AlwaysAlone, PTL DEF Spec

-----------------------------------------------------------------------------
(* Beside the queue, for any files, callers, findings and bounds: the      *)
(* backfill sees of the queue what its environment may do at any moment,   *)
(* so each step of the two is one of Backfill's, or a stutter.             *)

\* The two looks are at Booleans, and at a start neither sees anything.
LEMMA LooksAreBoolean ==
    /\ Beside!InFlight \in BOOLEAN /\ Beside!Waits \in BOOLEAN
    /\ Beside!Queue!Init => Beside!InFlight = FALSE /\ Beside!Waits = FALSE
<1>1. Beside!InFlight \in BOOLEAN
  BY Zenon DEF Beside!InFlight
<1>2. Beside!Waits \in BOOLEAN
  BY Zenon DEF Beside!Waits
<1>3. ASSUME Beside!Queue!Init PROVE Beside!InFlight = FALSE
  <2>1. ~(slot # "free" \/ reviewsInFlight > 0)
    BY <1>3 DEF Beside!Queue!Init
  <2>2. QED
    BY <2>1, Zenon DEF Beside!InFlight
<1>4. ASSUME Beside!Queue!Init PROVE Beside!Waits = FALSE
  <2>1. ~(up /\ armed /\ inbox # {})
    BY <1>4, Zenon DEF Beside!Queue!Init
  <2>2. QED
    BY <2>1, Zenon DEF Beside!Waits
<1>5. QED
  BY <1>1, <1>2, <1>3, <1>4

LEMMA BesideStep ==
    ASSUME [Beside!Next]_besideVars
    PROVE  [Beside!Judging!Next]_(Beside!Judging!vars)
<1>1. Beside!InFlight' \in BOOLEAN /\ Beside!Waits' \in BOOLEAN
  <2>1. Beside!InFlight' \in BOOLEAN
    BY Zenon DEF Beside!InFlight
  <2>2. Beside!Waits' \in BOOLEAN
    BY Zenon DEF Beside!Waits
  <2>3. QED
    BY <2>1, <2>2
<1>2. CASE Beside!QueueStep
  <2>1. Beside!Judging!ReviewsComeAndGo
    BY <1>1, <1>2 DEF Beside!QueueStep, Beside!backfillVars, Beside!Judging!ReviewsComeAndGo,
                      Beside!Judging!record, Beside!Judging!hist
  <2>2. QED
    BY <2>1 DEF Beside!Judging!Next
<1>3. CASE Beside!BackfillStep
  BY <1>3 DEF Beside!BackfillStep, Beside!Judging!Next
<1>4. CASE Beside!Stop
  BY <1>1, <1>4 DEF Beside!Stop, Beside!Judging!Restart, Beside!Judging!Next
<1>5. CASE UNCHANGED besideVars
  <2>1. Beside!InFlight' = Beside!InFlight /\ Beside!Waits' = Beside!Waits
    BY <1>5 DEF besideVars, Beside!InFlight, Beside!Waits
  <2>2. QED
    BY <1>5, <2>1 DEF besideVars, Beside!Judging!vars, Beside!Judging!env, Beside!Judging!record,
                      Beside!Judging!hist
<1>6. QED
  BY <1>2, <1>3, <1>4, <1>5 DEF Beside!Next

LEMMA BesideRefines == PartsSpec => Beside!ImplementsBackfill
<1>1. Beside!Init => Beside!Judging!Init
  BY DEF Beside!Init
<1>2. [PartsNext]_<<part, vars, besideVars>> => [Beside!Judging!Next]_(Beside!Judging!vars)
  BY BesideStep DEF PartsNext
<1>3. PartsInit => Beside!Init
  BY DEF PartsInit
<1>4. QED
  BY <1>1, <1>2, <1>3, PTL DEF PartsSpec, Beside!ImplementsBackfill, Beside!Judging!Spec

-----------------------------------------------------------------------------
(* One call of the judge a pass: a pass that has met one keeps the walk    *)
(* from the looks on until it ends, and there is one walk.                 *)

BusyHere(c) == walkHere[c] # "none" \/ callHere[c] \in {"claimed", "cleared"}

\* What Alone and TypeOK say of the walk beside the queue.
AloneHere ==
    /\ callHere \in [CallersHere -> {"idle", "claimed", "cleared", "stopping"}]
    /\ walkHere \in [CallersHere -> Walking \union {"none"}]
    /\ \A c, d \in CallersHere : BusyHere(c) /\ BusyHere(d) => c = d
    /\ \A c \in CallersHere : BusyHere(c) => phaseHere \in Live
    /\ \A c \in CallersHere : callHere[c] # "idle" => walkHere[c] = "none"

LEMMA AloneHereCall ==
    ASSUME AloneHere, NEW c \in CallersHere, Beside!Judging!CallStep(c)
    PROVE  AloneHere'
<1> USE DEF AloneHere, BusyHere, Walking, Beside!Judging!record
<1>1. CASE Beside!Judging!StartClaim(c)
  <2>1. \A d \in CallersHere : ~BusyHere(d)
    BY <1>1 DEF Beside!Judging!StartClaim, Beside!Judging!Live, Live
  <2>2. \A d \in CallersHere : BusyHere(d)' => d = c
    BY <1>1, <2>1 DEF Beside!Judging!StartClaim
  <2>3. phaseHere' \in Live /\ walkHere'[c] = "none"
    BY <1>1 DEF Beside!Judging!StartClaim, Live
  <2>4. QED
    BY <1>1, <2>2, <2>3 DEF Beside!Judging!StartClaim
<1>2. CASE Beside!Judging!StartClear(c)
  BY <1>2 DEF Beside!Judging!StartClear
<1>3. CASE Beside!Judging!StartSpawn(c)
  <2>1. BusyHere(c) /\ \A d \in CallersHere : BusyHere(d)' => d = c
    BY <1>3 DEF Beside!Judging!StartSpawn
  <2>2. BusyHere(c)' => phaseHere' \in Live
    BY <1>3, <2>1 DEF Beside!Judging!StartSpawn
  <2>3. QED
    BY <1>3, <2>1, <2>2 DEF Beside!Judging!StartSpawn
<1>4. CASE Beside!Judging!StopStore(c)
  BY <1>4 DEF Beside!Judging!StopStore
<1>5. CASE Beside!Judging!StopPhase(c)
  <2>1. phaseHere \in Live => phaseHere' \in Live
    BY <1>5 DEF Beside!Judging!StopPhase, Beside!Judging!Live, Live
  <2>2. \A d \in CallersHere : BusyHere(d)' => BusyHere(d)
    BY <1>5 DEF Beside!Judging!StopPhase
  <2>3. QED
    BY <1>5, <2>1, <2>2 DEF Beside!Judging!StopPhase
<1>6. QED
  BY <1>1, <1>2, <1>3, <1>4, <1>5 DEF Beside!Judging!CallStep

\* One step of a walk: where it may come to, and from where.
LEMMA WalkHere ==
    ASSUME AloneHere, NEW c \in CallersHere, Beside!Judging!WalkStep(c)
    PROVE  /\ walkHere[c] # "none" /\ callHere' = callHere
           /\ walkHere' \in [CallersHere -> Walking \union {"none"}]
           /\ \A d \in CallersHere : d # c => walkHere'[d] = walkHere[d]
           /\ walkHere'[c] = "judge" => walkHere[c] = "exists"
           /\ walkHere'[c] \in {"go", "exists"} => walkHere[c] \in {"queue", "go"}
           /\ walkHere'[c] = "queue" => walkHere[c] = "look" /\ ~Beside!InFlight
           /\ walkHere'[c] # "none" /\ phaseHere \in Live => phaseHere' \in Live
<1> USE DEF AloneHere, Walking, Beside!Judging!record
<1>1. CASE Beside!Judging!List(c) \/ Beside!Judging!CheckStop(c) \/ Beside!Judging!Yield(c)
           \/ Beside!Judging!Go(c)
  BY <1>1 DEF Beside!Judging!List, Beside!Judging!CheckStop, Beside!Judging!Yield,
              Beside!Judging!Go, Live
<1>2. CASE Beside!Judging!SeeNoPass(c) \/ Beside!Judging!SeeNoQueue(c)
  BY <1>2 DEF Beside!Judging!SeeNoPass, Beside!Judging!SeeNoQueue
<1>3. ASSUME NEW f \in FindingsHere,
             Beside!Judging!AskExists(c, f) \/ Beside!Judging!Judge(c, f)
      PROVE  /\ walkHere[c] \in {"exists", "judge"} /\ UNCHANGED <<callHere, phaseHere>>
             /\ \/ walkHere' = [walkHere EXCEPT ![c] = "check"]
                \/ walkHere[c] = "exists" /\ walkHere' = [walkHere EXCEPT ![c] = "judge"]
  BY <1>3 DEF Beside!Judging!AskExists, Beside!Judging!Judge, Beside!Judging!Recorded
<1>4. CASE \E f \in FindingsHere : Beside!Judging!AskExists(c, f) \/ Beside!Judging!Judge(c, f)
  BY <1>3, <1>4
<1>5. QED
  BY <1>1, <1>2, <1>4 DEF Beside!Judging!WalkStep

LEMMA AloneHereWalk ==
    ASSUME AloneHere, NEW c \in CallersHere, Beside!Judging!WalkStep(c)
    PROVE  AloneHere'
<1>1. \A d \in CallersHere : BusyHere(d)' => d = c
  BY WalkHere DEF AloneHere, BusyHere
<1>2. callHere[c] = "idle" /\ phaseHere \in Live
  BY WalkHere DEF AloneHere, BusyHere
<1>3. QED
  BY <1>1, <1>2, WalkHere DEF AloneHere, BusyHere

\* What a pass has met so far, and what is not to be met by it any more.
Delayed ==
    /\ slot = "free" => delays = 0
    /\ delays \in {0, 1}
    /\ slot # "free" /\ delays = 0 => \A c \in CallersHere : walkHere[c] # "judge"
    /\ slot # "free" /\ delays = 1 =>
         \A c \in CallersHere : walkHere[c] \notin {"queue", "go", "exists"}

\* Cardinality is the same under either name.
LEMMA CountsAlike == \A S : Beside!Cardinality(S) = Cardinality(S)
BY Zenon DEF Beside!Cardinality, Cardinality

\* Of one walk at most, the calls of the judge are none or one.
LEMMA CallsAreFew ==
    ASSUME AloneHere
    PROVE  /\ (\A c \in CallersHere : walkHere[c] # "judge") => Beside!JudgeCalls = 0
           /\ (\E c \in CallersHere : walkHere[c] = "judge") => Beside!JudgeCalls = 1
<1> DEFINE Judged == {c \in CallersHere : walkHere[c] = "judge"}
<1>1. ASSUME \A c \in CallersHere : walkHere[c] # "judge" PROVE Beside!JudgeCalls = 0
  <2>1. Judged = {}
    BY <1>1
  <2>2. QED
    BY <2>1, FS_EmptySet, CountsAlike DEF Beside!JudgeCalls
<1>2. ASSUME NEW c \in CallersHere, walkHere[c] = "judge" PROVE Beside!JudgeCalls = 1
  <2>1. Judged = {c}
    BY <1>2 DEF AloneHere, BusyHere
  <2>2. QED
    BY <2>1, FS_Singleton, CountsAlike DEF Beside!JudgeCalls
<1>3. QED
  BY <1>1, <1>2

\* The calls after a step, which CountDelays spells out.
CallsNext == Cardinality({c \in CallersHere : walkHere'[c] = "judge"})

LEMMA CallsAreFewNext ==
    ASSUME AloneHere'
    PROVE  /\ (\A c \in CallersHere : walkHere'[c] # "judge") => CallsNext = 0
           /\ (\E c \in CallersHere : walkHere'[c] = "judge") => CallsNext = 1
<1> DEFINE Judged == {c \in CallersHere : walkHere'[c] = "judge"}
<1>1. ASSUME \A c \in CallersHere : walkHere'[c] # "judge" PROVE CallsNext = 0
  <2>1. Judged = {}
    BY <1>1
  <2>2. QED
    BY <2>1, FS_EmptySet DEF CallsNext
<1>2. ASSUME NEW c \in CallersHere, walkHere'[c] = "judge" PROVE CallsNext = 1
  <2>1. Judged = {c}
    BY <1>2 DEF AloneHere, BusyHere
  <2>2. QED
    BY <2>1, FS_Singleton DEF CallsNext
<1>3. QED
  BY <1>1, <1>2

LEMMA CountedIs ==
    ASSUME Beside!CountDelays
    PROVE  /\ slot' = "free" => delays' = 0
           /\ slot' # "free" /\ slot = "free" => delays' = CallsNext
           /\ slot' # "free" /\ slot # "free" =>
                delays' = delays + (IF CallsNext > Beside!JudgeCalls
                                    THEN CallsNext - Beside!JudgeCalls ELSE 0)
BY CountsAlike DEF Beside!CountDelays, CallsNext

\* While nothing walks, what a pass has met does not change.
LEMMA DelayedResting ==
    ASSUME AloneHere, AloneHere', Delayed, Beside!CountDelays,
           slot # "free" \/ slot' # "free" => walkHere' = walkHere
    PROVE  Delayed'
<1>1. CASE slot' = "free"
  BY <1>1, CountedIs DEF Delayed
<1>2. CASE slot' # "free" /\ slot = "free"
  BY <1>2, CountedIs, CallsAreFewNext DEF Delayed, AloneHere, BusyHere
<1>3. CASE slot' # "free" /\ slot # "free"
  <2>1. CallsNext = Beside!JudgeCalls
    BY <1>3, CallsAreFew, CallsAreFewNext
  <2>2. delays' = delays
    BY <1>3, <2>1, CountedIs, CallsAreFew DEF Delayed
  <2>3. QED
    BY <1>3, <2>2 DEF Delayed
<1>4. QED
  BY <1>1, <1>2, <1>3

\* A walk never passes its first look while a pass runs.
LEMMA DelayedWalk ==
    ASSUME AloneHere, AloneHere', Delayed, Beside!CountDelays, slot' = slot,
           NEW c \in CallersHere, Beside!Judging!WalkStep(c)
    PROVE  Delayed'
<1>1. CASE slot = "free"
  BY <1>1, CountedIs DEF Delayed
<1>2. CASE slot # "free"
  <2>1. Beside!InFlight
    BY <1>2 DEF Beside!InFlight
  <2>2. \A d \in CallersHere : d # c => walkHere[d] = "none" /\ walkHere'[d] = "none"
    BY WalkHere DEF AloneHere, BusyHere
  <2>3. CASE walkHere'[c] = "judge"
    <3>1. delays = 0 /\ Beside!JudgeCalls = 0 /\ CallsNext = 1
      BY <1>2, <2>2, <2>3, WalkHere, CallsAreFew, CallsAreFewNext DEF Delayed
    <3>2. delays' = 1
      BY <1>2, <3>1, CountedIs
    <3>3. QED
      BY <1>2, <2>2, <2>3, <3>2 DEF Delayed
  <2>4. CASE walkHere'[c] # "judge"
    <3>1. CallsNext = 0 /\ Beside!JudgeCalls \in {0, 1}
      BY <2>2, <2>4, CallsAreFew, CallsAreFewNext
    <3>2. delays' = delays
      BY <1>2, <3>1, CountedIs DEF Delayed
    <3>3. walkHere'[c] \in {"queue", "go", "exists"} => walkHere[c] \in {"queue", "go", "exists"}
      BY <2>1, WalkHere
    <3>4. QED
      BY <1>2, <2>2, <2>4, <3>2, <3>3 DEF Delayed
  <2>5. QED
    BY <2>3, <2>4
<1>3. QED
  BY <1>1, <1>2

LEMMA DelayedStep ==
    ASSUME AloneHere, Delayed, [Beside!Next]_besideVars
    PROVE  AloneHere' /\ Delayed'
<1>1. CASE Beside!QueueStep
  <2>1. walkHere' = walkHere /\ callHere' = callHere /\ phaseHere' = phaseHere
        /\ Beside!CountDelays
    BY <1>1 DEF Beside!QueueStep, Beside!backfillVars
  <2>2. AloneHere'
    BY <2>1 DEF AloneHere, BusyHere
  <2>3. QED
    BY <2>1, <2>2, DelayedResting
<1>2. CASE Beside!BackfillStep
  <2>1. slot' = slot /\ Beside!CountDelays /\ Beside!Judging!BackfillNext
    BY <1>2 DEF Beside!BackfillStep, Beside!queueVars
  <2>2. ASSUME NEW c \in CallersHere, Beside!Judging!CallStep(c) PROVE AloneHere' /\ Delayed'
    <3>1. AloneHere'
      BY <2>2, AloneHereCall
    <3>2. CASE Beside!Judging!StartSpawn(c)
      <4>1. \A d \in CallersHere : walkHere'[d] = walkHere[d]
                                 \/ (walkHere'[d] = "list" /\ walkHere[d] = "none")
        BY <3>2 DEF Beside!Judging!StartSpawn, AloneHere
      <4>2. CASE slot = "free"
        BY <2>1, <3>1, <4>2, CountedIs DEF Delayed
      <4>3. CASE slot # "free"
        <5>1. CallsNext = Beside!JudgeCalls
          BY <3>1, <4>1, CallsAreFew, CallsAreFewNext
        <5>2. delays' = delays
          BY <2>1, <4>3, <5>1, CountedIs, CallsAreFew DEF Delayed
        <5>3. QED
          BY <2>1, <3>1, <4>1, <5>2 DEF Delayed
      <4>4. QED
        BY <4>2, <4>3
    <3>3. CASE walkHere' = walkHere
      BY <2>1, <3>1, <3>3, DelayedResting
    <3>4. QED
      BY <2>2, <3>2, <3>3 DEF Beside!Judging!CallStep, Beside!Judging!StartClaim,
         Beside!Judging!StartClear, Beside!Judging!StopStore, Beside!Judging!StopPhase
  <2>3. ASSUME NEW c \in CallersHere, Beside!Judging!WalkStep(c) PROVE AloneHere' /\ Delayed'
    BY <2>1, <2>3, AloneHereWalk, DelayedWalk
  <2>4. ASSUME NEW f \in FindingsHere, Beside!Judging!OthersJudge(f)
        PROVE  AloneHere' /\ Delayed'
    <3>1. walkHere' = walkHere /\ callHere' = callHere /\ phaseHere' = phaseHere
      BY <2>4 DEF Beside!Judging!OthersJudge, Beside!Judging!record
    <3>2. AloneHere'
      BY <3>1 DEF AloneHere, BusyHere
    <3>3. QED
      BY <2>1, <3>1, <3>2, DelayedResting
  <2>5. QED
    BY <2>1, <2>2, <2>3, <2>4 DEF Beside!Judging!BackfillNext
<1>3. CASE Beside!Stop
  <2>1. AloneHere'
    BY <1>3 DEF Beside!Stop, Beside!Judging!Forget, AloneHere, BusyHere
  <2>2. slot' = "free" /\ Beside!CountDelays
    BY <1>3 DEF Beside!Stop, Beside!Queue!Stop
  <2>3. QED
    BY <2>1, <2>2, CountedIs DEF Delayed
<1>4. CASE UNCHANGED besideVars
  BY <1>4 DEF besideVars, AloneHere, BusyHere, Delayed
<1>5. QED
  BY <1>1, <1>2, <1>3, <1>4 DEF Beside!Next

\* Beside the queue the backfill does what its own specification allows, so that what is proved
\* of it alone holds there; and no pass of the queue meets more than one call of the judge,
\* whatever starts, stops and passes fall between the backfill's two looks and its call.
THEOREM BackfillImplemented == PartsSpec => ImplementsBackfill
<1>1. Beside!Init => AloneHere /\ Delayed
  BY DEF Beside!Init, Beside!Judging!Init, Beside!Queue!Init, AloneHere, BusyHere, Delayed
<1>2. AloneHere /\ Delayed /\ [PartsNext]_<<part, vars, besideVars>> => AloneHere' /\ Delayed'
  BY DelayedStep DEF PartsNext
<1>3. Delayed => Beside!AtMostOneDelay
  BY DEF Delayed, Beside!AtMostOneDelay
<1>4. PartsSpec => []Beside!AtMostOneDelay
  BY <1>1, <1>2, <1>3, PTL DEF PartsSpec, PartsInit
<1>5. QED
  BY <1>4, BesideRefines, PTL DEF ImplementsBackfill
=============================================================================
