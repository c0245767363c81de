CONSTANTS
    FilesHere = {f1, f2}
    NoFile = NoFile
    MaxVersion = 2
    MaxDrops = 2
    MaxStarts = 2
    MaxByHand = 1
SPECIFICATION QueueLiveSpec
INVARIANTS
    QueueTypeOK
    OnePassAtATime
    EveryPassIsCounted
    ReviewsAreCounted
    NewestDropIsReviewed
    LostIsTrue
PROPERTY WaitingIsClaimed
CHECK_DEADLOCK FALSE
