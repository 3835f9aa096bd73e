SPECIFICATION MCSpec
CONSTANTS
    t1 = t1
    t2 = t2
    c1 = c1
    c2 = c2
    question = question
    Threads <- MCThreads
    Window = 2
    MaxRequests = 2
    MaxTime = 4
    Overlaps <- SerialOrTwo
    Chats <- MCChats
    Texts <- MCTexts
    KeepLast = 3
    RecallLimit = 2
    MaxRows = 5
    MaxSeconds = 3
INVARIANTS Overshoot
PROPERTIES CallsAreJudgedRightly RecallHolds
