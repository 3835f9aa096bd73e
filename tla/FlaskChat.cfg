SPECIFICATION MCSpec
CONSTANTS
    ask = ask
    ask2 = ask2
    photo = photo
    photo2 = photo2
    rename = rename
    rename2 = rename2
    fresh = fresh
    erase = erase
    export = export
    c1 = c1
    c2 = c2
    Requests <- MCRequests
    Kind <- MCKind
    Chats <- MCChats
    ChatOf <- MCChatOf
    MaxOverlap = 3
    MaxCrashes = 1
    MaxDiskErrors = 1
    MaxSeconds = 1
    KeepLast = 1
\* Every request ends.
CHECK_DEADLOCK FALSE
INVARIANTS HistoriesStayOrdered
PROPERTIES ImplementsChatLog EveryRequestEnds
