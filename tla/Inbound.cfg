SPECIFICATION FairSpec
CHECK_DEADLOCK FALSE
CONSTANTS
    c1 = c1
    c2 = c2
    Updates = {1, 2, 3}
    From <- MCFrom
    Commands = {1}
    Chats = {c1, c2}
    NoChat = NoChat
    Listeners = {l1, l2}
    NoUpdate = NoUpdate
    MaxFaults = 1
    MaxStarts = 3
INVARIANTS NothingIsSkipped ExactlyOnce
PROPERTIES KeepsPromise EveryTextIsTaken
