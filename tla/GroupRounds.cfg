CONSTANTS
    you = you
    ann = ann
    bob = bob
    Humans = {you}
    Chief = ann
    Nobody = Nobody
    Posts = {1, 2}
    People = {you, ann, bob}
    FirstMembers = {you, ann}
    MaxMembers = 3
    MaxRounds = 2
    MaxCrashes = 1
SPECIFICATION LiveSpec
INVARIANTS LastOneSettles RoundsFollowAnswers
PROPERTIES SettledOnce KeepsPromise ConversationsEnd
CHECK_DEADLOCK FALSE
