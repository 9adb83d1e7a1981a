SPECIFICATION FairSpec
CONSTANTS
    Deliveries = {1, 2}
    Parts <- MCParts
    Bots = {b1, b2}
    NoBot = NoBot
    Chats = {c1, c2}
    NoChat = NoChat
    Lease = 2
    SendTimeout = 1
    Backoffs = {1}
    Nobody = Nobody
    MaxFaults = 2
    MaxReplacements = 1
INVARIANTS NeverRedirected OneCopyInFlight
PROPERTIES KeepsPromise QueuedIsConcluded
