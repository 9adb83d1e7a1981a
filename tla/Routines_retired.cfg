CONSTANTS
    r1 = r1
    ann = ann
    h1 = h1
    q1 = q1
    l1 = l1
    feed = feed
    fail = fail
    green = green
    Routines = {r1}
    Agents = {ann}
    Owner <- MCOwner
    Interval <- MCInterval
    MaxRuns <- MCMaxRuns
    Expiry <- MCExpiry
    Expiries = {1}
    Feed <- MCFeed
    AnySource = AnySource
    Hooks = {h1}
    Event <- MCEvent
    Anyone = Anyone
    Manual = {q1}
    RunOf <- MCRunOf
    Pass = Pass
    Loops = {l1}
    LoopDelay <- MCLoopDelay
    NoLimit = NoLimit
    Never = Never
    Unread = Unread
    MaxTime = 2
SPECIFICATION Spec
CHECK_DEADLOCK FALSE
INVARIANT DispatcherLives
