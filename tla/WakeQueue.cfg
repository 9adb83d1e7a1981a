CONSTANTS
    e1 = e1
    e2 = e2
    e3 = e3
    ann = ann
    bob = bob
    k = k
    Agents = {ann, bob}
    Keys = {k}
    Chief = ann
    NoKey = NoKey
    NoLease = NoLease
    NoRun = NoRun
    NoTask = NoTask
    Queued = Queued
    NoEvent = NoEvent
    LeaseTime = 1
    Events <- MCEvents
    Target <- MCTarget
    Key <- MCKey
    Lanes <- MCLanes
    Runs = {1, 2, 3, 4, 5}
    Delays <- MCDelays
    Limit = 2
    MaxCrashes = 1
SPECIFICATION LiveSpec
INVARIANTS TypeOK NothingIsDoneTwice OrphansAreRecoverable HandlersAreExclusive
PROPERTIES SettledByItsRun KeepsPromise WakesAreSettled
CHECK_DEADLOCK FALSE
