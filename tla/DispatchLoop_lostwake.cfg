CONSTANTS
    w1 = w1
    w2 = w2
    w3 = w3
    w4 = w4
    group = group
    direct = direct
    ann = ann
    bob = bob
    Rows <- MCRows
    RequestOf <- MCRequestOf
    Target <- MCTarget
    Requests = {group, direct}
    Delays <- MCDelays
    Orphans = {w3}
    LeaseLeft = 1
    Never = Never
    Free = Free
SPECIFICATION Spec
INVARIANT NeverSleepsOverDueWork
