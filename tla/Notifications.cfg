SPECIFICATION NotificationSpec
CONSTANTS
    ann = ann
    you = you
    Teammate = ann
    You = you
    Sizes = {2, 3, 4}
    RefSize = 1
    Budget = 3
    Window = 2
    PageSize = 2
    MaxMessages = 3
    MaxStops = 1
INVARIANTS
    NotificationTypeOK
    NoMarkWithoutShowing
PROPERTY FittingAreDelivered
\* All messages posted, delivered and read: nothing is left to do.
CHECK_DEADLOCK FALSE
