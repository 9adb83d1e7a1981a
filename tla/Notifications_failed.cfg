SPECIFICATION NotificationSpec
CONSTANTS
    ann = ann
    you = you
    Teammate = ann
    You = you
    Sizes = {2, 3, 4}
    RefSize = 1
    Budget = 3
    Window = 2
    PageSize = 2
    MaxMessages = 3
    MaxStops = 1
PROPERTY FailedRunKeepsPending
CHECK_DEADLOCK FALSE
