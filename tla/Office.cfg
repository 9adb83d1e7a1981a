SPECIFICATION Spec
CONSTANTS
    Requests <- MCRequests
    Job <- MCJob
    ByRun <- MCByRun
    MaxHandoffs = 2
    Free = "free"
    Mixes <- MCMixes
    Agents <- MCAgents
    Chief = "chief"
    You = "you"
    Nobody = "nobody"
    FirstBoss <- MCFirstBoss
    MaxAgents = 4
    OldRooms <- MCOldRooms
    FirstRoom <- MCFirstRoom
    Names <- MCNames
    General = "general"
    MaxGroup = 3
    Statuses = {"done", "blocked"}
    Answers = {"yes", "no"}
    NoAnswer = "unanswered"
    OldDemos <- MCOldDemos
    Learner <- MCLearner
INVARIANTS
    TypeOK
    RowsAreBacked
    ReportingLinesAreATree
    LimitsHold
    OutcomesAgree
\* When the requests have been made nothing is left to do.
CHECK_DEADLOCK FALSE
