---------------------------- MODULE Notifications ----------------------------
(***************************************************************************)
(* What becomes of a message: the notification that _notify_for_message    *)
(* makes for everybody else (app/services/team.py), the context of the     *)
(* teammate's next run (load_context, app/services/context.py,             *)
(* app/runtime/hermes.py), its tool context.load (app/services/tools.py),  *)
(* and the page that shows the human the room and marks it read            *)
(* (app/routes/pages.py).  One DM of the human and one teammate; messages  *)
(* are named by their places in it.                                        *)
(***************************************************************************)
EXTENDS Naturals, Sequences, FiniteSets

CONSTANTS
    Teammate, You,
    Sizes,         \* how long an entry of the context may be
    RefSize,       \* the length of a reference to an entry
    Budget,        \* char_budget, less the identity
    Window,        \* load_context looks at so many notifications
    PageSize,      \* history looks at so many messages
    MaxMessages,   \* bound
    MaxStops       \* bound: how often the process stops during a run

ASSUME NotificationAssumption ==
    /\ Teammate # You
    /\ Sizes \subseteq Nat \ {0}
    /\ {RefSize, Budget, Window, PageSize} \subseteq Nat \ {0}
    /\ {MaxMessages, MaxStops} \subseteq Nat

VARIABLES
    log,        \* whom each message is for, and its size
    delivered,  \* the teammate's notifications with delivered_at set
    read,       \* the human's notifications with read_at set
    wakes,      \* the open wake events of the teammate
    stops,      \* how often the process has stopped
    run,        \* "none" or "running"
    full,       \* the notifications the run's prompt has in full
    page,       \* the messages of the page that is being made, or NoPage
    shown,      \* history: what has been sent to the teammate in full
    seen,       \* history: what has been on a page
    missed,     \* history: what was too old for a page, or posted while it was made
    chances,    \* history: the notifications that were pending when the run began
    lost        \* history: a wake event was closed by a run that failed

notificationVars ==
    <<log, delivered, read, wakes, stops, run, full, page, shown, seen, missed, chances, lost>>

NoPage == 0 .. 0
Posted(p) == {i \in DOMAIN log : log[i].to = p}
Pending == Posted(Teammate) \ delivered

NotificationInit ==
    /\ log = <<>>
    /\ delivered = {} /\ read = {}
    /\ wakes = 0 /\ stops = 0
    /\ run = "none" /\ full = {}
    /\ page = NoPage
    /\ shown = {} /\ seen = {} /\ missed = {} /\ chances = {}
    /\ lost = FALSE

-----------------------------------------------------------------------------
\* The oldest of the pending notifications.
Oldest == {i \in Pending : Cardinality({j \in Pending : j < i}) < Window}

\* ContextBudget: what the messages up to i leave of the budget.  An entry takes its
\* size, or that of a reference to it, or nothing.
Remaining[i \in 0 .. Len(log)] ==
    IF i = 0 THEN Budget
    ELSE LET left == Remaining[i - 1]
             sizes == {n \in {log[i].size, RefSize} : n <= left}
         IN  CASE i \notin Oldest \/ sizes = {} -> left
               [] log[i].size \in sizes -> left - log[i].size
               [] OTHER -> left - RefSize

\* Mutant: an entry that does not fit ends the list.
StopAtFirst == {i \in Oldest : \A j \in Oldest : j <= i => log[j].size <= Remaining[j - 1]}

\* The entries that are in a prompt in full.
Context == {i \in Oldest : log[i].size <= Remaining[i - 1]}

\* acknowledge_context takes the entries that have a body.
Acknowledge(entries) == delivered' = delivered \cup entries

\* send_message and _notify_for_message: the one who has not written is notified,
\* and a teammate is woken.
Post(p, s) ==
    /\ Len(log) < MaxMessages
    /\ log' = Append(log, [to |-> p, size |-> s])
    /\ wakes' = IF p = Teammate THEN wakes + 1 ELSE wakes
    /\ missed' = IF page = NoPage THEN missed ELSE missed \cup {Len(log) + 1}
    /\ UNCHANGED <<delivered, read, stops, run, full, page, shown, seen, chances, lost>>

\* HermesRuntime.run up to its commit: the context is read and put into the prompt.
RunStarts ==
    /\ run = "none" /\ wakes > 0
    /\ run' = "running"
    /\ full' = Context
    /\ chances' = Pending
    /\ UNCHANGED <<log, delivered, read, wakes, stops, page, shown, seen, missed, lost>>

\* context.load: without a budget, and acknowledged in the transaction of the call.
\* Whether the answer arrives, and whether the run then succeeds, is not known to it.
LoadContext ==
    /\ run = "running"
    /\ Acknowledge(Oldest)
    /\ shown' = shown \cup Oldest
    /\ UNCHANGED <<log, read, wakes, stops, run, full, page, seen, missed, chances, lost>>

\* Mutant: what the prompt refers to is acknowledged as well.
RunSucceedsWithAll ==
    /\ run = "running"
    /\ run' = "none"
    /\ shown' = shown \cup full
    /\ Acknowledge(chances)
    /\ wakes' = wakes - 1
    /\ full' = {} /\ chances' = {}
    /\ UNCHANGED <<log, read, stops, page, seen, missed, lost>>

RunSucceeds ==
    /\ run = "running"
    /\ run' = "none"
    /\ shown' = shown \cup full
    /\ Acknowledge(full)
    /\ wakes' = wakes - 1
    /\ full' = {} /\ chances' = {}
    /\ UNCHANGED <<log, read, stops, page, seen, missed, lost>>

\* An exit code, the timeout or an exception: nothing is acknowledged, and the wake
\* event is closed all the same.
RunFails ==
    /\ run = "running"
    /\ run' = "none"
    /\ wakes' = wakes - 1
    /\ lost' = TRUE
    /\ full' = {} /\ chances' = {}
    /\ UNCHANGED <<log, delivered, read, stops, page, shown, seen, missed>>

\* Mutant: a second event is enqueued for the one that is released.
StopsAnew ==
    /\ run = "running"
    /\ stops < MaxStops
    /\ stops' = stops + 1
    /\ run' = "none"
    /\ wakes' = wakes + 1
    /\ full' = {} /\ chances' = {}
    /\ UNCHANGED <<log, delivered, read, page, shown, seen, missed, lost>>

\* The process stops during the run: release_claim, or the recovery of its lease,
\* makes the event pending again.
Stops ==
    /\ run = "running"
    /\ stops < MaxStops
    /\ stops' = stops + 1
    /\ run' = "none"
    /\ full' = {} /\ chances' = {}
    /\ UNCHANGED <<log, delivered, read, wakes, page, shown, seen, missed, lost>>

\* The page reads the newest messages of the room ...
PageReads ==
    /\ page = NoPage
    /\ log # <<>>
    /\ page' = {i \in DOMAIN log : i + PageSize > Len(log)}
    /\ missed' = missed \cup {i \in DOMAIN log : i + PageSize <= Len(log)}
    /\ UNCHANGED <<log, delivered, read, wakes, stops, run, full, shown, seen, chances, lost>>

\* ... and then mark_room_read marks every notification there is for the room.
PageMarks ==
    /\ page # NoPage
    /\ read' = Posted(You)
    /\ seen' = seen \cup page
    /\ page' = NoPage
    /\ UNCHANGED <<log, delivered, wakes, stops, run, full, shown, missed, chances, lost>>

RunEnds == RunSucceeds \/ RunFails

NotificationNext ==
    \/ \E p \in {Teammate, You}, s \in Sizes : Post(p, s)
    \/ RunStarts
    \/ LoadContext
    \/ RunEnds
    \/ Stops
    \/ PageReads
    \/ PageMarks

\* The dispatcher claims what is due, and hermes_timeout ends a run.
NotificationSpec ==
    /\ NotificationInit /\ [][NotificationNext]_notificationVars
    /\ WF_notificationVars(RunStarts) /\ WF_notificationVars(RunEnds)

-----------------------------------------------------------------------------
NotificationTypeOK ==
    /\ log \in Seq([to : {Teammate, You}, size : Sizes])
    /\ delivered \subseteq Posted(Teammate)
    /\ read \subseteq Posted(You)
    /\ wakes \in 0 .. MaxMessages
    /\ stops \in 0 .. MaxStops
    /\ run \in {"none", "running"}
    /\ full \subseteq Posted(Teammate)
    /\ page = NoPage \/ page \subseteq DOMAIN log
    /\ shown \subseteq Posted(Teammate)
    /\ seen \subseteq DOMAIN log
    /\ missed \subseteq DOMAIN log
    /\ chances \subseteq Posted(Teammate)
    /\ lost \in BOOLEAN

\* What a teammate's notification says was delivered has been sent to it in full, by
\* a prompt whose run succeeded or as an answer of context.load, whatever came while
\* the run went on; and what is marked read was on a page, unless it was too old for
\* it or came after its messages had been read (mark_room_read marks that too).
NoMarkWithoutShowing ==
    /\ delivered \subseteq shown
    /\ read \subseteq seen \cup missed

\* Fits beside the references to as many entries as may come before it in the window.
Fitting(i) == log[i].size + (Window - 1) * RefSize <= Budget

\* Fewer than the window are older and may be too long for it.
Reachable(i) ==
    Cardinality({j \in Posted(Teammate) : j < i /\ ~Fitting(j)}) < Window

\* Unless a run fails, which closes its wake and leaves nobody to come back, every
\* notification that fits is delivered, however often the process stops: those too
\* long for a prompt stay before it, but leave it its place as long as they do not
\* fill the window, and there are as many wakes as notifications.
FittingAreDelivered ==
    \A i \in 1 .. MaxMessages :
      (i \in Posted(Teammate) /\ Fitting(i) /\ Reachable(i)) ~> (i \in delivered \/ lost)

\* "A failed start or run must leave pending notifications available for the next
\* wake" (app/runtime/hermes.py:52): what was pending when the run began.
FailedRunKeepsPending == [][RunFails \/ Stops => chances \cap delivered' = {}]_notificationVars
=============================================================================
