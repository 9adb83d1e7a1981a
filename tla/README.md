# Moatbots, verified

TLA+ models of Moatbots: a team of AI agents that a human talks to in a browser
or over Telegram. A FastAPI process keeps everything in one SQLite database,
wakes an agent by inserting a row in `wake_events`, and runs a *Hermes*
subprocess for each wake. Agents act on the team through an HTTP tool API of
that same process. Paths below are relative to `src/`.

Everything runs in one asyncio event loop. What interleaves is therefore: HTTP
requests with one transaction each, the dispatcher task and the handler tasks
it gathers, one outbox worker, one Telegram listener per adapter, and the Hermes
subprocesses that call the API. They meet in the database, which has many
readers, one writer, and a busy timeout. The hazards are at every `await`
between a read and a write, between a commit and what it announces, and where
the process ends between two transactions.

## 1. The system's parts

| Part | State | Operations | What makes it correct | Model |
|---|---|---|---|---|
| Wake queue and runs (`app/services/team.py` 1382-1587) | `wake_events`: status, due_at, lease, dedupe key, lane, run; `runs`; `agents.status` | enqueue, claim with recovery of expired leases, start run, complete, ignore, release | one open wake per key, one run per teammate, nothing lost, nothing settled twice | `WakeQueue`, `WakePromise` |
| Dispatcher (`app/dispatcher.py`) | signal, its place in the loop, handler tasks | drain, gather, look for the earliest deadline, wait | a signal is answered; due work is not slept over | `DispatchLoop` |
| Group rounds (`team.py` 789-835, 2005-2268) | wakes of a round, message links | send, settle a round, invite, retire | the last one settles, once; the next round has all answers; chatter ends | `GroupRounds`, `RoundsPromise` |
| Portal outbox (`app/services/outbox.py`) | `portal_deliveries`: status, part, recipient, next attempt | queue, claim, send, record, retry | parts in order, right chat, no two copies at once | `Outbox`, `OutboxPromise` |
| Portal inbound (`app/services/portal.py`, `inbox.py`, `app/main.py`) | Telegram's offset, batch, `portal_receipts`, binding | poll, bind, post, retry | each text becomes one message | `Inbound`, `InboundPromise` |
| Managed portal (`portal.py`, `app/routes/pages.py`) | current adapter, listener task | replace | one adapter listens, the one configured last | `ManagedPortal` |
| Routines, webhooks, filter (`team.py` 1084-1280, 1589-1667, `filter.py`) | `routine`: active, run_count, max_runs, next_due_at, expires_at, retired_at | create, update, retire, run now, ingest a webhook, fire what is due | firings counted, within max_runs unless two of them race; no due time that stays | `Routines` |
| Open loops (`team.py` 1051-1082) | `open_loop`: status, due_at | schedule, fire | its wake comes at its time, the mark follows | `Routines` |
| Conversations (`team.py` 304-715) | rooms, memberships | DM, group, channel, rename, join, invite, archive | one DM per pair, one open channel of a name, caps | `Rooms` in `Office`; rounds in `GroupRounds` |
| Human requests (`team.py` 1846-1995, `auth.py`) | pending / resolved, expiry, secrets file | ask, resolve, expire | one answer, the one the teammate is told; the secret is there if resolved | `HumanRequests` in `Office` |
| Demonstrations (`demonstrations.py`) | recorder subprocess, rows | start, stop, verify | one recorder; a row to learn from has its video | `Demonstrations` in `Office` |
| Organization and profiles (`team.py` 98-302, `profiles.py`) | `reports_to`, `retired_at`, profile directories, `SOUL.md` | hire, reorganize, retire | the reporting lines are a tree, cap, profile and row agree | `Staff` in `Office` |
| Tasks and Kanban (`team.py`, `kanban.py`) | `kanban_ref` rows, external board | create, move | the board and the rows agree | `Tasks` in `Office` |
| Tool API, budget of a run (`agent_api.py`, `tools.py`, `agent_auth.py`, `agent/mcp_server.py`) | `handoffs_used`, tokens bound to runs | one transaction per call | only a running run may act, within its handoffs | `Requests` in `Office`; the guard on the run in `GroupRounds` |
| Notifications and context (`team.py`, `context.py`, `app/runtime/hermes.py`, `pages.py`) | notification rows, prompt budget | notify, put into a prompt, `context.load`, acknowledge, mark read | what is marked was shown; what fits is delivered | `Notifications` |
| Messages, search, reactions (`team.py`) | messages, links | post, react, search | queries and single inserts | not modelled, except waking others |
| Hermes (`app/runtime`) | subprocess | run with a timeout | ends; acknowledges what it showed | outcomes are choices in `WakeQueue` and `Notifications` |
| Provider login (`auth.py`) | login subprocess | start, poll, cancel | - | not modelled: a dialogue with external programs |
| Pages, API, config, seed, desktop, logs, migrations | - | presentation, files, schema | - | not modelled |

How they interact:

- A request or a tool call inserts messages, and with them wake rows and
  deliveries, in **one transaction**; the row's *signal* is set at the flush,
  before the commit (`team.py:1422`).
- The dispatcher drains the wake queue, one round at a time. Each handler
  commits when its run starts and again when it ends; ending a wake settles a
  group round in the same transaction.
- The outbox worker polls deliveries and sends over the network *between* two
  transactions.
- A listener calls back into an inbound transaction that posts a message, which
  wakes an agent. Settings replace the adapter while all of this runs.

What is hard: notify before commit; reads decided upon before the write lock is
taken; commands outside whose effect no rollback undoes; leases that must outlast
what they cover; the read-then-insert of wakes;
crash between claim and completion; answers that outlive the run that sent them;
replies lost after the effect; two `replace` calls inside each other; an
exception that ends a task nobody restarts. `PROJECT.json` lists each at its
line, with the properties that would catch it going wrong.

## 2. Modules

`X.tla` is the specification, `MCX.tla` gives it the constants of its TLC run,
`XProofs.tla` holds its theorems (those of `Inbound` and `Notifications`, which share no
state, are together in `MessageProofs`), `XPromise.tla` is an abstract specification that
`X` implements. In every module the properties come last; operators marked
`\* Mutant` are plausible wrong versions of a definition of the module, kept
beside the right one to show that a property can tell them apart. They are used
by no specification.

Common conventions: an action is one transaction, or the steps of one task
between two awaits that others can see; a request that is rolled back leaves no
trace; SQLite's write lock is explicit only where its holding matters
(`DispatchLoop`, `GroupRounds`, `Office`). Clocks are integers and advance only while some
deadline lies ahead, so that behaviours stay finite without stopping time early
(`Routines`, whose deadlines repeat, ends its clock at `MaxTime`).

### WakeQueue and WakePromise

`status`, `due`, `lane`, `lease`, `claimedRun` are the columns of a wake row;
`runStatus`, `runEvent` those of a run; `agentStatus`, `retired` those of a
teammate. `handler` and `disp` are the tasks of `Dispatcher`.

| Code | Actions |
|---|---|
| `enqueue_wake`: SELECT, then INSERT under the partial unique index | `EnqueueCheck`, `EnqueueInsert`, `EnqueueConflict` |
| `claim_due_events`: recovery, candidates, dedupe, one per target, one shared | `ClaimDueEvents` with `Stale`, `Abandoned`, `Duplicates`, `Busy`, `ClaimableSets` |
| `start_run`, `_run_claimed` | `StartRun` with `LaneFree` |
| `complete_event`, `ignore_event` (also the end of a failed run) | `CompleteEvent`, `IgnoreEvent` |
| an exception in `drain` or a handler | `DrainFails`, `HandlerFails` |
| lifespan shutdown, `release_claim` | `StopDispatcher`, `ReleaseClaim` |
| end of the process and start on the same database | `Restart` |
| `retire_agent` | `RetireAgent` |

The order in which the code visits rows due at the same time is unspecified, so
`ClaimableSets` is the set of *all* claims some order yields, defined by what a
greedy pass leaves behind rather than by the loop. `WakePromise` has a single
variable, the stage of each wake, and says that a teammate works on one wake at a
time and that a wake is closed once, out of its teammate's hands. In the
refinement a row is "working" from the commit of its run on.

### DispatchLoop

The loop of `run_forever` in detail, with what a claim may take kept abstract
(`WakeQueue` has it). A request writes its rows, setting the signal and holding
the lock, and commits later. The dispatcher reads (`DrainReads`), then claims
(`ClaimCommits`), gathers (`HandlerCommits`), looks (`LookAndSleep`,
`LookAndContinue`), and waits (`WakeBySignal`, `WakeByTimeout`). `LockTimeout` is
the exception of a writer that met the busy timeout. `Orphans` are rows that a
process left claimed before it ended. `late` is a history variable: the rows
committed while the signal was not set.

### GroupRounds and RoundsPromise

A wake is `<<post, round, agent>>`. `SendMessage` is `_notify_for_message` and
`_enqueue_group_round`; `RunEnds` is the flush of `complete_event`, which takes
the write lock; `SettleGroupRound` and `SiblingStillOpen` are the two outcomes of
`settle_group_round` under it. `AnswerBegins` / `AnswerCommits` / `AnswerFails`
are the tool call `messages.send` of a run: its guard (the run is running) is
checked in one transaction's life and its commit may come after the run has
ended. Invitations and retirements change who belongs to the next round. The
wakes of a group have no task and so share a lane, of which the dispatcher claims one
and awaits it before it claims again; the model lets several be claimed at once, which
only adds behaviours. What the code is exposed to is what comes between a run's end
and the commit that settles: crashes, late answers, changes of the group.

`RoundsPromise` has one moderator in place of the handlers of a round, each with a
transaction of its own: asked some, he waits for all of them, and the step that sees
the last one done also asks the others or ends the conversation. *Asked* are the
wakes that exist, *waiting* those that are open. Claims, answers, crashes, and changes
of the group are stutters; that a round follows only from an answer is there as "one of
those who were asked is not asked again".

### Outbox and OutboxPromise

`QueuePortal` is `_queue_portal` in the transaction that `EndRequest` commits or
rolls back. `Claim` is the first transaction of `_deliver_one` and the start of
the send; `Land`, `Accepted`, `Refused`, `Forget` are the network; `RecordSuccess`
and `RecordFailure` the second transaction; `Abandon` the worker's end between
the two. `Replace` and `Bind` change the adapter at any time. Time is kept as what
is left of `next_attempt_at` and of a send's timeout. `OutboxPromise` knows only
what arrived and the verdict: parts in order, none skipped, only the last one
possibly again, "sent" only if all arrived, nothing afterwards.

### Inbound and InboundPromise

`Poll` is `getUpdates` with the listener's offset, which confirms what is below
it; `Bind`, `Ignore`, `AnswerStart`, `FindReceipt`, `BeginPost`, `CommitPost`,
`FailPost` are the branches of `_take` and of `accept_human_text`. `CommitPost`
may store message and receipt and still be reported as failed. `Start` and `Stop`
cover restarts and replaced adapters; several listeners may run because of what
`ManagedPortal` shows. `configured` is a history variable: the chats adapters were
started with.

`InboundPromise` knows neither listeners nor receipts: texts are dealt with in the
order they were written, one becomes a message at most once and only after the
earlier ones are dealt with, and none is dealt with without its message while only its
own chat has been configured. *Dealt with* is what some listener has moved past
(`taken`); a second listener that goes over the same text stutters.

### Routines

Rows of `routine` (`active`, `count`, `nextDue`, `expiry`, `gone`) and of `open_loop`. The
code reads routine rows in one statement and writes what it decided, later, in
the transaction its first write opens; so each way to fire is two actions with a
*reading* between them: `HookReads` / `HookWrites` (`ingest_webhook`, with `Decide` for
the filter), `ManualReads` / `ManualWrites` (`run_routine`), `PassReads` / `PassWrites`
(`fire_due_routines_and_loops`). `UpdateReads` / `UpdateWrites` are `update_routine`: what
it is to change is in `edit`, decided from the row it read, and only the columns
that differ from that row are written (`UpdateFails` is its rollback). `Fire` is `_fire_routine` for all routines of a
reading: it writes the count that was *read*, plus one. `Refused` is the error of
`enqueue_wake` for a retired owner, which rolls a request back (`RequestFails`) and
ends the dispatcher (`PassFails`). `Lapsed` is the write hidden in
`_routine_available`. The pass looks at the clock once, when it begins; its reading
keeps that time (`at`), from which it sets the next due times and judges the loops,
however late it writes. `fired`, `raced` and
`crossed` (the routines updated by a transaction that had read them before their
retirement) are history variables. `Overdue` is what `earliest_due` sees, which does
not ask whether a routine is retired. Wakes are open or
not (`SettleWake`); the rest of their life is `WakeQueue`.

### ManagedPortal

`Save` is the form up to the first await of `replace`, `Close` and `Install` the
stretches between its awaits. `overlapped` is a history variable.

### Office: Requests, Staff, Rooms, Tasks, HumanRequests, Demonstrations

The requests that check something and then act on it. `Requests` has what they
share: `pc` says how far each has come, `lock` who has SQLite's write lock, and a
request that fails (`Fail`, at any point) rolls back, releases the lock, and leaves
what it did outside. `Reads` is a handler up to its decision, `Acts` a command
outside, `Commits` the writes and the commit. A *handoff* tool called by a run
(`Call`) first counts itself in the row of the run, and the autoflush of its first
query takes the lock: such calls are serialized, those of pages and of runs not
named are not. The other modules fill in what a request checks, does and writes;
`Office` extends them all and puts in what crosses them - a newcomer joins
`#general`, a question to the human makes sure of their DM.

| Code | Actions |
|---|---|
| `hire_agent` with `profiles.create`; `upsert_agent` looks again | `HireReads`, `HireProvisions`, `HireWrites` |
| `update_agent` with `profiles.describe` | `UpdateReads`, `UpdateDescribes`, `UpdateWrites` |
| `retire_agent` | `RetireReads`, `RetireWrites` |
| `get_or_create_dm`, `create_group_chat`, `create_channel`, `update_channel`, `join_channel`, `invite`, `resolve_room` | `Dm...`, `MakeGroup`, `Channel...`, `Rename...`, `Join...`, `Invite...`, `ArchiveRoom`; `FindsIt` when there is nothing to do |
| `create_task`, `update_task` with the board | `CardReads`, `CardCreated`, `CardWrites`; `MoveReads`, `MoveActs`, `MoveWrites` |
| `create_human_request`, `resolve_human_request`, `upsert_env` | `AskHuman`, `ResolveReads`, `StoresSecret`, `ResolveWrites`, `RequestExpires`, `HearAnswer` |
| `start`, `stop`, `verify_demonstration` | `Start...`, `Stop...`, `Verify...` |

Outside the database: `profiles`, `soul`, `card`, `secret`, `recorder`. Rows are
named by the request that makes them, so two creations are two rows. `saw` and
`prev` are what a request has read and uses later; of an update, whether the row it
read had the manager already, who is then not written. Every update brings a text of
its own. `overlapped` is a history
variable: the pairs of requests that have been under way together. The properties
are of the form "... unless two requests about this pair, name, group or item met",
which says exactly what the code's checks, made without a constraint in the database,
are worth: such a meeting is the only thing that breaks them, and it does. Two
exceptions are not meetings: what a failed start leaves recording (`LeftBehind`), and
what a move or an update that has not committed, or failed to, has done outside
(`MovedAhead`, `DescribedAhead`).
`InLine` ("is above") is defined by closed sets of teammates, since the walk up
`reports_to` of `_reports_to` is a recursion.

### Notifications

One DM of the human and a teammate. `Post` is `send_message` with
`_notify_for_message`; `RunStarts` the context that a run is started with,
`Context` the entries of the oldest notifications that fit in full into what
`Remaining` says those before them leave of the budget (`ContextBudget`); `RunSucceeds` and `RunFails` its end, `Stops` the end of the process
meanwhile; `LoadContext` the tool `context.load`; `PageReads` and `PageMarks` the
page of a room, whose mark covers all there is by then. `shown`, `seen`, `missed`,
`chances` and `lost` are history variables.

## 3. What the runs show

`expect` is `pass` unless stated. States are distinct states found by TLC.

| Run | Question | Instance | States |
|---|---|---|---|
| `WakeQueue` | Are wakes run one at a time per teammate, recovered, settled once and in the end? | 3 rows (2 for one teammate, one of them deferred, 2 with one key, 2 that may meet in the shared lane), 5 runs, lease 1, 1 restart or shutdown | 601,000 |
| `DispatchLoop` | Can only late commits be overslept; is each signal answered; is work done? | 4 rows, 2 requests (one writes 3 rows), 2 teammates, 1 orphan | 64,000 |
| `DispatchLoop_lostwake` (violation) | Does the dispatcher sleep over a committed wake that is due? | same | - |
| `GroupRounds` | Does the last handler settle, once, do all handlers act as one moderator, and do conversations end? | 1 human, 2 agents, 2 posts, 2 rounds, 1 crash | 131,000 |
| `Outbox` | Are parts in order, never redirected, never in flight twice, concluded? | 2 rows of 2 and 1 parts, 2 bots, 2 chats, 2 faults, 1 replacement | 119,000 |
| `Inbound` | Is each text one message, in order, and dealt with? | 3 updates of 2 chats (one `/start`), 2 listeners, 3 starts, 1 fault | 170,000 |
| `Routines` | Are firings counted within `max_runs`, once for each due time, and does every due time move? | 1 routine (every tick, twice at most), 1 webhook, 1 manual run, 1 loop, 2 ticks, any number of updates and restarts | 805,000 |
| `Routines_retired` (violation) | Does the dispatcher task outlive the retirement of a routine's owner? | same | - |
| `ManagedPortal` | Does the adapter in use listen, and does each replacement end? | 4 forms, 3 inside `replace` at once | 10,000 |
| `Office` | Do rows speak of what is there, are the lines a tree, what are the checks worth, do the two sides agree? | 38 requests, up to 3 or 4 of one of ten groups of them under way or done, in any order | 71,000 |
| `Notifications` | Is what is marked shown, and is what fits delivered? | 3 messages of sizes that fit beside a reference, alone, or never; window 2, page 2, 1 stop | 340,000 |
| `Notifications_failed` (violation) | Does a failed run leave what was pending for the next? | same | - |

Why these instances are large enough. *WakeQueue*: two rows of one teammate are
what a double run needs, two rows with one key what a duplicate needs, and the
third row belongs to another teammate, so that the deferred row and it make a
round of two handlers, in one lane or in two. Five runs
let a row be abandoned and run again; when the runs are used up a handler can no
longer start one, which `WakesAreSettled` would report if it mattered: with three
rows and one crash at most five runs are needed before `LiveSpec` settles them.
`NothingIsDoneTwice` joins the two ways to do something twice, two open wakes of a
key and two runs of a teammate.
*DispatchLoop*: the request with several rows shows a signal consumed before the
commit, the other a request that comes while the dispatcher claims; the orphan
has a deadline that is a lease. *GroupRounds*: two agents are the least for which
"the last" means something, and the invited one joins between rounds; two posts
let two conversations of one room interleave. *Outbox*: one row with two parts has
a "between two parts"; the other row competes with it. The adapter ranges over
both bots, both chats and unbound. *Routines*: three transactions read one row and
write it in any order, with a limit of two so that one of them may be the last;
the time lets the routine be due, fire, and be due again, and an update may be read
and written at any two points of that. *Inbound*: two texts of one chat around one of
another, so skipping, binding and ordering matter. *ManagedPortal*: three forms
inside each other are one more than it takes to lose a listener. *Office*: each
hazard is a meeting of two requests that check the same thing, with a third that
changes what they rely on (a retirement, an archive, a further DM); the groups in
`MCMixes` bring together those that share state, in fours where a question, its two
answers and a retirement belong together. Requests of different groups share
nothing but the write lock, the budget of the run and the retirements, for which
there is a group of its own and `pRetire` in most. The team is one short of its
limit, the group chat as well, and a run has two handoffs. *Notifications*: the
window is two, so that one entry too long for a prompt leaves one place and two
leave none; a third message arrives while a run or a page is under way.

Bounds are constants named `Max...`, and appear only in the guards of the action
they bound: `MaxCrashes`, `MaxFaults`, `MaxReplacements`, `MaxStarts`,
`MaxOverlap`, `MaxMessages` and `MaxStops` in `Notifications`, `MaxTime` in
`Routines`; `Mixes` in `Office` bounds which requests are made in one behaviour, and
how many. `Runs`, `Events`, `Rows`, `Posts`, `Updates`, `Deliveries` and
`Forms` are finite sets of what may be created. `CHECK_DEADLOCK FALSE` is set
where the system really comes to rest: a conversation that has ended, forms all
saved, listeners stopped with nothing to write, requests all made, messages all
read, a dispatcher task that died. No
symmetry is used: liveness is checked in the same runs.

### Disagreements found

1. **A wake can be slept over** (`DispatchLoop_lostwake`). `enqueue_wake` sets the
   signal at the flush (`team.py:1422`) and `get_team` commits when the handler
   returns. If the dispatcher takes the signal, finds nothing and computes its
   deadline in between, it waits with the wake committed and due. The next signal
   rescues it, which `DueWorkIsDone` shows for behaviours in which signals keep
   coming; `OnlyLateRowsAreOverslept` shows there is no other way to oversleep.
2. **A retired teammate's routine ends the dispatcher** (`Routines_retired`).
   `retire_agent` leaves routines active; when one is due, `enqueue_wake` raises
   in `fire_due_routines_and_loops`, nothing in `drain` or `run_forever` catches
   it, and the task ends, again after each restart of the process. The same
   holds for any exception that leaves `drain` or a handler, such as a lock held
   beyond the busy timeout (`LockTimeout` in `DispatchLoop`, `DrainFails` and
   `HandlerFails` in `WakeQueue`). The liveness properties are conditional on the
   task being alive.
3. **`context.load` acknowledges before the run has succeeded**
   (`Notifications_failed`). The tool marks what it returns as delivered in the
   transaction of the call, and it takes no budget, so what the prompt had no room
   for is among it; when the run then fails or is stopped, no later prompt has it.
   `hermes.py:52` says that a failed start or run must leave what was pending for
   the next wake. `NoMarkWithoutShowing` shows the half that does hold.

Things the models contain that no run reports, as the properties except them; the
first two are at odds with the errors "The shared computer is already being recorded"
(`demonstrations.py:26`) and "Request is already resolved" (`team.py:1921`), the others
with no document of the repository:

- **A failed start leaves its recorder on** (`Office`). `start` runs the command that
  leaves `ffmpeg` in the background before its row commits. If the process goes down
  then, or the command is given up on after 120 s, the row is rolled back; no row
  knows of the recorder, so nothing stops it, and the next start, though alone, puts a
  second one on the desktop. TLC finds this when `LeftBehind` is left out of
  `OneRecorder`; with it, `OneRecorder` shows that otherwise it takes two starts that
  overlap.
- **A request can be answered twice** (`Office`). Two answers that both read the row
  pending pass the check, since it is made before the write lock is taken and the
  update names only the key. The row, and the file of secrets, keep the slower answer;
  the wake keeps the faster one, by its dedupe key (`team.py:1962`), so the teammate
  acts on an answer that the record does not show. `OutcomesAgree` shows that nothing
  but two answers to one request does this.

- The code that ends or recovers a wake assigns `agent.status` whatever
  `retired_at` is: a retired teammate may be shown idle again (`WakeQueue`).
- An answer whose tool call outlives its run commits after the round was settled
  without it; the next round may wake its author again (`GroupRounds`).
- Two forms inside `replace` overwrite one listener without stopping it.
  `SerialReplaceIsClean` shows that without overlap all is well; `Inbound` assumes
  several listeners and shows that texts are still taken exactly once.
- An update that resumes a routine it read before its retirement makes the retired
  routine active again. If the pass that read it due writes its next due time after
  the retirement, it keeps one that the pass does not look at and `earliest_due`
  does: the loop then turns over it without sleeping. It is the exception `crossed`
  in `DeadlinesMove`, which without it TLC refutes.
- A run that fails closes its wake and nobody comes back for what it left pending
  until the next message: the condition `lost` in `FittingAreDelivered`.
- Every check of `Office` that no unique index backs is passed by two requests that
  read side by side: the properties name the pairs that must meet for it. So two DMs
  of a pair, two channels of a name, a group or a team beyond its cap, two hirings of
  one handle, two reorganizations that close a cycle, and a recording that a second
  stop takes back from verified to learning are all possible, and only in this way.
- A request's expiry is undone by the error that reports it, and an answer checked
  before the time came is accepted after it (`RequestExpires`).

### Fairness

- `WakeQueue`: the claim, the start of *some* run, the end of *some* run, and time
  are weakly fair. A run ends because Hermes is stopped at its timeout. Nothing
  is assumed of requests, of failures, or of shutdowns; `WakesAreSettled` holds on
  condition that the process stays up and its dispatcher task lives, and the
  disagreement above says why that condition is needed.
- `DispatchLoop`: weak fairness of the loop, of the end of requests and of time;
  strong fairness of the two writers, because SQLite's busy handler polls and a
  lock that keeps becoming free is obtained.
- `GroupRounds`: strong fairness of claiming some wake and ending some run (both
  wait for the write lock), weak fairness of the handler that holds it. Nothing
  is assumed of answers, of posts or of a particular wake.
- `Routines`: the dispatcher comes back to the routines and ends its transaction
  (weak). It comes back because `DispatchLoop` wakes at the earliest deadline or
  at a signal; what it may sleep over is disagreement 1, and `DeadlinesMove` is
  about behaviours in which it returns. It is conditional on the task staying
  alive and the process up from some time on (`StaysUp`).
- `Notifications`: a run starts when there is a wake (the dispatcher claims what is
  due) and ends (its timeout), both weakly fair. Nothing is assumed of posts, pages,
  `context.load`, success, or the process stopping.
- `Office` states no fairness: a request may fail or hang anywhere, and its
  properties are safety.
- `Outbox`, `Inbound`, `ManagedPortal`: weak fairness of the tasks' own steps, of the
  network (a send has a timeout) and of time. `Outbox` bounds the faults, so "the
  network fails finitely often" is part of what `QueuedIsConcluded` says.

## 4. What is proved

For every value of the constants, from the assumptions named in the modules
(named `...Assumption`), which the runs evaluate.

**WakeQueue** (`WakeQueueProofs`): type correctness, `NothingIsDoneTwice` with its
parts `OneOpenPerKey` and `OneRunningRunPerAgent`, `OrphansAreRecoverable`, `HandlersAreExclusive`
(`HandlerOwnsClaim` and `HandlersDoNotCompete`), `ShownRunningIsRunning`, `SettledByItsRun`, and that the
queue implements `WakePromise`. The invariants are not inductive alone. A claim is
safe because a busy teammate is one with a running run, so a handler that has
*not yet* started its run must know that its teammate stays free
(`QueuedTargetFree`), for which in turn no other claim may be made while a handler
lives (`IdleHasNoHandlers`, since `drain` awaits the gather), and a run that the
recovery declares dead must have no live handler (`HandlerOwnsClaim`, with
`ClaimedRunRuns` for the link between the row and its run). `CheckedIsAbsent`
carries the read of a request to its insert. `IInv` is their conjunction. One
lemma per group of actions; `ClaimStep` is the long one. Two lemmas are of
interest in themselves: `NoDuplicates` shows that the duplicate filter of
`claim_due_events` never finds anything, as the unique index has already excluded
it; `StageStep` shows that each step is a step of `WakePromise` or none.

**DispatchLoop** (`DispatchLoopProofs`): type correctness, `OnlyLateRowsAreOverslept`
and `PlanStaysValid`, which are inductive with the types. The first makes
disagreement 1 exact: the window between notify and commit is the only one.

**Outbox** (`OutboxProofs`): type correctness, `NeverRedirected`, `OneCopyInFlight`
and the refinement of `OutboxPromise`, for any lease longer than the send timeout.
`SendsAreClaimed` is the heart: a send on the network, orphaned or not, is of the
part its row waits for, goes where the row is bound, and has less time left than
the row has to wait. So no claim finds a row with a send in flight. `Recorded`
says that what arrived is what is recorded or one part more.

**GroupRounds** (`GroupRoundsProofs`): type correctness, `LastOneSettles`,
`RoundsFollowAnswers` and `SettledOnce`, for any number of posts, teammates, rounds
and crashes. None is inductive: the handler that settles must know that its own
wake is still claimed (`WriterHasClaim`), an open wake keeps its round open and an
open round has an open wake (`OpenWakesKeepRound`, `RoundHasOpenWake`), and the round
that is opened next must be untouched (`BeginsAfterNext`), or it would be settled
twice. `SettleEffect` reads off what settling does, row by row; the other steps
touch no outcome (`QuietStep`).
That the group implements `RoundsPromise` (`Refinement`) follows from the same
invariant: a post that is new has no wakes (`NoneAsked`), the round the lock's holder
belongs to is open and so within the cap (`OpenIsWithinCap`), no wake but its own is
open when it settles, and the round it opens has no wakes yet; whoever answered was
asked and is no target, so `SettleRefines` has somebody who is not asked again.

**Inbound** (`MessageProofs`): type correctness, `AtMostOnce`, `NothingIsSkipped`
and `ExactlyOnce`, for any number of listeners. `NoGaps` says that whatever is
below a listener's offset, or below an update of its batch and not in it, was dealt
with by some listener; `ReceiptsCount` ties receipts to messages. From these it follows
that the listeners together implement `InboundPromise` (`Refinement`): an update a
listener is at is the first of its batch, so all before it are dealt with
(`FirstOfBatch`), and it is only passed with its receipt, as a command, or because the
chat the listener is bound to is another (`SettlingRefines`, `PostingRefines`).

**Routines** (`RoutinesProofs`): type correctness, `RunsAreCounted` and
`FiresOnceWhenDue`, for any number of routines, webhooks and manual runs. `ReadingsHaveRunsLeft` is the
strengthening: whatever a transaction means to fire had runs left when it read.
With the write of that reading plus one, the limit holds for `run_count` however
many transactions overlap - and by the same argument it does *not* hold for the
number of firings, which is why the property speaks of what did not race.
`FiresOnceWhenDue` is an action property: a firing at an interval is for the time that
is due and leaves it behind, and due times do not go back. Its invariant, `DueInv`, says
that what the pass means to fire is still due at the time it read, unless the routine
was retired (`StillDue`), and that an interval routine has a due time until it is
retired (`DueUntilRetired`) - so the branch of `update_routine` that sets one when there
is none is never taken, which is what keeps an outdated update harmless here.

**ManagedPortal** (`ManagedPortalProofs`): type correctness, `CurrentListens` and
`SerialReplaceIsClean`, for any number of forms. `StoppedWereInUse` is the reason
why the first holds in spite of any overlap: only an adapter that has been current
is ever stopped, and a form installs its adapter once, last of all. The second
needs what holds in the middle of a lone replacement (`StopsWhatItReplaces`,
`IsTheLatest`).

**Office** (`OfficeProofs`): type correctness, `RowsAreBacked` and
`ReportingLinesAreATree`, for every set of requests - the bound `Mixes` is an
arbitrary constant there. `WorkIsBacked` says what a request that has run its
command has left outside, and what is outside only grows. For the lines, `Lines`
adds to the types that requests under way together are recorded as such
(`Meetings`), and that, as long as no two hirings and no two reorganizations have
met, what a request has read of the lines has not changed to its harm (`AsRead`): a
newcomer has no reports, and who was not above his new manager still is not,
whatever a hiring or a retirement does beside it (`MoveKeepsTree`,
`NewcomerKeepsTree`, `RootKeepsTree`).

`LimitsHold` and `OutcomesAgree` rest on `Discipline`, which says what serializing is
worth: a handoff call past its first query has the write lock, and keeps it until it
commits or fails. So of the requests that check one thing, only one is past its check
unless two have met of which one did not take the lock (`AloneInside`), or, for those
that no lock serializes, unless two have met at all (`AloneUnderWay`); and what has
met stays met (`HistoryGrows`), so an exception once made is an exception for good.
Each limit then needs what a request has read and what still holds of it, for each pair, name, group or item
by itself:

| Part | What is carried from the check to the write |
|---|---|
| `TeamHasItsLimit` | the team is below its limit while a hiring is past its check (`TeamInOrder`), which a retirement only helps |
| `RunHasItsBudget` | a call under way has read the count the row still has, and the count is that of the calls done (`BudgetInOrder`) |
| `OneDmForEachPair` | a DM that was found missing is missing (`DmsInOrder`), since no step makes another room the DM of a pair (`DmOfPairWas`) |
| `OneOpenChannelOfAName` | a name that was free is free (`ChannelsInOrder`) |
| `GroupsHaveTheirLimit` | a place that was found is there (`GroupsInOrder`) |
| `OneRecorder` | a recorder that is on has its row, or is that of the one start about to commit it (`RecorderInOrder`) |
| the answer told | a resolution has found no answer and there is none, and its secret is the file's (`AnswersInOrder`) |
| the status of a card | a row has what its card has, or what the one move under way has read (`CardsInOrder`) |
| the text of `SOUL.md` | what was written there is there until its row says the same (`SoulsInOrder`) |
| what was verified | what is being stopped is still recording (`DemosInOrder`) |

`RoomAssumption` and `FirstRoomsAssumption` ask of the rooms the office begins with
what the properties ask of all. The proof of the DMs made the property exact:
`invite` takes any room, a DM included, which is then the DM of no pair; two DMs so
enlarged may have the same members. `OneDmForEachPair` therefore speaks of the
rooms whose members are two, as the lookup of `get_or_create_dm` does, and `MCOffice`
has the invitations that tell the two forms apart.

**Notifications** (`MessageProofs`): type correctness and `NoMarkWithoutShowing`, for
any number of messages, sizes, windows and stops. `NotificationInv` adds that a wake
is open while a run is under way, that there are no more wakes than messages, and
that while a page is being made every message is on it or counts among the missed,
which is why the mark of all there is by then says nothing untrue.

`TypeOK` of `Outbox`, `Inbound`, `ManagedPortal` and `GroupRounds` is proved and
not among what the runs check.

Every invariant, action property and refinement that a run checks is proved. Model-checked only are the liveness
properties (`WakesAreSettled`, `SignalIsAnswered`, `DueWorkIsDone`, `ConversationsEnd`,
`QueuedIsConcluded`, `EveryTextIsTaken`, `ReplaceEnds`, `DeadlinesMove`,
`FittingAreDelivered`), which with fairness and ENABLED are out of the prover's reach;
what `Remaining` computes, which needs induction over data and which
`FittingAreDelivered` depends on; and, of course, the violations.

## 5. What the models leave out

- `WakeQueue`: the rejection of an agent that wakes itself at once with the
  `state_hash` of its previous wake (`_reject_recursive_self_wake`); the `attempts`
  column of wakes, which nothing reads; the window of `max(16, 8 * limit)` rows, in
  the order of `due_at`, that a claim considers; the 24 rounds of one `drain`.
- `DispatchLoop`: the deadlines of routines, which only add deadlines; the pass over
  the routines is in `Routines`, though the code has it in the claim's transaction.
- `Routines`: `retire_routine` is one action, so a retirement that reads before
  another transaction writes is not modelled; what an update makes of the reason and
  of the word lists; a webhook's record when nobody listens.
  The words of a payload are a set, so matching inside words is not modelled. The
  docstring of `decide` (`filter.py:25`) says that `ignore_any` wins; the code, and
  the model, call a payload that both lists match ambiguous and wake the owner.
- `GroupRounds`: mentions, which narrow the first round's targets; the wake of an
  invitation, which belongs to no round; members who leave. A crash and the
  expiry of the leases it leaves are one step. The targets of the next round are
  judged by who is retired by then; the handler's session may hold a teammate's row
  as it was before the run (`expire_on_commit=False`) and wake one who has been
  retired since. Such a wake is like any that was pending at a retirement, and no
  property depends on it.
- `Outbox`: the attempts counter and the length of the delays (a choice from
  `Backoffs`); cutting a text into parts is planned as an algorithm of its own.
- `Inbound`: whom a text is addressed to (`parse_inbound`, `last_peer`), a failing
  reply to `/start`, updates that are no texts.
- `ManagedPortal`: what a form validates; a `replace` that raises.
- `Office`: task rooms; roles and notification levels of members; mandates, skills
  and avatars; the fallbacks inside a command (a command succeeds as a whole or the
  request fails, though one that fails may have left part of its effect; as the
  profile, the card and the video then only exist without a row, `RowsAreBacked`
  loses nothing); the notes of a demonstration; the reconciliation of recorders at
  the start. `update_agent` takes a retired manager, and so does the model. The
  members of a new group or DM are taken to be active teammates.
- `Notifications`: groups, in which more are notified; requests, loops, tasks and
  rooms in a context, which come after the notifications and compete only for what
  these leave; wakes are handled one after the other.
- Everything the table of section 1 calls not modelled: external programs and
  services, files, presentation. Wording, formatting and logs are not modelled.

## 6. Plan

Done: `WakeQueue` with `WakePromise`, `DispatchLoop`, `GroupRounds` with
`RoundsPromise`, `Outbox` with `OutboxPromise`, `Inbound` with `InboundPromise`,
`ManagedPortal`, `Routines`, `Office` with the modules it puts together,
`Notifications`, and proofs of every invariant, action property and refinement the
runs check.

Next:

1. Algorithms as operators over bounded inputs: `TelegramParts` (cutting a text),
   `ParseInbound` (the addressee), `SelfWake` (the rejection of self-wakes), each
   against a reference definition, in one run.
2. Proofs: what the routines promise (a firing is counted once by the transaction
   that makes it) as an abstract specification, in place of single invariants.
3. An abstract specification of `Office` in which a request takes effect at once,
   refined as long as no two requests of a kind meet.
4. Composition: `DispatchLoop` over `WakeQueue`'s claim, so that `late` rows and
   leases are in one model; then with the pass of `Routines` in the claim's
   transaction.

