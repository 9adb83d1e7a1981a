---------------------------- MODULE HumanRequests ----------------------------
(***************************************************************************)
(* Requests to the human of app/services/team.py (create_human_request,    *)
(* resolve_human_request): a teammate asks, the human answers on the page, *)
(* and the answer goes back in a wake.  A row is named by the request that *)
(* makes it.                                                               *)
(***************************************************************************)
EXTENDS Staff

CONSTANTS
    Answers,   \* what the human may answer
    NoAnswer   \* no response_json, no wake, no entry in the file

Asks == Made("ask")

ASSUME HumanRequestAssumption ==
    /\ NoAnswer \notin Answers
    /\ \A q \in Asks : Job[q].agent \in Agents /\ Job[q].kind \in {"approval", "secret"}
    /\ \A q \in Made("resolve") : Job[q].request \in Asks /\ Job[q].answer \in Answers

VARIABLES
    asked,    \* the rows there are
    late,     \* those with expires_at in the past
    answer,   \* response_json; a row that has one has status "resolved"
    wake,     \* the payload of the open wake event human-response:<id>
    heard,    \* the answers the teammate has been told
    secret    \* outside: the value in the file of secrets

humanVars == <<asked, late, answer, wake, heard, secret>>

HumanRequestInit ==
    /\ asked = {}
    /\ late = {}
    /\ answer = [r \in Asks |-> NoAnswer]
    /\ wake = [r \in Asks |-> NoAnswer]
    /\ heard = [r \in Asks |-> {}]
    /\ secret = [r \in Asks |-> NoAnswer]

\* The row is flushed before the DM with the human is looked for.
AskHuman(q) ==
    /\ Job[q].op = "ask"
    /\ Job[q].agent \in hired
    /\ Once(q)
    /\ asked' = asked \cup {q}
    /\ UNCHANGED <<late, answer, wake, heard, secret>>

\* A row that has expired stays pending: the error that says so undoes the change
\* of its status.
ResolveReads(q) ==
    /\ Job[q].op = "resolve"
    /\ Job[q].request \in asked \ late
    /\ answer[Job[q].request] = NoAnswer
    /\ Reads(q)
    /\ saw' = [saw EXCEPT ![q] = retired]
    /\ UNCHANGED humanVars
    /\ UNCHANGED <<hired, retired, boss, role, profiles, soul>>

\* A secret goes to its file at once (upsert_env).
StoresSecret(q) ==
    /\ Job[q].op = "resolve"
    /\ Job[Job[q].request].kind = "secret"
    /\ Acts(q, "read")
    /\ secret' = [secret EXCEPT ![Job[q].request] = Job[q].answer]
    /\ UNCHANGED <<asked, late, answer, wake, heard>>
    /\ UNCHANGED staffVars

\* Mutant: the answer is recorded and its wake left to a later one.
TellNothing(r, a) == UNCHANGED wake

\* enqueue_wake: an open event with this dedupe key stays as it is.
TellAnswer(r, a) ==
    wake' = [wake EXCEPT ![r] = IF @ = NoAnswer THEN a ELSE @]

\* The teammate was read before a secret was stored, otherwise after the row was
\* written; a retired one has the wake refused.
ResolveWrites(q) ==
    /\ Job[q].op = "resolve"
    /\ LET r == Job[q].request
           secretly == Job[r].kind = "secret"
       IN  /\ Job[r].agent \notin (IF secretly THEN saw[q] ELSE retired)
           /\ Commits(q, IF secretly THEN "acted" ELSE "read")
           /\ answer' = [answer EXCEPT ![r] = Job[q].answer]
           /\ TellAnswer(r, Job[q].answer)
    /\ UNCHANGED <<asked, late, heard, secret>>
    /\ UNCHANGED staffVars

\* The time given by expires_at comes.
RequestExpires(r) ==
    /\ r \in asked \ late
    /\ Job[r].expires
    /\ late' = late \cup {r}
    /\ UNCHANGED <<asked, answer, wake, heard, secret>>

\* The run for the wake has its payload, and settles it.
HearAnswer(r) ==
    /\ r \in asked
    /\ wake[r] # NoAnswer
    /\ heard' = [heard EXCEPT ![r] = @ \cup {wake[r]}]
    /\ wake' = [wake EXCEPT ![r] = NoAnswer]
    /\ UNCHANGED <<asked, late, answer, secret>>

-----------------------------------------------------------------------------
HumanRequestTypeOK ==
    /\ asked \subseteq Asks
    /\ late \subseteq asked
    /\ answer \in [Asks -> Answers \cup {NoAnswer}]
    /\ wake \in [Asks -> Answers \cup {NoAnswer}]
    /\ heard \in [Asks -> SUBSET Answers]
    /\ secret \in [Asks -> Answers \cup {NoAnswer}]
=============================================================================
