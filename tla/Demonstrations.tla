--------------------------- MODULE Demonstrations ---------------------------
(***************************************************************************)
(* Demonstrations (app/services/demonstrations.py, verify_demonstration of *)
(* app/services/team.py): the human records the shared desktop, stops, and *)
(* the teammate learns from the video and says that it has.                *)
(***************************************************************************)
EXTENDS Staff

CONSTANTS
    OldDemos,   \* the demonstrations there are in the beginning, all recording
    Learner     \* the teammate of each of them

Demos == OldDemos \cup Made("start")

ASSUME DemoAssumption ==
    /\ OldDemos \cap Requests = {}
    /\ IsFiniteSet(OldDemos)
    /\ Learner \in [OldDemos -> Agents]
    /\ \A q \in Made("start") : Job[q].agent \in Agents
    /\ \A q \in Made("stop") \cup Made("verify") : Job[q].demo \in Demos

LearnerOf(d) == IF d \in OldDemos THEN Learner[d] ELSE Job[d].agent

VARIABLES
    phase,     \* status, or "none" while there is no row
    recorder   \* outside: ffmpeg is "off", "on" or "stopped" with its video there

demoVars == <<phase, recorder>>

\* There is at most one recording to begin with.
DemoInit ==
    /\ \E D \in SUBSET OldDemos :
         /\ Cardinality(D) <= 1
         /\ phase = [d \in Demos |-> IF d \in D THEN "recording" ELSE "none"]
         /\ recorder = [d \in Demos |-> IF d \in D THEN "on" ELSE "off"]

-----------------------------------------------------------------------------
StartReads(q) ==
    /\ Job[q].op = "start"
    /\ Job[q].agent \in hired
    /\ \A d \in Demos : phase[d] # "recording"
    /\ Reads(q)
    /\ UNCHANGED demoVars

\* The row is flushed, as its id names the directory.
StartInserts(q) ==
    /\ Job[q].op = "start"
    /\ Inserts(q)
    /\ UNCHANGED demoVars

StartRecords(q) ==
    /\ Job[q].op = "start"
    /\ Acts(q, "inserted")
    /\ recorder' = [recorder EXCEPT ![q] = "on"]
    /\ UNCHANGED phase

StartCommits(q) ==
    /\ Job[q].op = "start"
    /\ Commits(q, "acted")
    /\ phase' = [phase EXCEPT ![q] = "recording"]
    /\ UNCHANGED recorder

StopReads(q) ==
    /\ Job[q].op = "stop"
    /\ phase[Job[q].demo] = "recording"
    /\ Reads(q)
    /\ saw' = [saw EXCEPT ![q] = retired]
    /\ UNCHANGED demoVars
    /\ UNCHANGED <<hired, retired, boss, role, profiles, soul>>

\* kill and wait; a recorder that has stopped already does no harm.
StopEnds(q) ==
    /\ Job[q].op = "stop"
    /\ Acts(q, "read")
    /\ recorder' = [recorder EXCEPT ![Job[q].demo] = "stopped"]
    /\ UNCHANGED phase
    /\ UNCHANGED staffVars

\* The status is set whatever it has become; the teammate that was read is woken.
StopWrites(q) ==
    /\ Job[q].op = "stop"
    /\ LearnerOf(Job[q].demo) \notin saw[q]
    /\ Commits(q, "acted")
    /\ phase' = [phase EXCEPT ![Job[q].demo] = "learning"]
    /\ UNCHANGED recorder
    /\ UNCHANGED staffVars

VerifyReads(q) ==
    /\ Job[q].op = "verify"
    /\ phase[Job[q].demo] = "learning"
    /\ Reads(q)
    /\ UNCHANGED demoVars

VerifyWrites(q) ==
    /\ Job[q].op = "verify"
    /\ Commits(q, "read")
    /\ phase' = [phase EXCEPT ![Job[q].demo] = "verified"]
    /\ UNCHANGED recorder

-----------------------------------------------------------------------------
DemoTypeOK ==
    /\ phase \in [Demos -> {"none", "recording", "learning", "verified"}]
    /\ recorder \in [Demos -> {"off", "on", "stopped"}]
=============================================================================
