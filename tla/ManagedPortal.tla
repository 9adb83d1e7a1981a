---------------------------- MODULE ManagedPortal ----------------------------
(***************************************************************************)
(* Replacing the portal's adapter: settings_portal of app/routes/pages.py  *)
(* and ManagedPortal of app/services/portal.py.  Each settings form saves  *)
(* its values and calls replace, which stops the listener, closes the      *)
(* adapter, installs the new one and starts its listener.  replace awaits  *)
(* twice and holds no lock, so two forms can be inside it together.        *)
(*                                                                         *)
(* Adapter n is the one built by the n-th form saved; adapter 0 is the one *)
(* of the start-up, with its listener running.                             *)
(***************************************************************************)
EXTENDS Naturals, FiniteSets

CONSTANTS
    Forms,        \* the settings forms, numbered in the order they are saved
    NoTask,       \* _listener is None
    MaxOverlap    \* bound: how many forms are inside replace at once

ASSUME ConstantsAssumption ==
    /\ Forms \subseteq Nat \ {0}
    /\ NoTask \notin Nat
    /\ MaxOverlap \in Nat \ {0}

Adapters == {0} \cup Forms

VARIABLES
    silent,      \* the adapters of kind "none", which have no listener
    current,     \* ManagedPortal._portal
    listener,    \* ManagedPortal._listener, as the adapter it belongs to
    task,        \* each listener: "none", "running", "cancelled" or "ended"
    stopped,     \* the adapters whose stop() was called
    form,        \* where each form is: "idle", "stopping", "closing" or "done"
    awaited,     \* the listener a form awaits
    overlapped   \* whether two forms have been inside replace together

vars == <<silent, current, listener, task, stopped, form, awaited, overlapped>>

Init ==
    /\ silent = {}
    /\ current = 0
    /\ listener = 0
    /\ task = [a \in Adapters |-> IF a = 0 THEN "running" ELSE "none"]
    /\ stopped = {}
    /\ form = [f \in Forms |-> "idle"]
    /\ awaited = [f \in Forms |-> NoTask]
    /\ overlapped = FALSE

Inside == {f \in Forms : form[f] \in {"stopping", "closing"}}

-----------------------------------------------------------------------------
\* Mutant: the listener is left alone and the adapter is not told to stop.
SaveOnly(f) ==
    /\ form[f] = "idle"
    /\ \A g \in Forms : g < f => form[g] # "idle"
    /\ Cardinality(Inside) < MaxOverlap
    /\ silent' \in {silent, silent \cup {f}}
    /\ overlapped' = (overlapped \/ Inside # {})
    /\ form' = [form EXCEPT ![f] = "closing"]
    /\ UNCHANGED <<current, listener, task, stopped, awaited>>

\* The form is saved and replace runs to its first await: the adapter is told
\* to stop, and its listener, if there is one, is cancelled and awaited.
Save(f) ==
    /\ form[f] = "idle"
    /\ \A g \in Forms : g < f => form[g] # "idle"
    /\ Cardinality(Inside) < MaxOverlap
    /\ silent' \in {silent, silent \cup {f}}
    /\ overlapped' = (overlapped \/ Inside # {})
    /\ stopped' = stopped \cup {current}
    /\ IF listener = NoTask
       THEN /\ form' = [form EXCEPT ![f] = "closing"]
            /\ UNCHANGED <<task, awaited>>
       ELSE /\ form' = [form EXCEPT ![f] = "stopping"]
            /\ task' = [task EXCEPT ![listener] =
                          IF @ = "running" THEN "cancelled" ELSE @]
            /\ awaited' = [awaited EXCEPT ![f] = listener]
    /\ UNCHANGED <<current, listener>>

\* A cancelled listener ends, and so does one whose adapter was stopped.
ListenerEnds(a) ==
    /\ \/ task[a] = "cancelled"
       \/ task[a] = "running" /\ a \in stopped
    /\ task' = [task EXCEPT ![a] = "ended"]
    /\ UNCHANGED <<silent, current, listener, stopped, form, awaited, overlapped>>

\* Mutant: a form waits until nobody else has cleared the listener.
CloseOwn(f) ==
    /\ form[f] = "stopping"
    /\ task[awaited[f]] = "ended"
    /\ listener = awaited[f]
    /\ listener' = NoTask
    /\ stopped' = stopped \cup {current}
    /\ form' = [form EXCEPT ![f] = "closing"]
    /\ awaited' = [awaited EXCEPT ![f] = NoTask]
    /\ UNCHANGED <<silent, current, task, overlapped>>

\* The listener has ended: replace forgets it and begins to close whatever
\* adapter is installed now.  Closing awaits the adapter's open connections;
\* for an adapter without any, others get no turn, which the model allows.
Close(f) ==
    /\ form[f] = "stopping"
    /\ task[awaited[f]] = "ended"
    /\ listener' = NoTask
    /\ stopped' = stopped \cup {current}
    /\ form' = [form EXCEPT ![f] = "closing"]
    /\ awaited' = [awaited EXCEPT ![f] = NoTask]
    /\ UNCHANGED <<silent, current, task, overlapped>>

\* Mutant: the adapter is closed after it was swapped.
InstallThenClose(f) ==
    /\ form[f] = "closing"
    /\ current' = f
    /\ stopped' = stopped \cup {f}
    /\ form' = [form EXCEPT ![f] = "done"]
    /\ IF f \in silent
       THEN UNCHANGED <<listener, task>>
       ELSE /\ listener' = f
            /\ task' = [task EXCEPT ![f] = "running"]
    /\ UNCHANGED <<silent, awaited, overlapped>>

\* The adapter's connections are closed; the new adapter takes its place.
Install(f) ==
    /\ form[f] = "closing"
    /\ current' = f
    /\ form' = [form EXCEPT ![f] = "done"]
    /\ IF f \in silent
       THEN UNCHANGED <<listener, task>>
       ELSE /\ listener' = f
            /\ task' = [task EXCEPT ![f] = "running"]
    /\ UNCHANGED <<silent, stopped, awaited, overlapped>>

Next ==
    \/ \E f \in Forms : Save(f) \/ Close(f) \/ Install(f)
    \/ \E a \in Adapters : ListenerEnds(a)

Spec == Init /\ [][Next]_vars

\* The event loop runs what can run.
FairSpec ==
    /\ Spec
    /\ \A f \in Forms : WF_vars(Close(f)) /\ WF_vars(Install(f))
    /\ \A a \in Adapters : WF_vars(ListenerEnds(a))

-----------------------------------------------------------------------------
TypeOK ==
    /\ silent \subseteq Forms
    /\ current \in Adapters
    /\ listener \in Adapters \cup {NoTask}
    /\ task \in [Adapters -> {"none", "running", "cancelled", "ended"}]
    /\ stopped \subseteq Adapters
    /\ form \in [Forms -> {"idle", "stopping", "closing", "done"}]
    /\ awaited \in [Forms -> Adapters \cup {NoTask}]
    /\ overlapped \in BOOLEAN

Quiet == Inside = {}

\* However forms overlap, once all are done the installed adapter has not
\* been stopped, and its listener runs and is the one replace will cancel.
CurrentListens ==
    Quiet /\ current \notin silent =>
        /\ current \notin stopped
        /\ task[current] = "running"
        /\ listener = current

\* An adapter that was replaced is stopped: no text comes in through it
\* (the docstring of ManagedPortal: "safely replacing its active adapter").
ReplacedIsStopped ==
    Quiet => \A a \in Adapters : task[a] = "running" /\ a # current => a \in stopped

\* That is so, and the adapter in use is the one of the settings saved last, as
\* long as no two forms were inside replace together.
SerialReplaceIsClean ==
    ~overlapped /\ Quiet =>
        /\ ReplacedIsStopped
        /\ \A f \in Forms : form[f] = "done" => f <= current

\* Every replacement comes to an end.
ReplaceEnds == \A f \in Forms : form[f] = "stopping" ~> form[f] = "done"
=============================================================================
