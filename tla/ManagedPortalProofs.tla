------------------------- MODULE ManagedPortalProofs -------------------------
(***************************************************************************)
(* Proofs about replacing the adapter, for any number of settings forms    *)
(* inside replace together.  An adapter that is still to be installed has  *)
(* never been the current one, so nobody has stopped it; and a form that   *)
(* is alone inside replace has stopped the adapter it replaces and is the  *)
(* latest of those saved.                                                  *)
(***************************************************************************)
EXTENDS ManagedPortal, TLAPS

\* What was stopped has been in use, and what was in use was installed.
StoppedWereInUse ==
    /\ current # 0 => form[current] = "done"
    /\ \A a \in stopped : a # 0 => form[a] = "done"

\* Forms are saved one after the other.
SavedInOrder ==
    \A f, g \in Forms : form[g] # "idle" /\ f < g => form[f] # "idle"

\* What holds while no two forms have met, before and after a replacement as well as
\* in the middle of it.
InsideAlone == \A f, g \in Inside : f = g
OthersAreStopped == \A a \in Adapters : task[a] = "running" /\ a # current => a \in stopped
StopsWhatItReplaces == Inside # {} => current \in stopped
IsTheLatest == \A f \in Inside : \A g \in Forms : form[g] # "idle" => g <= f
LatestIsInUse == \A f \in Forms : form[f] = "done" => f <= current

SerialInv ==
    ~overlapped =>
        /\ InsideAlone
        /\ OthersAreStopped
        /\ StopsWhatItReplaces
        /\ IsTheLatest
        /\ LatestIsInUse

IInv ==
    /\ TypeOK
    /\ StoppedWereInUse
    /\ SavedInOrder
    /\ CurrentListens
    /\ SerialInv

LEMMA InitInvariant == Init => IInv
<1> SUFFICES ASSUME Init PROVE IInv
  OBVIOUS
<1>1. TypeOK
  BY ConstantsAssumption DEF Init, TypeOK, Adapters
<1>2. Inside = {}
  BY DEF Init, Inside
<1>3. StoppedWereInUse /\ SavedInOrder /\ CurrentListens
  BY DEF Init, StoppedWereInUse, SavedInOrder, CurrentListens, Adapters
<1>4. SerialInv
  BY <1>2 DEF Init, SerialInv, InsideAlone, OthersAreStopped, StopsWhatItReplaces,
              IsTheLatest, LatestIsInUse
<1> QED BY <1>1, <1>3, <1>4 DEF IInv

-----------------------------------------------------------------------------
\* A form enters replace: somebody is inside afterwards, and it stops the adapter in
\* use.
LEMMA SaveKeeps == ASSUME IInv, NEW f \in Forms, Save(f) PROVE IInv'
<1> USE ConstantsAssumption
<1>1. TypeOK'
  BY DEF IInv, TypeOK, Save
<1>2. /\ form'[f] \in {"stopping", "closing"}
      /\ \A g \in Forms \ {f} : form'[g] = form[g]
  <2>1. form \in [Forms -> {"idle", "stopping", "closing", "done"}]
    BY DEF IInv, TypeOK
  <2>2. CASE listener = NoTask
    <3>1. form' = [form EXCEPT ![f] = "closing"]
      BY <2>2 DEF Save
    <3> QED BY <2>1, <3>1
  <2>3. CASE listener # NoTask
    <3>1. form' = [form EXCEPT ![f] = "stopping"]
      BY <2>3 DEF Save
    <3> QED BY <2>1, <3>1
  <2> QED BY <2>2, <2>3
<1>3. StoppedWereInUse'
  <2>1. /\ current' = current /\ stopped' = stopped \cup {current}
        /\ form[f] = "idle"
    BY DEF Save
  <2>2. \A a \in Adapters : a # 0 /\ form[a] = "done" => form'[a] = "done"
    BY <1>2, <2>1 DEF Adapters
  <2>3. current \in Adapters /\ stopped \subseteq Adapters
    BY DEF IInv, TypeOK
  <2> QED BY <2>1, <2>2, <2>3 DEF IInv, StoppedWereInUse
<1>4. SavedInOrder'
  BY <1>2 DEF IInv, TypeOK, SavedInOrder, Save
<1>5. f \in Inside'
  BY <1>2 DEF Inside
<1>6. CurrentListens'
  BY <1>5 DEF CurrentListens, Quiet
<1>7. SerialInv'
  <2> SUFFICES ASSUME ~overlapped'
               PROVE  /\ InsideAlone' /\ OthersAreStopped' /\ StopsWhatItReplaces'
                      /\ IsTheLatest' /\ LatestIsInUse'
    BY DEF SerialInv
  <2>1. ~overlapped /\ Inside = {}
    BY DEF Save, IInv, TypeOK
  <2>2. Inside' = {f}
    BY <1>2, <2>1 DEF Inside, IInv, TypeOK
  <2>3. InsideAlone' /\ StopsWhatItReplaces'
    BY <2>2 DEF InsideAlone, StopsWhatItReplaces, Save
  <2>4. OthersAreStopped'
    BY <2>1 DEF IInv, SerialInv, OthersAreStopped, Save, TypeOK
  <2>5. IsTheLatest'
    <3> SUFFICES ASSUME NEW g \in Forms, form'[g] # "idle" PROVE g <= f
      BY <2>2 DEF IsTheLatest
    <3>1. g = f \/ form[g] # "idle"
      BY <1>2 DEF IInv, TypeOK
    <3>2. ~(f < g) \/ g = f
      BY <3>1 DEF IInv, SavedInOrder, Save
    <3> QED BY <3>2
  <2>6. LatestIsInUse'
    BY <1>2, <2>1 DEF IInv, SerialInv, LatestIsInUse, Save, TypeOK
  <2> QED BY <2>3, <2>4, <2>5, <2>6
<1> QED BY <1>1, <1>3, <1>4, <1>6, <1>7 DEF IInv

\* A listener ends that was cancelled or whose adapter was stopped: never the one of
\* the adapter in use while nobody is inside.
LEMMA ListenerEndsKeeps == ASSUME IInv, NEW a \in Adapters, ListenerEnds(a) PROVE IInv'
<1>1. TypeOK' /\ StoppedWereInUse' /\ SavedInOrder'
  BY DEF IInv, TypeOK, StoppedWereInUse, SavedInOrder, ListenerEnds
<1>2. Inside' = Inside
  BY DEF Inside, ListenerEnds
<1>3. CurrentListens'
  BY <1>2 DEF IInv, TypeOK, CurrentListens, Quiet, ListenerEnds
<1>4. SerialInv'
  BY <1>2 DEF IInv, TypeOK, SerialInv, InsideAlone, OthersAreStopped, StopsWhatItReplaces,
              IsTheLatest, LatestIsInUse, ListenerEnds
<1> QED BY <1>1, <1>3, <1>4 DEF IInv

LEMMA CloseKeeps == ASSUME IInv, NEW f \in Forms, Close(f) PROVE IInv'
<1>1. TypeOK' /\ StoppedWereInUse' /\ SavedInOrder'
  BY DEF IInv, TypeOK, StoppedWereInUse, SavedInOrder, Close
<1>2. Inside' = Inside /\ f \in Inside
  BY DEF Inside, Close, IInv, TypeOK
<1>3. CurrentListens'
  BY <1>2 DEF CurrentListens, Quiet
<1>4. SerialInv'
  BY <1>2 DEF IInv, TypeOK, SerialInv, InsideAlone, OthersAreStopped, StopsWhatItReplaces,
              IsTheLatest, LatestIsInUse, Close
<1> QED BY <1>1, <1>3, <1>4 DEF IInv

\* The new adapter was never in use, so it is not stopped; the one it replaces is, if
\* the form is alone.
LEMMA InstallKeeps == ASSUME IInv, NEW f \in Forms, Install(f) PROVE IInv'
<1> USE ConstantsAssumption
<1>1. TypeOK'
  BY DEF IInv, TypeOK, Adapters, Install
<1>2. StoppedWereInUse' /\ SavedInOrder'
  BY DEF IInv, TypeOK, StoppedWereInUse, SavedInOrder, Install
<1>3. f \notin stopped /\ f \in Inside
  BY DEF IInv, StoppedWereInUse, Install, Inside
<1>4. CurrentListens'
  BY <1>3 DEF IInv, TypeOK, CurrentListens, Adapters, Install
<1>5. SerialInv'
  <2> SUFFICES ASSUME ~overlapped'
               PROVE  /\ InsideAlone' /\ OthersAreStopped' /\ StopsWhatItReplaces'
                      /\ IsTheLatest' /\ LatestIsInUse'
    BY DEF SerialInv
  <2>1. ~overlapped
    BY DEF Install
  <2>2. Inside' = {}
    BY <1>3, <2>1 DEF IInv, TypeOK, SerialInv, InsideAlone, Inside, Install
  <2>3. OthersAreStopped'
    BY <1>3, <2>1 DEF IInv, TypeOK, SerialInv, OthersAreStopped, StopsWhatItReplaces,
                      Adapters, Install
  <2>4. LatestIsInUse'
    BY <1>3, <2>1 DEF IInv, TypeOK, SerialInv, IsTheLatest, LatestIsInUse, Install
  <2> QED BY <2>2, <2>3, <2>4 DEF InsideAlone, StopsWhatItReplaces, IsTheLatest
<1> QED BY <1>1, <1>2, <1>4, <1>5 DEF IInv

LEMMA NextInvariant == IInv /\ [Next]_vars => IInv'
<1> SUFFICES ASSUME IInv, [Next]_vars PROVE IInv'
  OBVIOUS
<1>1. CASE UNCHANGED vars
  BY <1>1 DEF vars, IInv, TypeOK, StoppedWereInUse, SavedInOrder, CurrentListens, Quiet,
              Inside, SerialInv, InsideAlone, OthersAreStopped, StopsWhatItReplaces,
              IsTheLatest, LatestIsInUse
<1> QED
  BY <1>1, SaveKeeps, CloseKeeps, InstallKeeps, ListenerEndsKeeps DEF Next

\* Every reachable state satisfies IInv.
THEOREM Invariance == Spec => []IInv
  BY InitInvariant, NextInvariant, PTL DEF Spec

\* The state is well typed.
THEOREM TypeCorrect == Spec => []TypeOK
<1>1. IInv => TypeOK
  BY DEF IInv
<1> QED BY <1>1, Invariance, PTL

\* However many forms are inside replace together, once all are done the adapter in use
\* has not been stopped and its listener runs.
THEOREM Listens == Spec => []CurrentListens
<1>1. IInv => CurrentListens
  BY DEF IInv
<1> QED BY <1>1, Invariance, PTL

\* Without overlap every replaced adapter is stopped and the settings saved last win.
THEOREM SerialIsClean == Spec => []SerialReplaceIsClean
<1>1. IInv => SerialReplaceIsClean
  BY DEF IInv, SerialInv, SerialReplaceIsClean, ReplacedIsStopped, OthersAreStopped,
         LatestIsInUse
<1> QED BY <1>1, Invariance, PTL
=============================================================================
