---------------------------- MODULE RoundsPromise ----------------------------
(***************************************************************************)
(* What a group chat promises those who talk in it, without leases, locks, *)
(* handlers or crashes: a moderator asks some of them, waits until all of  *)
(* these have had their say, and only then, in the same breath, asks       *)
(* others or lets the conversation end for good.  At least one of those    *)
(* who were asked is not asked in the next round, and there are no more    *)
(* than MaxRounds rounds.                                                  *)
(***************************************************************************)
EXTENDS Naturals

CONSTANTS Talks, Speakers, MaxRounds

VARIABLES
    asked,    \* <<t, r, a>>: a has been asked in round r of the conversation t
    waiting   \* those of them that are still being waited for

vars == <<asked, waiting>>

Init == asked = {} /\ waiting = {}

Questions(t, r, T) == {<<t, r, a>> : a \in T}
NobodyAsked(t, r) == \A a \in Speakers : <<t, r, a>> \notin asked

\* A conversation begins.
Begin(t) ==
    /\ NobodyAsked(t, 1)
    /\ \E T \in SUBSET Speakers :
         /\ T # {}
         /\ asked' = asked \cup Questions(t, 1, T)
         /\ waiting' = waiting \cup Questions(t, 1, T)

\* One of several is done.
Finish(t, r, a) ==
    /\ <<t, r, a>> \in waiting
    /\ \E b \in Speakers \ {a} : <<t, r, b>> \in waiting
    /\ waiting' = waiting \ {<<t, r, a>>}
    /\ UNCHANGED asked

LastOne(t, r, a) ==
    /\ <<t, r, a>> \in waiting
    /\ \A b \in Speakers \ {a} : <<t, r, b>> \notin waiting

\* The last one is done, and the conversation is over.
End(t, r, a) ==
    /\ LastOne(t, r, a)
    /\ waiting' = waiting \ {<<t, r, a>>}
    /\ UNCHANGED asked

\* The last one is done, and others are asked what they think of what was said.
GoOn(t, r, a) ==
    /\ LastOne(t, r, a)
    /\ r < MaxRounds
    /\ NobodyAsked(t, r + 1)
    /\ \E T \in SUBSET Speakers :
         /\ T # {}
         /\ \E b \in Speakers \ T : <<t, r, b>> \in asked
         /\ asked' = asked \cup Questions(t, r + 1, T)
         /\ waiting' = (waiting \ {<<t, r, a>>}) \cup Questions(t, r + 1, T)

Next ==
    \E t \in Talks :
        \/ Begin(t)
        \/ \E r \in 1 .. MaxRounds, a \in Speakers : Finish(t, r, a) \/ End(t, r, a) \/ GoOn(t, r, a)

Spec == Init /\ [][Next]_vars
=============================================================================
