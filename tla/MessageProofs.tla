---------------------------- MODULE MessageProofs ----------------------------
(***************************************************************************)
(* Proofs about what becomes of a message: a text coming in (Inbound), for *)
(* any updates, chats and number of listeners, and the notification made   *)
(* of it (Notifications), for any sizes, windows and budgets.              *)
(*                                                                         *)
(* The inductive invariant of Inbound says that receipts count messages,   *)
(* and that what a running listener has not in its batch, below an update  *)
(* of the batch or its offset, was dealt with by some listener.  So the    *)
(* listeners together implement InboundPromise.  That of Notifications     *)
(* says that there is no wake without a message, that a run has a wake,    *)
(* and that what is neither on the page being made nor posted since was    *)
(* too old for it.                                                         *)
(***************************************************************************)
EXTENDS Inbound, Notifications, TLAPS

ReceiptsCount == \A u \in Updates : posted[u] = IF u \in receipts THEN 1 ELSE 0

SentInOrder == \A u \in sent : \A v \in Updates : v < u => v \in sent

\* Nothing is missing below a listener's offset or inside its batch.
NoGaps ==
    \A l \in Listeners :
        /\ ~running[l] => todo[l] = {} /\ writing[l] = NoUpdate
        /\ running[l] => \A v \in Updates : v < offset[l] => v \in taken
        /\ todo[l] \subseteq sent
        /\ \A u \in todo[l] : \A v \in Updates : v < u => v \in taken \cup todo[l]

\* A callback works on the first text of the batch, of the bound chat.
CallbackIsFirst ==
    \A l \in Listeners :
        writing[l] # NoUpdate =>
            /\ running[l]
            /\ writing[l] \in todo[l]
            /\ \A v \in todo[l] : writing[l] <= v
            /\ writing[l] \notin Commands

StartsBound ==
    \A l \in Listeners : \A c \in Chats :
        running[l] /\ configured \subseteq {c} => chat[l] = c

IInv ==
    /\ TypeOK
    /\ ReceiptsCount
    /\ SentInOrder
    /\ NoGaps
    /\ CallbackIsFirst
    /\ StartsBound
    /\ ConfirmedIsTaken
    /\ TakenInOrder
    /\ BoundTextsArrive

LEMMA InitInvariant == Init => IInv
  BY ConstantsAssumption
  DEF Init, IInv, TypeOK, ReceiptsCount, SentInOrder, NoGaps, CallbackIsFirst,
      StartsBound, ConfirmedIsTaken, TakenInOrder, BoundTextsArrive

-----------------------------------------------------------------------------
\* A listener that moves past the first update of its batch, which it has
\* posted unless it was no text for it, keeps what IInv says of progress.
LEMMA MovePastKeeps ==
    ASSUME IInv, NEW l \in Listeners, NEW u \in Updates,
           running[l], u \in todo[l], \A v \in todo[l] : u <= v,
           MovePast(l, u),
           UNCHANGED <<sent, confirmed, running>>
    PROVE  /\ todo' \in [Listeners -> SUBSET Updates]
           /\ offset' \in [Listeners -> Nat]
           /\ taken' \subseteq Updates
           /\ \A k \in Listeners :
                /\ ~running'[k] => todo'[k] = {}
                /\ running'[k] => \A v \in Updates : v < offset'[k] => v \in taken'
                /\ todo'[k] \subseteq sent'
                /\ \A w \in todo'[k] : \A v \in Updates : v < w => v \in taken' \cup todo'[k]
           /\ ConfirmedIsTaken'
           /\ TakenInOrder'
<1> USE ConstantsAssumption DEF IInv
<1>1. /\ todo' = [todo EXCEPT ![l] = @ \ {u}]
      /\ offset' = [offset EXCEPT ![l] = u + 1]
      /\ taken' = taken \cup {u}
  BY DEF MovePast
<1>2. Updates \subseteq Nat
  OBVIOUS
<1>3. \A v \in Updates : v < u => v \in taken
  <2> TAKE v \in Updates
  <2> HAVE v < u
  <2>1. v \notin todo[l]
    BY <1>2 DEF TypeOK
  <2> QED BY <2>1 DEF NoGaps
<1>4. /\ todo' \in [Listeners -> SUBSET Updates]
      /\ offset' \in [Listeners -> Nat]
      /\ taken' \subseteq Updates
  BY <1>1, <1>2 DEF TypeOK
<1>5. ASSUME NEW k \in Listeners
      PROVE  /\ ~running'[k] => todo'[k] = {}
             /\ running'[k] => \A v \in Updates : v < offset'[k] => v \in taken'
             /\ todo'[k] \subseteq sent'
             /\ \A w \in todo'[k] : \A v \in Updates : v < w => v \in taken' \cup todo'[k]
  <2>1. CASE k # l
    BY <1>1, <2>1 DEF NoGaps, TypeOK
  <2>2. CASE k = l
    <3>1. todo'[l] = todo[l] \ {u} /\ offset'[l] = u + 1
      BY <1>1 DEF TypeOK
    <3>2. \A v \in Updates : v < u + 1 => v \in taken'
      BY <1>1, <1>2, <1>3
    <3> QED BY <1>1, <2>2, <3>1, <3>2 DEF NoGaps
  <2> QED BY <2>1, <2>2
<1>6. ConfirmedIsTaken' /\ TakenInOrder'
  BY <1>1, <1>3 DEF ConfirmedIsTaken, TakenInOrder
<1> QED BY <1>4, <1>5, <1>6

\* The steps outside the listeners' loops.
LEMMA OuterInvariant ==
    ASSUME IInv,
           \/ \E u \in Updates : Write(u)
           \/ \E l \in Listeners : Start(l) \/ Stop(l) \/ Poll(l)
    PROVE  IInv'
<1> USE ConstantsAssumption DEF IInv
<1>1. ASSUME NEW u \in Updates, Write(u) PROVE IInv'
  <2>1. SentInOrder'
    BY <1>1 DEF Write, SentInOrder, TypeOK
  <2>2. TypeOK' /\ NoGaps'
    BY <1>1 DEF Write, listenerVars, database, TypeOK, NoGaps
  <2>3. /\ ReceiptsCount' /\ CallbackIsFirst' /\ StartsBound' /\ ConfirmedIsTaken'
        /\ TakenInOrder' /\ BoundTextsArrive'
    BY <1>1
    DEF Write, listenerVars, database, ReceiptsCount, CallbackIsFirst, StartsBound,
        ConfirmedIsTaken, TakenInOrder, BoundTextsArrive
  <2> QED BY <2>1, <2>2, <2>3
<1>2. ASSUME NEW l \in Listeners, Start(l) PROVE IInv'
  <2> PICK c \in Chats \cup {NoChat} : /\ chat' = [chat EXCEPT ![l] = c]
                                     /\ configured' = configured \cup {c}
    BY <1>2 DEF Start
  <2>0. /\ running' = [running EXCEPT ![l] = TRUE]
        /\ offset' = [offset EXCEPT ![l] = 0]
        /\ todo' = [todo EXCEPT ![l] = {}]
        /\ writing' = [writing EXCEPT ![l] = NoUpdate]
        /\ starts' \in 0 .. MaxStarts
        /\ UNCHANGED <<sent, confirmed, receipts, posted, taken, faults>>
    BY <1>2 DEF Start, telegram, database, TypeOK
  <2>1. TypeOK'
    BY <2>0 DEF TypeOK
  <2>2. NoGaps'
    <3> SUFFICES ASSUME NEW k \in Listeners
                 PROVE  /\ ~running'[k] => todo'[k] = {} /\ writing'[k] = NoUpdate
                        /\ running'[k] => \A v \in Updates : v < offset'[k] => v \in taken
                        /\ todo'[k] \subseteq sent
                        /\ \A u \in todo'[k] : \A v \in Updates :
                             v < u => v \in taken \cup todo'[k]
      BY <2>0 DEF NoGaps
    <3>1. CASE k = l
      BY <2>0, <3>1 DEF TypeOK
    <3>2. CASE k # l
      BY <2>0, <3>2 DEF TypeOK, NoGaps
    <3> QED BY <3>1, <3>2
  <2>3. CallbackIsFirst'
    BY <2>0 DEF TypeOK, CallbackIsFirst
  <2>4. StartsBound'
    BY <2>0 DEF TypeOK, StartsBound
  <2>5. /\ ReceiptsCount' /\ SentInOrder' /\ ConfirmedIsTaken' /\ TakenInOrder'
        /\ BoundTextsArrive'
    BY <2>0 DEF ReceiptsCount, SentInOrder, ConfirmedIsTaken, TakenInOrder, BoundTextsArrive
  <2> QED BY <2>1, <2>2, <2>3, <2>4, <2>5
<1>3. ASSUME NEW l \in Listeners, Stop(l) PROVE IInv'
  <2> USE <1>3 DEF Stop, telegram, database
  <2>1. TypeOK'
    BY DEF TypeOK
  <2>2. NoGaps'
    BY DEF TypeOK, NoGaps
  <2>3. CallbackIsFirst' /\ StartsBound'
    BY DEF TypeOK, CallbackIsFirst, StartsBound
  <2>4. /\ ReceiptsCount' /\ SentInOrder' /\ ConfirmedIsTaken' /\ TakenInOrder'
        /\ BoundTextsArrive'
    BY DEF ReceiptsCount, SentInOrder, ConfirmedIsTaken, TakenInOrder, BoundTextsArrive
  <2> QED BY <2>1, <2>2, <2>3, <2>4
<1>4. ASSUME NEW l \in Listeners, Poll(l) PROVE IInv'
  <2>1. /\ running[l] /\ todo[l] = {}
        /\ confirmed' \in {offset[l], confirmed}
        /\ todo' = [todo EXCEPT ![l] = {u \in sent : u >= confirmed' /\ u >= offset[l]}]
        /\ UNCHANGED <<sent, running, chat, offset, writing, receipts, posted, taken,
                       faults, configured, starts>>
    BY <1>4 DEF Poll, database
  <2>2. confirmed' \in Nat /\ offset[l] \in Nat /\ sent \subseteq Updates
    BY <2>1 DEF TypeOK
  <2>3. \A v \in Updates : v < confirmed' \/ v < offset[l] => v \in taken
    BY <2>1 DEF NoGaps, ConfirmedIsTaken
  <2>4. TypeOK'
    BY <2>1, <2>2 DEF TypeOK
  <2>5. writing[l] = NoUpdate
    BY <2>1 DEF CallbackIsFirst
  <2>6. NoGaps'
    <3> SUFFICES ASSUME NEW k \in Listeners
                 PROVE  /\ ~running[k] => todo'[k] = {} /\ writing[k] = NoUpdate
                        /\ running[k] => \A v \in Updates : v < offset[k] => v \in taken
                        /\ todo'[k] \subseteq sent
                        /\ \A u \in todo'[k] : \A v \in Updates :
                             v < u => v \in taken \cup todo'[k]
      BY <2>1 DEF NoGaps
    <3>1. CASE k # l
      BY <2>1, <3>1 DEF NoGaps, TypeOK
    <3>2. CASE k = l
      <4>1. todo'[l] = {u \in sent : u >= confirmed' /\ u >= offset[l]}
        BY <2>1 DEF TypeOK
      <4>2. ASSUME NEW u \in todo'[l], NEW v \in Updates, v < u
            PROVE  v \in taken \cup todo'[l]
        <5>1. v \in sent
          BY <4>1, <4>2 DEF SentInOrder
        <5>2. v < confirmed' \/ v < offset[l] \/ (v >= confirmed' /\ v >= offset[l])
          <6>1. v \in Nat
            OBVIOUS
          <6> HIDE ConstantsAssumption DEF IInv
          <6> QED BY <2>2, <6>1
        <5> QED BY <2>3, <4>1, <5>1, <5>2
      <4> QED BY <2>1, <3>2, <4>1, <4>2 DEF NoGaps
    <3> QED BY <3>1, <3>2
  <2>7. CallbackIsFirst'
    BY <2>1, <2>5 DEF CallbackIsFirst, TypeOK
  <2>8. ConfirmedIsTaken'
    BY <2>1, <2>3 DEF ConfirmedIsTaken
  <2>9. ReceiptsCount' /\ SentInOrder' /\ StartsBound' /\ TakenInOrder' /\ BoundTextsArrive'
    BY <2>1 DEF ReceiptsCount, SentInOrder, StartsBound, TakenInOrder, BoundTextsArrive
  <2> QED BY <2>4, <2>6, <2>7, <2>8, <2>9
<1> QED BY <1>1, <1>2, <1>3, <1>4

\* A step of _take that settles an update without the callback.
LEMMA SettleInvariant ==
    ASSUME IInv, NEW l \in Listeners, NEW u \in Updates,
           Bind(l, u) \/ Ignore(l, u) \/ AnswerStart(l, u) \/ FindReceipt(l, u)
    PROVE  IInv'
<1> USE ConstantsAssumption DEF IInv
<1>1. /\ running[l] /\ u \in todo[l] /\ (\A v \in todo[l] : u <= v) /\ writing[l] = NoUpdate
      /\ UNCHANGED <<sent, confirmed, running, writing, receipts, posted, configured,
                     starts>>
  BY DEF Bind, Ignore, AnswerStart, FindReceipt, IsText, Current, telegram, database
<1>2. /\ chat' \in [Listeners -> Chats \cup {NoChat}]
      /\ faults' \in 0 .. MaxFaults
      /\ \/ chat' = chat
         \/ chat[l] = NoChat /\ chat' = [chat EXCEPT ![l] = From[u]]
  BY DEF Bind, Ignore, AnswerStart, FindReceipt, TypeOK
<1>3. StartsBound'
  BY <1>1, <1>2 DEF StartsBound, TypeOK
<1>4. ReceiptsCount' /\ SentInOrder'
  BY <1>1 DEF ReceiptsCount, SentInOrder
<1>5. CASE UNCHANGED <<todo, offset, taken>>
  BY <1>1, <1>2, <1>3, <1>4, <1>5
  DEF TypeOK, NoGaps, CallbackIsFirst, ConfirmedIsTaken, TakenInOrder, BoundTextsArrive
<1>6. CASE MovePast(l, u)
  <2>1. /\ TypeOK'
        /\ ConfirmedIsTaken'
        /\ TakenInOrder'
    BY <1>1, <1>2, <1>6, MovePastKeeps DEF TypeOK
  <2>2. NoGaps'
    BY <1>1, <1>6, MovePastKeeps DEF NoGaps
  <2>3. CallbackIsFirst'
    BY <1>1, <1>6 DEF CallbackIsFirst, MovePast, TypeOK
  <2>4. u \in Commands \/ u \in receipts \/ chat[l] # From[u]
    BY DEF Bind, Ignore, AnswerStart, FindReceipt
  <2>5. configured \subseteq {From[u]} => u \in Commands \/ posted[u] = 1
    <3>1. From[u] \in Chats
      OBVIOUS
    <3> QED BY <1>1, <2>4, <3>1 DEF StartsBound, ReceiptsCount
  <2>6. BoundTextsArrive'
    BY <1>1, <1>6, <2>5 DEF BoundTextsArrive, MovePast
  <2> QED BY <1>3, <1>4, <2>1, <2>2, <2>3, <2>6
<1> QED BY <1>5, <1>6 DEF Bind, Ignore, AnswerStart, FindReceipt

\* The callback's transaction.
LEMMA PostInvariant ==
    ASSUME IInv, NEW l \in Listeners, NEW u \in Updates,
           BeginPost(l, u) \/ CommitPost(l, u) \/ FailPost(l, u)
    PROVE  IInv'
<1> USE ConstantsAssumption DEF IInv
<1>1. CASE BeginPost(l, u)
  <2> USE <1>1 DEF BeginPost, IsText, Current, telegram, database
  <2>1. TypeOK'
    BY DEF TypeOK
  <2>2. NoGaps'
    BY DEF NoGaps, TypeOK
  <2>3. CallbackIsFirst'
    BY DEF CallbackIsFirst, TypeOK
  <2>4. /\ ReceiptsCount' /\ SentInOrder' /\ StartsBound' /\ ConfirmedIsTaken'
        /\ TakenInOrder' /\ BoundTextsArrive'
    BY DEF ReceiptsCount, SentInOrder, StartsBound, ConfirmedIsTaken, TakenInOrder,
           BoundTextsArrive
  <2> QED BY <2>1, <2>2, <2>3, <2>4
<1>2. CASE FailPost(l, u)
  <2> USE <1>2 DEF FailPost, telegram, database
  <2>1. TypeOK'
    BY DEF TypeOK
  <2>2. NoGaps' /\ CallbackIsFirst'
    BY DEF NoGaps, CallbackIsFirst, TypeOK
  <2>3. /\ ReceiptsCount' /\ SentInOrder' /\ StartsBound' /\ ConfirmedIsTaken'
        /\ TakenInOrder' /\ BoundTextsArrive'
    BY DEF ReceiptsCount, SentInOrder, StartsBound, ConfirmedIsTaken, TakenInOrder,
           BoundTextsArrive
  <2> QED BY <2>1, <2>2, <2>3
<1>3. CASE CommitPost(l, u)
  <2>1. /\ writing[l] = u /\ u \notin receipts
        /\ receipts' = receipts \cup {u}
        /\ posted' = [posted EXCEPT ![u] = @ + 1]
        /\ writing' = [writing EXCEPT ![l] = NoUpdate]
        /\ UNCHANGED <<sent, confirmed, running, chat, configured, starts>>
        /\ faults' \in 0 .. MaxFaults
    BY <1>3 DEF CommitPost, telegram, TypeOK
  <2>2. /\ running[l] /\ u \in todo[l] /\ (\A v \in todo[l] : u <= v) /\ u \notin Commands
    BY <2>1 DEF CallbackIsFirst
  <2>3. ReceiptsCount'
    BY <2>1 DEF ReceiptsCount, TypeOK
  <2>4. posted'[u] = 1 /\ \A v \in Updates : v # u => posted'[v] = posted[v]
    BY <2>1 DEF ReceiptsCount, TypeOK
  <2>5. SentInOrder' /\ StartsBound'
    BY <2>1 DEF SentInOrder, StartsBound
  <2>6. /\ receipts' \subseteq Updates
        /\ posted' \in [Updates -> Nat]
        /\ writing' \in [Listeners -> Updates \cup {NoUpdate}]
    BY <2>1 DEF TypeOK
  <2>7. CASE UNCHANGED <<todo, offset, taken>>
    <3>1. TypeOK'
      BY <2>1, <2>6, <2>7 DEF TypeOK
    <3>2. NoGaps' /\ CallbackIsFirst'
      BY <2>1, <2>7 DEF NoGaps, CallbackIsFirst, TypeOK
    <3>3. ConfirmedIsTaken' /\ TakenInOrder'
      BY <2>1, <2>7 DEF ConfirmedIsTaken, TakenInOrder
    <3>4. BoundTextsArrive'
      BY <2>1, <2>4, <2>7 DEF BoundTextsArrive, TypeOK
    <3> QED BY <2>3, <2>5, <3>1, <3>2, <3>3, <3>4
  <2>8. CASE MovePast(l, u)
    <3>1. TypeOK' /\ ConfirmedIsTaken' /\ TakenInOrder'
      BY <2>1, <2>2, <2>6, <2>8, MovePastKeeps DEF TypeOK
    <3>2. NoGaps'
      BY <2>1, <2>2, <2>8, MovePastKeeps DEF NoGaps, TypeOK
    <3>3. CallbackIsFirst'
      BY <2>1, <2>8 DEF CallbackIsFirst, MovePast, TypeOK
    <3>4. BoundTextsArrive'
      BY <2>1, <2>4, <2>8 DEF BoundTextsArrive, MovePast, TypeOK
    <3> QED BY <2>3, <2>5, <3>1, <3>2, <3>3, <3>4
  <2> QED BY <1>3, <2>7, <2>8 DEF CommitPost
<1> QED BY <1>1, <1>2, <1>3

LEMMA NextInvariant == IInv /\ [Next]_vars => IInv'
<1> SUFFICES ASSUME IInv, [Next]_vars PROVE IInv'
  OBVIOUS
<1>1. CASE UNCHANGED vars
  BY <1>1
  DEF vars, IInv, TypeOK, ReceiptsCount, SentInOrder, NoGaps, CallbackIsFirst,
      StartsBound, ConfirmedIsTaken, TakenInOrder, BoundTextsArrive
<1>2. ASSUME NEW l \in Listeners, Take(l) PROVE IInv'
  BY <1>2, SettleInvariant, PostInvariant DEF Take
<1> QED BY <1>1, <1>2, OuterInvariant DEF Next

\* Every reachable state satisfies IInv.
THEOREM Invariance == Spec => []IInv
  BY InitInvariant, NextInvariant, PTL DEF Spec

\* The state is well typed.
THEOREM TypeCorrect == Spec => []TypeOK
  BY Invariance, PTL DEF IInv

\* A text never becomes two messages, for any number of listeners, restarts
\* and uncertain commits.
THEOREM NoDuplicates == Spec => []AtMostOnce
<1>1. IInv => AtMostOnce
  <2> SUFFICES ASSUME ReceiptsCount, NEW u \in Updates PROVE posted[u] <= 1
    BY DEF IInv, AtMostOnce
  <2>1. posted[u] = 1 \/ posted[u] = 0
    BY DEF ReceiptsCount
  <2> QED BY <2>1
<1> QED BY <1>1, Invariance, PTL

\* Updates are taken in order, and Telegram forgets none before it is taken.
THEOREM NothingSkipped == Spec => []NothingIsSkipped
<1>1. IInv => NothingIsSkipped
  BY DEF IInv, NothingIsSkipped
<1> QED BY <1>1, Invariance, PTL

\* No text is two messages, and with adapters started bound to one chat a text of it
\* that was taken is one.
THEOREM EachTextOnce == Spec => []ExactlyOnce
<1>1. IInv => BoundTextsArrive
  BY DEF IInv
<1> QED BY <1>1, NoDuplicates, Invariance, PTL DEF ExactlyOnce

-----------------------------------------------------------------------------
\* The promise.

LEMMA InitRefines == Init => Promise!Init
  BY DEF Init, Promise!Init

\* A listener works on a text that reached Telegram and follows only texts dealt with.
LEMMA FirstOfBatch ==
    ASSUME IInv, NEW l \in Listeners, NEW u \in todo[l], \A v \in todo[l] : u <= v
    PROVE  u \in sent /\ Promise!Before(u) \subseteq taken
<1>1. u \in Updates /\ \A v \in todo[l] : ~(v < u)
  BY ConstantsAssumption DEF IInv, TypeOK
<1> QED BY <1>1 DEF IInv, NoGaps, Promise!Before

\* A listener that moves past a text which needs no message more settles it.
LEMMA SettlingRefines ==
    ASSUME IInv, NEW l \in Listeners, NEW u \in Updates,
           Bind(l, u) \/ Ignore(l, u) \/ AnswerStart(l, u) \/ FindReceipt(l, u)
    PROVE  Promise!Settle(u) \/ UNCHANGED Promise!vars
<1>1. /\ running[l] /\ u \in todo[l] /\ \A v \in todo[l] : u <= v
      /\ UNCHANGED <<sent, posted, configured>>
  BY DEF Bind, Ignore, AnswerStart, FindReceipt, IsText, Current, telegram, database
<1>2. CASE taken' = taken
  BY <1>1, <1>2 DEF Promise!vars
<1>3. CASE MovePast(l, u)
  <2>1. u \in Commands \/ u \in receipts \/ chat[l] # From[u]
    BY ConstantsAssumption DEF Bind, Ignore, AnswerStart, FindReceipt
  <2>2. Promise!Owed(u) => posted[u] = 1
    <3>1. From[u] \in Chats
      BY ConstantsAssumption
    <3> QED BY <1>1, <2>1, <3>1 DEF IInv, StartsBound, ReceiptsCount, Promise!Owed
  <2> QED BY <1>1, <1>3, <2>2, FirstOfBatch DEF MovePast, Promise!Settle
<1> QED BY <1>2, <1>3 DEF Bind, Ignore, AnswerStart, FindReceipt

\* The commit of the callback delivers its text.
LEMMA PostingRefines ==
    ASSUME IInv, NEW l \in Listeners, NEW u \in Updates, CommitPost(l, u)
    PROVE  Promise!Deliver(u)
<1>1. /\ writing[l] = u /\ u \notin receipts /\ u # NoUpdate
      /\ posted' = [posted EXCEPT ![u] = @ + 1]
      /\ taken' \in {taken, taken \cup {u}}
      /\ UNCHANGED <<sent, configured>>
  BY ConstantsAssumption DEF CommitPost, MovePast, telegram
<1>2. u \in todo[l] /\ (\A v \in todo[l] : u <= v) /\ u \notin Commands
  BY <1>1 DEF IInv, CallbackIsFirst
<1>3. posted[u] = 0
  BY <1>1 DEF IInv, ReceiptsCount
<1>4. posted' = [posted EXCEPT ![u] = 1]
  BY <1>1, <1>3
<1> QED BY <1>1, <1>2, <1>3, <1>4, FirstOfBatch DEF Promise!Deliver

LEMMA NextRefines == IInv /\ [Next]_vars => Promise!Next \/ UNCHANGED Promise!vars
<1> SUFFICES ASSUME IInv, [Next]_vars PROVE Promise!Next \/ UNCHANGED Promise!vars
  OBVIOUS
<1>1. CASE UNCHANGED vars
  BY <1>1 DEF vars, Promise!vars
<1>2. ASSUME NEW u \in Updates, Write(u) PROVE Promise!Reach(u)
  BY <1>2 DEF Write, database, Promise!Reach, Promise!Before
<1>3. ASSUME NEW l \in Listeners, Start(l)
      PROVE  \E c \in Chats \cup {NoChat} : Promise!Configure(c)
  BY <1>3 DEF Start, telegram, database, Promise!Configure
<1>4. ASSUME NEW l \in Listeners, Stop(l) \/ Poll(l) PROVE UNCHANGED Promise!vars
  BY <1>4 DEF Stop, Poll, telegram, database, Promise!vars
<1>5. ASSUME NEW l \in Listeners, NEW u \in Updates, BeginPost(l, u) \/ FailPost(l, u)
      PROVE  UNCHANGED Promise!vars
  BY <1>5 DEF BeginPost, FailPost, telegram, database, Promise!vars
<1>6. ASSUME NEW l \in Listeners, Take(l) PROVE Promise!Next \/ UNCHANGED Promise!vars
  <2> PICK u \in Updates : \/ Bind(l, u) \/ Ignore(l, u) \/ AnswerStart(l, u) \/ FindReceipt(l, u)
                           \/ CommitPost(l, u)
                           \/ BeginPost(l, u) \/ FailPost(l, u)
    BY <1>6 DEF Take
  <2> QED BY <1>5, SettlingRefines, PostingRefines DEF Promise!Next
<1> QED BY <1>1, <1>2, <1>3, <1>4, <1>6 DEF Next, Promise!Next

\* The portal keeps InboundPromise for any updates, chats, listeners and faults.
THEOREM Refinement == Spec => KeepsPromise
<1>1. IInv /\ [Next]_vars => [Promise!Next]_Promise!vars
  BY NextRefines
<1> QED BY InitRefines, <1>1, Invariance, PTL DEF Spec, KeepsPromise, Promise!Spec

-----------------------------------------------------------------------------
\* Notifications.

NotificationInv ==
    /\ NotificationTypeOK
    /\ NoMarkWithoutShowing
    /\ wakes <= Len(log)
    /\ run = "running" => wakes > 0
    /\ page # NoPage => DOMAIN log \subseteq page \cup missed

LEMMA ContextIsPending == Context \subseteq Posted(Teammate) /\ Oldest \subseteq Posted(Teammate)
  BY DEF Context, Oldest, Pending

\* A message more leaves the others where they are.
LEMMA PostedStay ==
    ASSUME NotificationTypeOK, NEW m \in [to : {Teammate, You}, size : Sizes], log' = Append(log, m)
    PROVE  /\ log' \in Seq([to : {Teammate, You}, size : Sizes])
           /\ Len(log') = Len(log) + 1
           /\ DOMAIN log' = DOMAIN log \cup {Len(log) + 1}
           /\ \A p : Posted(p) \subseteq Posted(p)'
<1>1. log \in Seq([to : {Teammate, You}, size : Sizes])
  BY DEF NotificationTypeOK
<1>2. /\ log' \in Seq([to : {Teammate, You}, size : Sizes])
      /\ Len(log') = Len(log) + 1
      /\ \A i \in DOMAIN log : i \in DOMAIN log' /\ log'[i] = log[i]
      /\ DOMAIN log' = DOMAIN log \cup {Len(log) + 1}
  BY <1>1
<1> QED BY <1>2 DEF Posted

LEMMA Bounds == MaxMessages \in Nat /\ MaxStops \in Nat /\ PageSize \in Nat
  BY NotificationAssumption

LEMMA InitNotifications == NotificationInit => NotificationInv
<1> SUFFICES ASSUME NotificationInit PROVE NotificationInv
  OBVIOUS
<1>1. log = <<>> /\ wakes = 0 /\ stops = 0 /\ run = "none" /\ page = NoPage /\ lost = FALSE
  BY DEF NotificationInit
<1>2. delivered = {} /\ read = {} /\ full = {} /\ shown = {} /\ seen = {} /\ missed = {} /\ chances = {}
  BY DEF NotificationInit
<1>3. log \in Seq([to : {Teammate, You}, size : Sizes]) /\ Len(log) = 0
  BY <1>1
<1>4. 0 \in 0 .. MaxMessages /\ 0 \in 0 .. MaxStops
  BY Bounds
<1>5. NotificationTypeOK
  BY <1>1, <1>2, <1>3, <1>4 DEF NotificationTypeOK
<1> QED BY <1>1, <1>2, <1>3, <1>5 DEF NotificationInv, NoMarkWithoutShowing

LEMMA PostKeepsNotifications ==
    ASSUME NotificationInv, NEW p \in {Teammate, You}, NEW s \in Sizes, Post(p, s)
    PROVE  NotificationInv'
<1>1. /\ log' \in Seq([to : {Teammate, You}, size : Sizes])
      /\ Len(log') = Len(log) + 1 /\ Len(log) \in Nat /\ Len(log) < MaxMessages
      /\ DOMAIN log' = DOMAIN log \cup {Len(log) + 1}
      /\ \A a : Posted(a) \subseteq Posted(a)'
  BY PostedStay DEF NotificationInv, NotificationTypeOK, Post
<1>2. /\ UNCHANGED <<delivered, read, stops, run, full, page, shown, seen, chances, lost>>
      /\ wakes' \in {wakes, wakes + 1}
      /\ missed' = IF page = NoPage THEN missed ELSE missed \cup {Len(log) + 1}
  BY DEF Post
<1>3. wakes' \in 0 .. MaxMessages /\ wakes' <= Len(log') /\ wakes' >= wakes
  BY <1>1, <1>2, Bounds DEF NotificationInv, NotificationTypeOK
<1>4. NotificationTypeOK'
  BY <1>1, <1>2, <1>3 DEF NotificationInv, NotificationTypeOK
<1>5. NoMarkWithoutShowing'
  BY <1>2 DEF NotificationInv, NoMarkWithoutShowing
<1>6. run' = "running" => wakes' > 0
  BY <1>2, <1>3 DEF NotificationInv, NotificationTypeOK
<1>7. page' # NoPage => DOMAIN log' \subseteq page' \cup missed'
  BY <1>1, <1>2 DEF NotificationInv, NoPage
<1> QED BY <1>3, <1>4, <1>5, <1>6, <1>7 DEF NotificationInv

\* The steps of a run.
LEMMA RunKeepsNotifications ==
    ASSUME NotificationInv, RunStarts \/ LoadContext \/ RunEnds \/ Stops
    PROVE  NotificationInv'
<1>1. /\ UNCHANGED <<log, read, page, seen, missed>>
      /\ \A p : Posted(p)' = Posted(p)
  BY DEF RunStarts, LoadContext, RunEnds, RunSucceeds, RunFails, Stops, Posted
<1>2. /\ delivered' \subseteq shown' /\ shown' \subseteq Posted(Teammate)
      /\ shown \subseteq shown'
  BY ContextIsPending DEF RunStarts, LoadContext, RunEnds, RunSucceeds, RunFails, Stops, Acknowledge,
     NotificationInv, NotificationTypeOK, NoMarkWithoutShowing
<1>3. full' \subseteq Posted(Teammate) /\ chances' \subseteq Posted(Teammate)
  BY ContextIsPending DEF RunStarts, LoadContext, RunEnds, RunSucceeds, RunFails, Stops, Pending,
     NotificationInv, NotificationTypeOK
<1>4. /\ wakes' \in 0 .. MaxMessages /\ wakes' <= Len(log)
      /\ stops' \in 0 .. MaxStops
      /\ run' \in {"none", "running"} /\ (run' = "running" => wakes' > 0)
  <2>0. /\ wakes \in Nat /\ wakes <= MaxMessages /\ wakes <= Len(log) /\ Len(log) \in Nat
        /\ stops \in Nat /\ stops <= MaxStops
        /\ run = "running" => wakes > 0
    BY Bounds DEF NotificationInv, NotificationTypeOK
  <2>1. CASE RunStarts \/ LoadContext
    BY Bounds, <2>0, <2>1 DEF RunStarts, LoadContext
  <2>2. CASE RunEnds
    BY Bounds, <2>0, <2>2 DEF RunEnds, RunSucceeds, RunFails
  <2>3. CASE Stops
    BY Bounds, <2>0, <2>3 DEF Stops
  <2> QED BY <2>1, <2>2, <2>3
<1>5. lost' \in BOOLEAN
  BY DEF RunStarts, LoadContext, RunEnds, RunSucceeds, RunFails, Stops, NotificationInv, NotificationTypeOK
<1>6. NotificationTypeOK'
  BY <1>1, <1>2, <1>3, <1>4, <1>5 DEF NotificationInv, NotificationTypeOK
<1> QED BY <1>1, <1>2, <1>4, <1>6 DEF NotificationInv, NoMarkWithoutShowing

\* The steps of a page.
LEMMA PageKeepsNotifications ==
    ASSUME NotificationInv, PageReads \/ PageMarks
    PROVE  NotificationInv'
<1>1. /\ UNCHANGED <<log, delivered, wakes, stops, run, full, shown, chances, lost>>
      /\ \A p : Posted(p)' = Posted(p) /\ Posted(p) \subseteq DOMAIN log
  BY DEF PageReads, PageMarks, Posted
<1>2. CASE PageReads
  <2>1. /\ UNCHANGED <<read, seen>> /\ missed \subseteq missed' /\ missed' \subseteq DOMAIN log
        /\ page' \subseteq DOMAIN log
    BY <1>2 DEF PageReads, NotificationInv, NotificationTypeOK
  <2>2. Len(log) \in Nat /\ DOMAIN log = 1 .. Len(log) /\ PageSize \in Nat
    BY Bounds DEF NotificationInv, NotificationTypeOK
  <2>3. DOMAIN log \subseteq page' \cup missed'
    BY <1>2, <2>2 DEF PageReads
  <2> QED BY <1>1, <2>1, <2>3 DEF NotificationInv, NotificationTypeOK, NoMarkWithoutShowing
<1>3. CASE PageMarks
  <2>1. /\ read' = Posted(You) /\ seen' = seen \cup page /\ page' = NoPage /\ missed' = missed
        /\ page # NoPage
    BY <1>3 DEF PageMarks
  <2>2. seen' \subseteq DOMAIN log /\ read' \subseteq seen' \cup missed
    BY <1>1, <2>1 DEF NotificationInv, NotificationTypeOK
  <2> QED BY <1>1, <2>1, <2>2 DEF NotificationInv, NotificationTypeOK, NoMarkWithoutShowing
<1> QED BY <1>2, <1>3

LEMMA StepKeepsNotifications ==
    ASSUME NotificationInv, [NotificationNext]_notificationVars
    PROVE  NotificationInv'
<1>1. CASE UNCHANGED notificationVars
  BY <1>1 DEF notificationVars, NotificationInv, NotificationTypeOK, NoMarkWithoutShowing, Posted
<1> QED BY <1>1, PostKeepsNotifications, RunKeepsNotifications, PageKeepsNotifications
        DEF NotificationNext

LEMMA NotificationsInOrder == NotificationSpec => []NotificationInv
  BY InitNotifications, StepKeepsNotifications, PTL DEF NotificationSpec

\* The notifications, contexts and pages are well typed; there are never more open
\* wakes than messages, and none is closed that is not open.
THEOREM NotificationTypes == NotificationSpec => []NotificationTypeOK
  BY NotificationsInOrder, PTL DEF NotificationInv

\* What says it was delivered has been sent to the teammate in full, by a prompt whose
\* run succeeded or as an answer of context.load (acknowledge_context), and what is
\* marked read was on a page, too old for it or newer than it (mark_room_read), for
\* any sizes and however often runs fail and the process stops.
THEOREM MarksAreTrue == NotificationSpec => []NoMarkWithoutShowing
  BY NotificationsInOrder, PTL DEF NotificationInv
=============================================================================
