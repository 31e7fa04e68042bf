---------------------- MODULE NotificationServiceProofs ----------------------
(***************************************************************************)
(* Proofs about NotificationService: a message that is committed was       *)
(* announced and pushed, in this order, and its duplicates are bounded,    *)
(* for every set of replicas and customers and every number of attempts.   *)
(*                                                                         *)
(* The facts about the loop are those of ConsumerProofs, instantiated as P *)
(* in the way CustomerServiceProofs does.                                  *)
(***************************************************************************)
EXTENDS NotificationService, Integers, FiniteSetTheorems, TLAPS

P == INSTANCE ConsumerProofs WITH
  Messages <- Customers \cup {NotJson}, Malformed <- {NotJson}

\* The constants meet the assumptions of Consumer.
LEMMA Assumptions == P!ConsumerAssumption /\ P!ProducerAssumption
BY NotificationAssumption, ProducerAssumption DEF P!ConsumerAssumption, P!ProducerAssumption

\* C and P say the same of the loop: its initial states, its steps, its invariant.
LEMMA SameInit == C!Init <=> P!Init
BY DEF C!Init, P!Init

\* The steps of the loop.
LEMMA SameNext == C!Next <=> P!Next
BY DEF C!Next, P!Next, C!vars, P!vars, C!brokerVars, P!brokerVars, C!loopVars,
       P!loopVars, C!outcomeVars, P!outcomeVars, C!Produce, P!Produce, C!Assign,
       P!Assign, C!Revoke, P!Revoke, C!Discard, P!Discard, C!Loop, P!Loop, C!Fetch,
       P!Fetch, C!Handle, P!Handle, C!HandlerOk, P!HandlerOk, C!HandlerFail,
       P!HandlerFail, C!DeadLetter, P!DeadLetter, C!DlqMarshalFail, P!DlqMarshalFail,
       C!DlqPublish, P!DlqPublish, C!Commit, P!Commit, C!Crash, P!Crash, C!Goto,
       P!Goto, C!WriteOutcomes, P!WriteOutcomes, C!Stored, P!Stored, C!GivesUp, P!GivesUp,
       C!TriesAgain, P!TriesAgain, C!Settled, P!Settled

\* The inductive invariant of the loop.
LEMMA SameIInv == C!IInv <=> P!IInv
BY DEF C!IInv, P!IInv, C!TypeOK, P!TypeOK, C!InHand, P!InHand, C!Carried, P!Carried,
       C!CarriedBy, P!CarriedBy, C!NothingSkipped, P!NothingSkipped, C!Calm, P!Calm,
       C!Settled, P!Settled, C!Offsets, P!Offsets

\* A step of the handler alone is a stutter of the loop.
LEMMA SameVars == UNCHANGED consumerVars => UNCHANGED P!vars /\ UNCHANGED C!vars
BY DEF consumerVars, P!vars, P!brokerVars, P!loopVars, P!outcomeVars,
       C!vars, C!brokerVars, C!loopVars, C!outcomeVars

-----------------------------------------------------------------------------

\* Every step of the service is a step of the consumer loop or leaves it alone.
LEMMA StepOfConsumer == Next => C!Next \/ UNCHANGED consumerVars
<1> SUFFICES ASSUME Next PROVE C!Next \/ UNCHANGED consumerVars
  OBVIOUS
<1>1. CASE Environment
  BY <1>1 DEF Environment, C!Next
<1>2. ASSUME NEW r \in Replicas, Fetch(r) \/ DeadLetter(r) \/ Commit(r) \/ Crash(r)
      PROVE  C!Next
  BY <1>2 DEF Fetch, DeadLetter, Commit, Crash, C!Next, C!Loop
<1>3. ASSUME NEW r \in Replicas, Handler(r) PROVE C!Handle(r) \/ UNCHANGED consumerVars
  BY <1>3 DEF Handler, DecodeFail, Create, CreateFail, Publish, Push, PushFail, C!Handle
<1> QED BY <1>1, <1>2, <1>3 DEF Next, Loop, C!Next, C!Loop

\* The module is written on the actions of Consumer, so that the invariant of the
\* loop holds of its variables here.
LEMMA Implements == Spec => C!Spec
<1>1. Init => C!Init
  BY DEF Init
<1>2. [Next]_vars => [C!Next]_(C!vars)
  BY StepOfConsumer, SameVars DEF vars
<1> QED BY <1>1, <1>2, PTL DEF Spec, C!Spec

\* The same for the other instance.
LEMMA StepOfP == [Next]_vars => [P!Next]_(P!vars)
BY StepOfConsumer, SameNext, SameVars DEF vars

\* The inductive invariant of the loop holds here.
LEMMA ConsumerInductive == Spec => []C!IInv
<1>1. Init => P!Init
  BY SameInit DEF Init
<1>2. Spec => P!Spec
  BY <1>1, StepOfP, PTL DEF Spec, P!Spec
<1>3. P!IInv => C!IInv
  BY SameIInv
<1> QED BY <1>2, <1>3, Assumptions, P!Inductive, PTL

-----------------------------------------------------------------------------

\* The parts of C!IInv the handler relies on.
LEMMA LoopFacts ==
  ASSUME C!IInv
  PROVE  /\ topic \in Seq(Customers \cup {NotJson})
         /\ pc \in [Replicas -> {"fetch", "handle", "deadletter", "commit"}]
         /\ msg \in [Replicas -> 0..Len(topic)]
         /\ handled \subseteq 1..Len(topic)
         /\ \A r \in Replicas : pc[r] = "handle" => msg[r] \in 1..Len(topic)
         /\ \A o \in 1..committed : o \in handled \cup dlq \cup dropped
BY DEF C!IInv, C!TypeOK, C!InHand, C!NothingSkipped, C!Offsets, C!Settled

\* Records are only appended to the topic.
LEMMA TopicGrows ==
  ASSUME C!IInv, [Next]_vars
  PROVE  Len(topic) <= Len(topic') /\ \A o \in 1..Len(topic) : topic'[o] = topic[o]
<1>1. P!TypeOK
  BY SameIInv DEF P!IInv
<1> QED BY <1>1, StepOfP, Assumptions, P!TopicGrows

\* A step of one replica's loop does not move the others.
LEMMA OthersStay ==
  ASSUME C!IInv, NEW r \in Replicas, C!Loop(r) \/ C!Crash(r), NEW q \in Replicas \ {r}
  PROVE  pc'[q] = pc[q] /\ msg'[q] = msg[q]
BY LoopFacts
DEF C!Loop, C!Handle, C!DeadLetter, C!Fetch, C!HandlerOk, C!HandlerFail,
    C!DlqMarshalFail, C!DlqPublish, C!Commit, C!Crash, C!Goto, C!brokerVars,
    C!loopVars, C!outcomeVars

-----------------------------------------------------------------------------

\* Rows are only appended to the table.
Grows ==
  /\ notifications' \in Seq(Customers)
  /\ Len(notifications) <= Len(notifications')
  /\ \A n \in 1..Len(notifications) : notifications'[n] = notifications[n]

\* No step of the service changes or removes a row.
LEMMA RowsGrow == TypeOK /\ [Next]_vars => Grows
<1> SUFFICES ASSUME TypeOK, [Next]_vars PROVE Grows
  OBVIOUS
<1>1. (\E c \in Customers : notifications' = Append(notifications, c))
      \/ notifications' = notifications
  BY DEF Next, vars, storeVars, Environment, Loop, Fetch, DeadLetter, Commit, Crash,
         Handler, DecodeFail, Create, CreateFail, Publish, Push, PushFail
<1>2. ASSUME NEW c \in Customers, notifications' = Append(notifications, c) PROVE Grows
  BY <1>2 DEF TypeOK, Grows
<1>3. CASE notifications' = notifications
  BY <1>3 DEF TypeOK, Grows
<1> QED BY <1>1, <1>2, <1>3

\* What is in progress at q stays so while q's attempt goes on.
LEMMA InProgressFrame ==
  ASSUME C!IInv, [Next]_vars, Grows, NEW q \in Replicas, InProgressAt(q),
         stage'[q] = stage[q], row'[q] = row[q], sends'[q] = sends[q],
         announced \subseteq announced',
         stage[q] # "decode" => pc'[q] = "handle" /\ msg'[q] = msg[q]
  PROVE  InProgressAt(q)'
<1>1. stage[q] # "decode" => topic'[msg'[q]] = topic[msg[q]]
  BY TopicGrows, LoopFacts DEF InProgressAt
<1> QED BY <1>1 DEF InProgressAt, RowsOf, Grows

\* A handled message keeps its pushed row, and a new one needs one.
LEMMA HandledFrame ==
  ASSUME HandlerInv, [Next]_vars, pushed \subseteq pushed',
         \A o \in handled' \ handled :
           /\ o \in 1..Len(topic)
           /\ topic[o] \in Customers =>
                \E n \in pushed' : n \in 1..Len(notifications') /\ notifications'[n] = topic[o]
  PROVE  HandledMeansPushed'
<1> SUFFICES ASSUME NEW o \in handled', topic'[o] \in Customers
             PROVE  \E n \in pushed' : n \in 1..Len(notifications') /\ notifications'[n] = topic'[o]
  BY DEF HandledMeansPushed, RowsOf
<1>1. o \in 1..Len(topic) /\ topic'[o] = topic[o]
  BY TopicGrows, LoopFacts DEF HandlerInv
<1>2. CASE o \in handled
  BY <1>1, <1>2, RowsGrow DEF HandlerInv, HandledMeansPushed, RowsOf, Grows
<1> QED BY <1>1, <1>2

\* Steps that change neither the handler's variables nor the stores.
LEMMA QuietStep ==
  ASSUME HandlerInv, C!TypeOK', [Next]_vars, UNCHANGED <<handlerVars, storeVars>>,
         \A q \in Replicas : stage[q] # "decode" => pc'[q] = "handle" /\ msg'[q] = msg[q]
  PROVE  TypeOK' /\ InProgress' /\ PushedMeansAnnounced'
<1>1. TypeOK' /\ PushedMeansAnnounced'
  BY DEF HandlerInv, TypeOK, PushedMeansAnnounced, handlerVars, storeVars
<1>2. InProgress'
  BY RowsGrow, InProgressFrame DEF HandlerInv, InProgress, handlerVars, storeVars
<1> QED BY <1>1, <1>2

\* A handler attempt that ends: the replica starts over, the others go on.
LEMMA ReturnStep ==
  ASSUME HandlerInv, C!TypeOK', [Next]_vars, NEW r \in Replicas, C!Loop(r) \/ C!Crash(r), Return(r),
         announced \subseteq announced', announced' \subseteq 1..Len(notifications'),
         pushed' \subseteq announced'
  PROVE  TypeOK' /\ InProgress' /\ PushedMeansAnnounced'
<1> USE DEF HandlerInv
<1>1. Grows
  BY RowsGrow
<1>2. /\ stage' \in [Replicas -> {"decode", "publish", "push"}]
      /\ sends' \in [Replicas -> 0..PublishAttempts]
      /\ stage'[r] = "decode" /\ row'[r] = 0 /\ sends'[r] = 0
  BY ProducerAssumption DEF Return, TypeOK
<1>3. row' \in [Replicas -> 0..Len(notifications')]
  BY <1>1 DEF Return, TypeOK, Grows
<1>4. TypeOK' /\ PushedMeansAnnounced'
  BY <1>1, <1>2, <1>3 DEF TypeOK, PushedMeansAnnounced, Grows
<1>5. InProgressAt(r)'
  BY <1>2 DEF InProgressAt
<1>6. ASSUME NEW q \in Replicas \ {r} PROVE InProgressAt(q)'
  <2>1. stage'[q] = stage[q] /\ row'[q] = row[q] /\ sends'[q] = sends[q]
    BY DEF Return, TypeOK
  <2>2. pc'[q] = pc[q] /\ msg'[q] = msg[q]
    BY OthersStay
  <2> QED BY <1>1, <2>1, <2>2, InProgressFrame DEF InProgress, InProgressAt
<1>7. InProgress'
  BY <1>5, <1>6 DEF InProgress
<1> QED BY <1>4, <1>7

\* INSERT: the replica has a row for the message in hand, which is neither
\* announced nor pushed.
LEMMA CreateStep ==
  ASSUME HandlerInv, C!TypeOK', [Next]_vars, NEW r \in Replicas, Create(r)
  PROVE  TypeOK' /\ InProgress' /\ PushedMeansAnnounced' /\ HandledMeansPushed'
<1> USE DEF HandlerInv, consumerVars
<1>1. PICK c \in Customers :
        pc[r] = "handle" /\ c = topic[msg[r]] /\ notifications' = Append(notifications, c)
  BY DEF Create, Handling
<1>2. /\ stage' = [stage EXCEPT ![r] = "publish"]
      /\ row' = [row EXCEPT ![r] = Len(notifications) + 1]
      /\ sends' = [sends EXCEPT ![r] = 1]
      /\ UNCHANGED <<consumerVars, announced, pushed>>
  BY DEF Create
<1>3. Grows /\ Len(notifications') = Len(notifications) + 1
      /\ notifications'[Len(notifications) + 1] = c
  BY <1>1, RowsGrow DEF TypeOK
<1>4. /\ stage' \in [Replicas -> {"decode", "publish", "push"}]
      /\ sends' \in [Replicas -> 0..PublishAttempts]
      /\ stage'[r] = "publish" /\ row'[r] = Len(notifications) + 1
  BY <1>2, ProducerAssumption DEF TypeOK
<1>5. row' \in [Replicas -> 0..Len(notifications')]
  BY <1>2, <1>3 DEF TypeOK
<1>6. TypeOK' /\ PushedMeansAnnounced'
  BY <1>2, <1>3, <1>4, <1>5 DEF TypeOK, PushedMeansAnnounced, Grows
<1>7. InProgressAt(r)'
  BY <1>1, <1>2, <1>3, <1>4 DEF InProgressAt, RowsOf, TypeOK
<1>8. ASSUME NEW q \in Replicas \ {r} PROVE InProgressAt(q)'
  BY <1>2, <1>3, InProgressFrame DEF InProgress, InProgressAt, TypeOK
<1>9. HandledMeansPushed'
  BY <1>2, HandledFrame
<1> QED BY <1>6, <1>7, <1>8, <1>9 DEF InProgress

\* An acknowledged attempt has stored the record; the last failed one ends the
\* handler attempt, any other leaves the row in hand.
LEMMA PublishStep ==
  ASSUME HandlerInv, C!TypeOK', [Next]_vars, NEW r \in Replicas, Publish(r)
  PROVE  TypeOK' /\ InProgress' /\ PushedMeansAnnounced' /\ HandledMeansPushed'
<1> USE DEF HandlerInv
<1>1. /\ pc[r] = "handle" /\ stage[r] = "publish" /\ row[r] \in 1..Len(notifications)
      /\ UNCHANGED <<notifications, pushed>>
  BY DEF Publish, Handling, InProgress, InProgressAt, RowsOf
<1>2. PICK w \in WriteOutcomes :
        /\ announced' = IF w.copies > 0 THEN announced \cup {row[r]} ELSE announced
        /\ \/ /\ w.acked
              /\ stage' = [stage EXCEPT ![r] = "push"]
              /\ sends' = [sends EXCEPT ![r] = 0]
              /\ UNCHANGED <<consumerVars, row>>
           \/ GivesUp(w, sends[r]) /\ C!HandlerFail(r) /\ Return(r)
           \/ /\ TriesAgain(w, sends[r])
              /\ sends' = [sends EXCEPT ![r] = @ + 1]
              /\ UNCHANGED <<consumerVars, stage, row>>
  BY DEF Publish
<1>3. /\ announced \subseteq announced' /\ announced' \subseteq 1..Len(notifications')
      /\ PushedMeansAnnounced'
  BY <1>1, <1>2 DEF TypeOK, PushedMeansAnnounced
<1>4. CASE C!HandlerFail(r) /\ Return(r)
  <2>1. C!Loop(r) /\ handled' = handled
    BY <1>4 DEF C!Loop, C!Handle, C!HandlerFail, C!outcomeVars
  <2>2. HandledMeansPushed'
    BY <1>1, <2>1, HandledFrame
  <2> QED BY <1>1, <1>3, <1>4, <2>1, <2>2, ReturnStep DEF PushedMeansAnnounced
<1>5. ASSUME UNCHANGED <<consumerVars, row>>, stage'[r] \in {"publish", "push"},
             stage'[r] = "push" => row[r] \in announced',
             stage' \in [Replicas -> {"decode", "publish", "push"}],
             sends' \in [Replicas -> 0..PublishAttempts],
             \A q \in Replicas \ {r} : stage'[q] = stage[q] /\ sends'[q] = sends[q]
      PROVE  TypeOK' /\ InProgress' /\ PushedMeansAnnounced' /\ HandledMeansPushed'
  <2> USE DEF consumerVars
  <2>1. TypeOK'
    BY <1>1, <1>3, <1>5 DEF TypeOK
  <2>2. InProgressAt(r)'
    BY <1>1, <1>5 DEF InProgress, InProgressAt, RowsOf
  <2>3. ASSUME NEW q \in Replicas \ {r} PROVE InProgressAt(q)'
    BY <1>3, <1>5, RowsGrow, InProgressFrame DEF InProgress, InProgressAt
  <2>4. HandledMeansPushed'
    BY <1>1, <1>5, HandledFrame
  <2> QED BY <1>3, <2>1, <2>2, <2>3, <2>4 DEF InProgress
<1>6. CASE /\ w.acked
           /\ stage' = [stage EXCEPT ![r] = "push"]
           /\ sends' = [sends EXCEPT ![r] = 0]
           /\ UNCHANGED <<consumerVars, row>>
  <2>1. row[r] \in announced'
    BY <1>2, <1>6 DEF WriteOutcomes
  <2>2. sends' \in [Replicas -> 0..PublishAttempts]
    BY <1>6, ProducerAssumption DEF TypeOK
  <2> QED BY <1>5, <1>6, <2>1, <2>2 DEF TypeOK
<1>7. CASE /\ TriesAgain(w, sends[r])
           /\ sends' = [sends EXCEPT ![r] = @ + 1]
           /\ UNCHANGED <<consumerVars, stage, row>>
  <2>1. sends[r] + 1 \in 0..PublishAttempts
    BY <1>7, ProducerAssumption DEF TypeOK, TriesAgain, GivesUp
  <2> QED BY <1>1, <1>5, <1>7, <2>1 DEF TypeOK
<1> QED BY <1>2, <1>4, <1>6, <1>7

\* PUBLISH to Redis: the row in hand was announced before, and the message that
\* becomes handled has this row.
LEMMA PushStep ==
  ASSUME HandlerInv, C!TypeOK', [Next]_vars, NEW r \in Replicas, Push(r) \/ PushFail(r)
  PROVE  TypeOK' /\ InProgress' /\ PushedMeansAnnounced' /\ HandledMeansPushed'
<1> USE DEF HandlerInv
<1>1. /\ pc[r] = "handle" /\ row[r] \in RowsOf(topic[msg[r]]) /\ row[r] \in announced
      /\ Return(r) /\ UNCHANGED <<notifications, announced>>
      /\ pushed \subseteq pushed' /\ pushed' \subseteq pushed \cup {row[r]}
  BY DEF Push, PushFail, Handling, InProgress, InProgressAt
<1>2. C!Loop(r)
  BY DEF Push, PushFail, C!Loop, C!Handle
<1>3. HandledMeansPushed'
  <2>1. CASE Push(r)
    <3>1. handled' = handled \cup {msg[r]} /\ row[r] \in pushed'
      BY <2>1 DEF Push, C!HandlerOk
    <3> QED BY <1>1, <3>1, LoopFacts, HandledFrame DEF RowsOf
  <2>2. CASE PushFail(r)
    <3>1. handled' = handled
      BY <2>2 DEF PushFail, C!HandlerFail, C!outcomeVars
    <3> QED BY <1>1, <3>1, HandledFrame
  <2> QED BY <2>1, <2>2
<1> QED BY <1>1, <1>2, <1>3, ReturnStep DEF TypeOK, PushedMeansAnnounced

\* An attempt that fails before it has a row, and a crash, may leave one behind.
LEMMA AbandonStep ==
  ASSUME HandlerInv, C!TypeOK', [Next]_vars, NEW r \in Replicas, CreateFail(r) \/ Crash(r)
  PROVE  TypeOK' /\ InProgress' /\ PushedMeansAnnounced' /\ HandledMeansPushed'
<1> USE DEF HandlerInv
<1>1. C!Loop(r) \/ C!Crash(r)
  BY DEF CreateFail, Crash, C!Loop, C!Handle
<1>2. Return(r)
  <2>1. CASE CreateFail(r)
    BY <2>1 DEF CreateFail, Handling, handlerVars, Return, TypeOK, InProgress, InProgressAt
  <2>2. CASE Crash(r)
    BY <2>2 DEF Crash
  <2> QED BY <2>1, <2>2
<1>3. UNCHANGED <<announced, pushed, handled>>
  BY DEF CreateFail, Crash, C!HandlerFail, C!Crash, C!outcomeVars
<1>4. HandledMeansPushed'
  BY <1>3, HandledFrame
<1>5. announced' \subseteq 1..Len(notifications')
  BY <1>3, RowsGrow DEF TypeOK, Grows
<1> QED BY <1>1, <1>2, <1>3, <1>4, <1>5, ReturnStep DEF PushedMeansAnnounced

\* The loop's own steps, and the record that is not JSON.
LEMMA LoopStep ==
  ASSUME HandlerInv, C!TypeOK', [Next]_vars, NEW r \in Replicas,
         Fetch(r) \/ DeadLetter(r) \/ Commit(r) \/ DecodeFail(r)
  PROVE  TypeOK' /\ InProgress' /\ PushedMeansAnnounced' /\ HandledMeansPushed'
<1> USE DEF HandlerInv
<1>1. C!Loop(r) /\ UNCHANGED <<handlerVars, storeVars>> /\ handled' = handled
  BY DEF Fetch, DeadLetter, Commit, DecodeFail, C!Loop, C!Handle, C!DeadLetter, C!Fetch,
         C!DlqMarshalFail, C!DlqPublish, C!Commit, C!HandlerFail, C!outcomeVars
<1>2. stage[r] = "decode"
  <2>1. DecodeFail(r) \/ pc[r] # "handle"
    BY DEF Fetch, DeadLetter, Commit, C!Fetch, C!DeadLetter, C!DlqMarshalFail,
           C!DlqPublish, C!Commit
  <2> QED BY <2>1 DEF DecodeFail, Handling, InProgress, InProgressAt
<1>3. \A q \in Replicas : stage[q] # "decode" => pc'[q] = "handle" /\ msg'[q] = msg[q]
  BY <1>1, <1>2, OthersStay DEF InProgress, InProgressAt
<1> QED BY <1>1, <1>3, QuietStep, HandledFrame DEF storeVars

\* The broker does not touch what is in progress.
LEMMA EnvironmentStep ==
  ASSUME HandlerInv, C!TypeOK', [Next]_vars, Environment \/ UNCHANGED vars
  PROVE  TypeOK' /\ InProgress' /\ PushedMeansAnnounced' /\ HandledMeansPushed'
<1>1. UNCHANGED <<pc, msg, handled, handlerVars, storeVars>>
  BY DEF Environment, vars, consumerVars, C!Produce, C!Assign, C!Revoke, C!Discard,
         C!loopVars, C!outcomeVars
<1>2. \A q \in Replicas : stage[q] # "decode" => pc'[q] = "handle" /\ msg'[q] = msg[q]
  BY <1>1 DEF HandlerInv, InProgress, InProgressAt
<1> QED BY <1>1, <1>2, QuietStep, HandledFrame DEF storeVars

\* Every step of the service preserves the invariant, given that of the loop.
LEMMA IInvStep == HandlerInv /\ C!IInv' /\ [Next]_vars => HandlerInv'
<1> SUFFICES ASSUME HandlerInv, C!IInv', [Next]_vars PROVE HandlerInv'
  OBVIOUS
<1>1. C!TypeOK'
  BY DEF C!IInv
<1> QED
  BY <1>1, EnvironmentStep, LoopStep, CreateStep, PublishStep, PushStep, AbandonStep
  DEF HandlerInv, Next, Loop, Handler

\* The invariant holds in the initial states.
LEMMA InitIInv == Init /\ C!IInv => HandlerInv
<1> SUFFICES ASSUME Init, C!IInv PROVE HandlerInv
  OBVIOUS
<1>1. TypeOK
  BY ProducerAssumption DEF Init, TypeOK, C!IInv
<1> QED BY <1>1 DEF Init, C!Init, HandlerInv, InProgress, InProgressAt, PushedMeansAnnounced,
                    HandledMeansPushed

\* The two invariants together are preserved by every step.
LEMMA IInvKept == HandlerInv /\ [Next]_vars => HandlerInv'
<1> SUFFICES ASSUME HandlerInv, [Next]_vars PROVE HandlerInv'
  OBVIOUS
<1>1. P!IInv /\ [P!Next]_(P!vars)
  BY SameIInv, StepOfConsumer, SameNext, SameVars DEF HandlerInv, vars
<1>2. P!IInv'
  BY <1>1, Assumptions, P!IInvStep
<1>3. C!IInv' <=> P!IInv'
  BY DEF C!IInv, P!IInv, C!TypeOK, P!TypeOK, C!InHand, P!InHand, C!Carried, P!Carried,
         C!CarriedBy, P!CarriedBy, C!NothingSkipped, P!NothingSkipped, C!Calm, P!Calm,
         C!Settled, P!Settled, C!Offsets, P!Offsets
<1> QED BY <1>2, <1>3, IInvStep

\* customer.created may grow by several records at once, the copies of one write.
LEMMA TopicExtended ==
  ASSUME HandlerInv, topic' \in Seq(Customers \cup {NotJson}), Len(topic) <= Len(topic'),
         \A o \in 1..Len(topic) : topic'[o] = topic[o],
         UNCHANGED <<committed, reader, churn, position, pc, msg, attempt, tries, handled, dlq,
                     dropped, handlerVars, storeVars>>
  PROVE  HandlerInv'
<1>1. C!IInv' /\ C!TypeOK'
  <2>1. P!IInv
    BY SameIInv DEF HandlerInv
  <2>2. P!IInv'
    BY <2>1, Assumptions, P!TopicExtended DEF P!loopVars, P!outcomeVars
  <2>3. C!IInv' <=> P!IInv'
    BY DEF C!IInv, P!IInv, C!TypeOK, P!TypeOK, C!InHand, P!InHand, C!Carried, P!Carried,
           C!CarriedBy, P!CarriedBy, C!NothingSkipped, P!NothingSkipped, C!Calm, P!Calm,
           C!Settled, P!Settled, C!Offsets, P!Offsets
  <2> QED BY <2>2, <2>3 DEF C!IInv
<1>2. \A q \in Replicas : stage[q] # "decode" => topic'[msg[q]] = topic[msg[q]]
  BY LoopFacts DEF HandlerInv, InProgress, InProgressAt
<1>3. InProgress'
  BY <1>2 DEF HandlerInv, InProgress, InProgressAt, RowsOf, handlerVars, storeVars
<1>4. HandledMeansPushed'
  BY LoopFacts DEF HandlerInv, HandledMeansPushed, RowsOf, storeVars
<1>5. TypeOK' /\ PushedMeansAnnounced'
  BY <1>1 DEF HandlerInv, TypeOK, PushedMeansAnnounced, handlerVars, storeVars
<1> QED BY <1>1, <1>3, <1>4, <1>5 DEF HandlerInv

\* The invariant of the loop and of the handler holds in every reachable state.
LEMMA HandlerInductive == Spec => []HandlerInv
BY InitIInv, IInvStep, ConsumerInductive, PTL DEF Spec

-----------------------------------------------------------------------------

\* Every variable stays in its type.
THEOREM TypeCorrect == Spec => []TypeOK
<1>1. HandlerInv => TypeOK
  BY DEF HandlerInv
<1> QED BY <1>1, HandlerInductive, PTL

\* Nothing is pushed to the websocket clients whose row and notification.created
\* event are not stored, whatever attempt fails where (service.go, CreateFromCustomer).
THEOREM PushComesLast == Spec => []PushedMeansAnnounced
<1>1. HandlerInv => PushedMeansAnnounced
  BY DEF HandlerInv
<1> QED BY <1>1, HandlerInductive, PTL

\* A customer.created message whose offset is committed was pushed at least once,
\* unless it took the dead letter path.
THEOREM NoNotificationLost == Spec => []CommittedMeansPushed
<1>1. HandlerInv => CommittedMeansPushed
  BY LoopFacts DEF HandlerInv, HandledMeansPushed, CommittedMeansPushed
<1> QED BY <1>1, HandlerInductive, PTL

-----------------------------------------------------------------------------
(* How many rows a record can leave *)

\* The sets that are counted are finite.
Finite(c) ==
  /\ IsFiniteSet(Held) /\ Cardinality(Held) \in Nat
  /\ IsFiniteSet(RowsOf(c)) /\ Cardinality(RowsOf(c)) \in Nat
  /\ IsFiniteSet(RecordsOf(c)) /\ Cardinality(RecordsOf(c)) \in Nat
  /\ IsFiniteSet(AttemptsLeft(c)) /\ Cardinality(AttemptsLeft(c)) \in Nat
  /\ IsFiniteSet(RecordsLeft(c)) /\ Cardinality(RecordsLeft(c)) \in Nat

\* A set within another is finite and no larger.
LEMMA SizeSubset ==
  ASSUME NEW S, IsFiniteSet(S), NEW T, T \subseteq S
  PROVE  IsFiniteSet(T) /\ Cardinality(T) \in Nat /\ Cardinality(S) \in Nat
         /\ Cardinality(T) <= Cardinality(S)
BY FS_Subset, FS_CardinalityType

\* A set within a union is no larger than the parts together.
LEMMA SizeUnion ==
  ASSUME NEW S, IsFiniteSet(S), NEW T, IsFiniteSet(T), NEW U, U \subseteq S \cup T
  PROVE  Cardinality(U) <= Cardinality(S) + Cardinality(T)
<1>1. /\ IsFiniteSet(S \cup T)
      /\ Cardinality(S \cup T) = Cardinality(S) + Cardinality(T) - Cardinality(S \cap T)
  BY FS_Union
<1>2. IsFiniteSet(S \cap T)
  BY FS_Intersection
<1>3. /\ Cardinality(S) \in Nat /\ Cardinality(T) \in Nat /\ Cardinality(S \cap T) \in Nat
      /\ Cardinality(S \cup T) \in Nat
  BY <1>1, <1>2, FS_CardinalityType
<1>4. Cardinality(U) \in Nat /\ Cardinality(U) <= Cardinality(S \cup T)
  BY <1>1, SizeSubset
<1> QED BY <1>1, <1>3, <1>4

\* A set within another that has one element more is smaller by one.
LEMMA SizeSpent ==
  ASSUME NEW S, IsFiniteSet(S), NEW T, T \subseteq S, NEW x \in S, x \notin T
  PROVE  Cardinality(T) + 1 <= Cardinality(S)
<1>1. IsFiniteSet(S \ {x}) /\ Cardinality(S \ {x}) = Cardinality(S) - 1
  BY FS_RemoveElement
<1>2. T \subseteq S \ {x}
  OBVIOUS
<1>3. /\ Cardinality(S) \in Nat /\ Cardinality(T) \in Nat
      /\ Cardinality(T) <= Cardinality(S \ {x})
  BY <1>1, <1>2, SizeSubset, FS_CardinalityType
<1> QED BY <1>1, <1>3

\* An interval from 1 has as many elements as its upper bound says.
LEMMA SizeInterval ==
  ASSUME NEW n \in Nat
  PROVE  IsFiniteSet(1..n) /\ Cardinality(1..n) = n
<1>1. \A a, b \in Int : IsFiniteSet(a..b) /\ Cardinality(a..b) = IF a > b THEN 0 ELSE b - a + 1
  BY FS_Interval
<1> QED BY <1>1

\* Both before and after a step.
LEMMA AllFinite ==
  ASSUME NEW c \in Customers
  PROVE  (C!IInv /\ TypeOK => Finite(c)) /\ (C!IInv' /\ TypeOK' => Finite(c)')
<1>1. ASSUME NEW n \in Nat, NEW m \in Nat, NEW H, NEW A, NEW B, NEW D, NEW E,
             H \subseteq Replicas, A \subseteq 1..m, B \subseteq 1..n,
             D \subseteq Replicas \X (1..HandlerAttempts), E \subseteq H \X B
      PROVE  /\ IsFiniteSet(H) /\ Cardinality(H) \in Nat
             /\ IsFiniteSet(A) /\ Cardinality(A) \in Nat
             /\ IsFiniteSet(B) /\ Cardinality(B) \in Nat
             /\ IsFiniteSet(D) /\ Cardinality(D) \in Nat
             /\ IsFiniteSet(E) /\ Cardinality(E) \in Nat
  <2>1. IsFiniteSet(1..n) /\ IsFiniteSet(1..m) /\ IsFiniteSet(1..HandlerAttempts)
    BY SizeInterval, NotificationAssumption
  <2>2. IsFiniteSet(Replicas)
    BY NotificationAssumption
  <2>3. IsFiniteSet(H) /\ IsFiniteSet(A) /\ IsFiniteSet(B)
    BY <1>1, <2>1, <2>2, SizeSubset
  <2>4. IsFiniteSet(Replicas \X (1..HandlerAttempts)) /\ IsFiniteSet(H \X B)
    BY <2>1, <2>2, <2>3, FS_Product
  <2>5. IsFiniteSet(D) /\ IsFiniteSet(E)
    BY <1>1, <2>4, SizeSubset
  <2> QED BY <2>3, <2>5, FS_CardinalityType
<1>2. C!IInv /\ TypeOK => Len(topic) \in Nat /\ Len(notifications) \in Nat
  BY LoopFacts DEF TypeOK
<1>3. C!IInv' /\ TypeOK' => Len(topic') \in Nat /\ Len(notifications') \in Nat
  BY DEF C!IInv, C!TypeOK, TypeOK
<1>4. /\ Held \subseteq Replicas /\ RowsOf(c) \subseteq 1..Len(notifications)
      /\ RecordsOf(c) \subseteq 1..Len(topic)
      /\ AttemptsLeft(c) \subseteq Replicas \X (1..HandlerAttempts)
      /\ RecordsLeft(c) \subseteq Held \X RecordsOf(c)
  BY DEF Held, RowsOf, RecordsOf, AttemptsLeft, RecordsLeft
<1>5. /\ Held' \subseteq Replicas /\ RowsOf(c)' \subseteq 1..Len(notifications')
      /\ RecordsOf(c)' \subseteq 1..Len(topic')
      /\ AttemptsLeft(c)' \subseteq Replicas \X (1..HandlerAttempts)
      /\ RecordsLeft(c)' \subseteq Held' \X RecordsOf(c)'
  BY DEF Held, RowsOf, RecordsOf, AttemptsLeft, RecordsLeft
<1>6. C!IInv /\ TypeOK => Finite(c)
  BY <1>1, <1>2, <1>4 DEF Finite
<1>7. C!IInv' /\ TypeOK' => Finite(c)'
  BY <1>1, <1>3, <1>5 DEF Finite
<1> QED BY <1>6, <1>7

\* The number of passes over the partition only grows.
PassesGrow == Passes \in Nat /\ Passes' \in Nat /\ Passes <= Passes'

\* An attempt of q that goes on after a step was there before, or a later one is.
Onward(q) ==
  pc'[q] = "handle" =>
    /\ pc[q] = "handle" /\ msg'[q] = msg[q]
    /\ \/ attempt'[q] > attempt[q]
       \/ attempt'[q] = attempt[q] /\ (stage'[q] = "decode" => stage[q] = "decode")

\* The attempt of r is over, or past its INSERT.
Spent(r) ==
  pc'[r] = "handle" => attempt'[r] > attempt[r] \/ stage'[r] # "decode"

\* The readers that hold the partition after a step held it before, and did not go back.
ReadersKept ==
  \A q \in Replicas : reader'[q] # "none" => reader[q] # "none" /\ position'[q] >= position[q]

\* A step that takes up no message leaves no more attempts.
LEMMA AttemptsKept ==
  ASSUME C!IInv, C!TypeOK', [Next]_vars, NEW c \in Customers, \A q \in Replicas : Onward(q)
  PROVE  AttemptsLeft(c)' \subseteq AttemptsLeft(c)
<1> SUFFICES ASSUME NEW x \in AttemptsLeft(c)' PROVE x \in AttemptsLeft(c)
  OBVIOUS
<1>1. PICK q \in Replicas, k \in 1..HandlerAttempts : x = <<q, k>>
  BY DEF AttemptsLeft
<1>2. /\ pc'[q] = "handle" /\ topic'[msg'[q]] = c
      /\ attempt'[q] < k \/ (attempt'[q] = k /\ stage'[q] = "decode")
  BY <1>1 DEF AttemptsLeft
<1>3. /\ pc[q] = "handle" /\ msg'[q] = msg[q]
      /\ \/ attempt'[q] > attempt[q]
         \/ attempt'[q] = attempt[q] /\ (stage'[q] = "decode" => stage[q] = "decode")
  BY <1>2 DEF Onward
<1>4. topic[msg[q]] = c
  BY <1>2, <1>3, LoopFacts, TopicGrows
<1>5. attempt[q] \in Nat /\ attempt'[q] \in Nat
  BY NotificationAssumption DEF C!IInv, C!TypeOK
<1>6. attempt[q] < k \/ (attempt[q] = k /\ stage[q] = "decode")
  BY <1>2, <1>3, <1>5
<1> QED BY <1>1, <1>3, <1>4, <1>6 DEF AttemptsLeft

\* An INSERT uses up the attempt it belongs to.
LEMMA AttemptSpent ==
  ASSUME C!IInv, C!TypeOK', [Next]_vars, NEW c \in Customers, \A q \in Replicas : Onward(q),
         NEW r \in Replicas, Spent(r), Handling(r, "decode", c), attempt[r] # 0
  PROVE  /\ <<r, attempt[r]>> \in AttemptsLeft(c)
         /\ <<r, attempt[r]>> \notin AttemptsLeft(c)'
<1>1. attempt[r] \in 1..HandlerAttempts /\ attempt'[r] \in Nat
  BY NotificationAssumption DEF C!IInv, C!TypeOK
<1>2. <<r, attempt[r]>> \in AttemptsLeft(c)
  BY <1>1 DEF AttemptsLeft, Handling
<1>3. ASSUME <<r, attempt[r]>> \in AttemptsLeft(c)' PROVE FALSE
  <2>1. /\ pc'[r] = "handle"
        /\ attempt'[r] < attempt[r] \/ (attempt'[r] = attempt[r] /\ stage'[r] = "decode")
    BY <1>3 DEF AttemptsLeft
  <2> QED BY <1>1, <2>1 DEF Onward, Spent
<1> QED BY <1>2, <1>3

\* Readers that go on leave no more records to hand out.
LEMMA RecordsKept ==
  ASSUME C!IInv, C!TypeOK', NEW c \in Customers, ReadersKept, UNCHANGED topic
  PROVE  Held' \subseteq Held /\ RecordsLeft(c)' \subseteq RecordsLeft(c)
<1>1. Held' \subseteq Held /\ RecordsOf(c)' = RecordsOf(c)
  BY DEF Held, ReadersKept, RecordsOf
<1>2. ASSUME NEW x \in RecordsLeft(c)' PROVE x \in RecordsLeft(c)
  <2>1. PICK q \in Held', o \in RecordsOf(c)' : x = <<q, o>>
    BY DEF RecordsLeft
  <2>2. q \in Held /\ o \in RecordsOf(c) /\ position'[q] < o /\ q \in Replicas
    BY <1>1, <2>1 DEF RecordsLeft, Held
  <2>3. position'[q] >= position[q]
    BY <2>1, <2>2 DEF ReadersKept, Held
  <2>4. position[q] \in Nat /\ position'[q] \in Nat /\ o \in Nat
    BY <2>2 DEF C!IInv, C!TypeOK, RecordsOf
  <2> QED BY <2>1, <2>2, <2>3, <2>4 DEF RecordsLeft
<1> QED BY <1>1, <1>2

\* Products of what is counted are natural, and grow with their factors.
LEMMA Times ==
  /\ \A a, b \in Nat : a * b \in Nat
  /\ \A a, b, k \in Nat : a <= b => k * a <= k * b
  /\ \A a, b, k \in Nat : k * (a + b) = k * a + k * b
  /\ \A a, b, k \in Nat : (a + b) * k = a * k + b * k
<1>1. \A a, b \in Nat : a * b \in Nat
  OBVIOUS
<1>2. \A a, b, k \in Nat : k * (a + b) = k * a + k * b
  OBVIOUS
<1>3. \A a, b, k \in Nat : (a + b) * k = a * k + b * k
  OBVIOUS
<1>4. ASSUME NEW a \in Nat, NEW b \in Nat, NEW k \in Nat, a <= b PROVE k * a <= k * b
  <2>1. PICK d \in Nat : b = a + d
    <3>1. b - a \in Nat /\ b = a + (b - a)
      BY <1>4
    <3> QED BY <3>1
  <2>2. k * b = k * a + k * d /\ k * d \in Nat /\ k * a \in Nat
    BY <1>1, <1>2, <2>1
  <2> QED BY <2>2
<1> QED BY <1>1, <1>2, <1>3, <1>4

\* The account of one customer: what is added is paid for by a pass or by a record.
LEMMA Balance ==
  ASSUME NEW h \in Nat, NEW rows \in Nat, NEW att \in Nat, NEW rec \in Nat, NEW paid \in Nat,
         NEW rows2 \in Nat, NEW att2 \in Nat, NEW rec2 \in Nat, NEW paid2 \in Nat,
         NEW e \in Nat,
         rows + att + h * rec <= h * paid,
         \/ rows2 + att2 <= rows + att /\ rec2 <= rec + e
         \/ rows2 + att2 <= rows + att + h /\ rec2 + 1 <= rec,
         paid + e <= paid2
  PROVE  rows2 + att2 + h * rec2 <= h * paid2
<1>1. h * (paid + e) <= h * paid2 /\ h * (paid + e) = h * paid + h * e
  BY Times
<1>2. h * rec \in Nat /\ h * rec2 \in Nat /\ h * paid \in Nat /\ h * paid2 \in Nat /\ h * e \in Nat
  BY Times
<1>3. CASE rows2 + att2 <= rows + att /\ rec2 <= rec + e
  <2>1. h * rec2 <= h * (rec + e) /\ h * (rec + e) = h * rec + h * e
    BY <1>3, Times
  <2> QED BY <1>1, <1>2, <1>3, <2>1
<1>4. CASE rows2 + att2 <= rows + att + h /\ rec2 + 1 <= rec
  <2>1. h * (rec2 + 1) <= h * rec /\ h * (rec2 + 1) = h * rec2 + h * 1 /\ h * 1 = h
    BY <1>4, Times
  <2> QED BY <1>1, <1>2, <1>4, <2>1
<1> QED BY <1>3, <1>4

\* What Accounted says of one customer.
Account(c) ==
  Cardinality(RowsOf(c)) + Cardinality(AttemptsLeft(c))
    + HandlerAttempts * Cardinality(RecordsLeft(c))
  <= HandlerAttempts * (Passes * Cardinality(RecordsOf(c)))

\* A step that inserts no row, takes up no message and gives nobody the partition.
LEMMA QuietAccount ==
  ASSUME HandlerInv, HandlerInv', [Next]_vars, NEW c \in Customers, Account(c), PassesGrow,
         \A q \in Replicas : Onward(q), ReadersKept, UNCHANGED <<topic, notifications>>
  PROVE  Account(c)'
<1>1. Finite(c) /\ Finite(c)'
  BY AllFinite DEF HandlerInv
<1>2. RowsOf(c)' = RowsOf(c) /\ RecordsOf(c)' = RecordsOf(c)
  BY DEF RowsOf, RecordsOf
<1>3. AttemptsLeft(c)' \subseteq AttemptsLeft(c) /\ RecordsLeft(c)' \subseteq RecordsLeft(c)
  BY AttemptsKept, RecordsKept DEF HandlerInv, C!IInv
<1>4. /\ Cardinality(AttemptsLeft(c)') <= Cardinality(AttemptsLeft(c))
      /\ Cardinality(RecordsLeft(c)') <= Cardinality(RecordsLeft(c))
  BY <1>1, <1>3, SizeSubset DEF Finite
<1>5. /\ Passes * Cardinality(RecordsOf(c)) \in Nat
      /\ Passes' * Cardinality(RecordsOf(c)) \in Nat
      /\ Passes * Cardinality(RecordsOf(c)) <= Passes' * Cardinality(RecordsOf(c))
  BY <1>1, Times DEF Finite, PassesGrow
<1> QED BY <1>1, <1>2, <1>4, <1>5, Balance, NotificationAssumption DEF Account, Finite

\* An INSERT: one row more for the customer in hand, and one attempt less.
LEMMA InsertAccount ==
  ASSUME HandlerInv, HandlerInv', [Next]_vars, NEW c \in Customers, Account(c), PassesGrow,
         \A q \in Replicas : Onward(q), ReadersKept, UNCHANGED topic,
         NEW r \in Replicas, Spent(r), attempt[r] # 0, NEW d \in Customers,
         Handling(r, "decode", d), notifications' = Append(notifications, d)
  PROVE  Account(c)'
<1>1. Finite(c) /\ Finite(c)'
  BY AllFinite DEF HandlerInv
<1>2. RecordsOf(c)' = RecordsOf(c)
  BY DEF RecordsOf
<1>3. AttemptsLeft(c)' \subseteq AttemptsLeft(c) /\ RecordsLeft(c)' \subseteq RecordsLeft(c)
  BY AttemptsKept, RecordsKept DEF HandlerInv, C!IInv
<1>4. /\ Cardinality(AttemptsLeft(c)') <= Cardinality(AttemptsLeft(c))
      /\ Cardinality(RecordsLeft(c)') <= Cardinality(RecordsLeft(c))
  BY <1>1, <1>3, SizeSubset DEF Finite
<1>5. /\ Passes * Cardinality(RecordsOf(c)) \in Nat
      /\ Passes' * Cardinality(RecordsOf(c)) \in Nat
      /\ Passes * Cardinality(RecordsOf(c)) <= Passes' * Cardinality(RecordsOf(c))
  BY <1>1, Times DEF Finite, PassesGrow
<1>6. /\ Len(notifications) \in Nat /\ Len(notifications') = Len(notifications) + 1
      /\ notifications'[Len(notifications) + 1] = d
      /\ \A n \in 1..Len(notifications) : notifications'[n] = notifications[n]
  BY DEF HandlerInv, TypeOK
<1>7. Cardinality(RowsOf(c)') + Cardinality(AttemptsLeft(c)')
        <= Cardinality(RowsOf(c)) + Cardinality(AttemptsLeft(c))
  <2>1. CASE c = d
    <3>1. RowsOf(c)' = RowsOf(c) \cup {Len(notifications) + 1}
      BY <1>6, <2>1 DEF RowsOf
    <3>2. Len(notifications) + 1 \notin RowsOf(c)
      BY <1>6 DEF RowsOf
    <3>3. Cardinality(RowsOf(c)') = Cardinality(RowsOf(c)) + 1
      BY <1>1, <3>1, <3>2, FS_AddElement DEF Finite
    <3>4. /\ <<r, attempt[r]>> \in AttemptsLeft(c)
          /\ <<r, attempt[r]>> \notin AttemptsLeft(c)'
      BY <2>1, AttemptSpent DEF HandlerInv, C!IInv
    <3>5. Cardinality(AttemptsLeft(c)') + 1 <= Cardinality(AttemptsLeft(c))
      BY <1>1, <1>3, <3>4, SizeSpent DEF Finite
    <3> QED BY <1>1, <3>3, <3>5 DEF Finite
  <2>2. CASE c # d
    <3>1. RowsOf(c)' = RowsOf(c)
      BY <1>6, <2>2 DEF RowsOf
    <3> QED BY <1>1, <1>4, <3>1 DEF Finite
  <2> QED BY <2>1, <2>2
<1>8. /\ Cardinality(RowsOf(c)) \in Nat /\ Cardinality(RowsOf(c)') \in Nat
      /\ Cardinality(AttemptsLeft(c)) \in Nat /\ Cardinality(AttemptsLeft(c)') \in Nat
      /\ Cardinality(RecordsLeft(c)) \in Nat /\ Cardinality(RecordsLeft(c)') \in Nat
      /\ HandlerAttempts \in Nat
  BY <1>1, NotificationAssumption DEF Finite
<1>9. HandlerAttempts * Cardinality(RecordsLeft(c)') <= HandlerAttempts * Cardinality(RecordsLeft(c))
  BY <1>4, <1>8, Times
<1>10. HandlerAttempts * (Passes * Cardinality(RecordsOf(c)))
         <= HandlerAttempts * (Passes' * Cardinality(RecordsOf(c)))
  BY <1>5, <1>8, Times
<1>11. /\ HandlerAttempts * Cardinality(RecordsLeft(c)') \in Nat
       /\ HandlerAttempts * Cardinality(RecordsLeft(c)) \in Nat
       /\ HandlerAttempts * (Passes * Cardinality(RecordsOf(c))) \in Nat
       /\ HandlerAttempts * (Passes' * Cardinality(RecordsOf(c))) \in Nat
  BY <1>5, <1>8, Times
<1>12. Cardinality(RowsOf(c)') + Cardinality(AttemptsLeft(c)')
         + HandlerAttempts * Cardinality(RecordsLeft(c)')
       <= HandlerAttempts * (Passes' * Cardinality(RecordsOf(c)))
  BY <1>7, <1>8, <1>9, <1>10, <1>11 DEF Account
<1> QED BY <1>2, <1>12 DEF Account

\* A message is taken up: its attempts take the place of the record.
LEMMA FetchAccount ==
  ASSUME HandlerInv, HandlerInv', [Next]_vars, NEW c \in Customers, Account(c), PassesGrow,
         NEW r \in Replicas, Fetch(r)
  PROVE  Account(c)'
<1> DEFINE next == position[r] + 1
<1>1. Finite(c) /\ Finite(c)'
  BY AllFinite DEF HandlerInv
<1>2. /\ pc[r] = "fetch" /\ reader[r] # "none" /\ position[r] < Len(topic)
      /\ position' = [position EXCEPT ![r] = next] /\ msg' = [msg EXCEPT ![r] = next]
      /\ attempt' = [attempt EXCEPT ![r] = 1] /\ pc' = [pc EXCEPT ![r] = "handle"]
      /\ UNCHANGED <<topic, reader, churn, stage, notifications>>
  BY DEF Fetch, C!Fetch, C!Goto, C!brokerVars, handlerVars, storeVars
<1>3. /\ position \in [Replicas -> Nat] /\ Len(topic) \in Nat
      /\ pc \in [Replicas -> {"fetch", "handle", "deadletter", "commit"}]
      /\ msg \in [Replicas -> Nat] /\ attempt \in [Replicas -> Nat]
  BY NotificationAssumption DEF HandlerInv, C!IInv, C!TypeOK
<1>4. RowsOf(c)' = RowsOf(c) /\ RecordsOf(c)' = RecordsOf(c) /\ Held' = Held /\ Passes' = Passes
  BY <1>2 DEF RowsOf, RecordsOf, Held, Passes
<1>5. RecordsLeft(c)' \subseteq RecordsLeft(c)
  <2>1. ReadersKept
    BY <1>2, <1>3 DEF ReadersKept
  <2> QED BY <1>2, <2>1, RecordsKept DEF HandlerInv, C!IInv
<1>6. AttemptsLeft(c)' \subseteq
        AttemptsLeft(c) \cup (IF topic[next] = c THEN {r} \X (1..HandlerAttempts) ELSE {})
  <2>1. ASSUME NEW x \in AttemptsLeft(c)', x \notin AttemptsLeft(c)
        PROVE  x \in {r} \X (1..HandlerAttempts) /\ topic[next] = c
    <3>1. PICK q \in Replicas, k \in 1..HandlerAttempts : x = <<q, k>>
      BY DEF AttemptsLeft
    <3>2. /\ pc'[q] = "handle" /\ topic[msg'[q]] = c
          /\ attempt'[q] < k \/ (attempt'[q] = k /\ stage[q] = "decode")
      BY <1>2, <2>1, <3>1 DEF AttemptsLeft
    <3>3. q = r
      <4> SUFFICES ASSUME q # r PROVE FALSE
        OBVIOUS
      <4>1. pc'[q] = pc[q] /\ msg'[q] = msg[q] /\ attempt'[q] = attempt[q]
        BY <1>2, <1>3
      <4> QED BY <2>1, <3>1, <3>2, <4>1 DEF AttemptsLeft
    <3>4. msg'[r] = next
      BY <1>2, <1>3
    <3> QED BY <3>1, <3>2, <3>3, <3>4
  <2> QED BY <2>1
<1>7. CASE topic[next] = c
  <2>1. <<r, next>> \in RecordsLeft(c) /\ <<r, next>> \notin RecordsLeft(c)'
    <3>1. next \in RecordsOf(c) /\ r \in Held /\ position[r] < next /\ position'[r] = next
      BY <1>2, <1>3, <1>7 DEF RecordsOf, Held
    <3>2. ~(position'[r] < next)
      BY <1>3, <3>1
    <3> QED BY <3>1, <3>2 DEF RecordsLeft
  <2>2. Cardinality(RecordsLeft(c)') + 1 <= Cardinality(RecordsLeft(c))
    BY <1>1, <1>5, <2>1, SizeSpent DEF Finite
  <2>3. IsFiniteSet({r}) /\ Cardinality({r}) = 1
    BY FS_Singleton
  <2>4. IsFiniteSet(1..HandlerAttempts) /\ Cardinality(1..HandlerAttempts) = HandlerAttempts
    BY SizeInterval, NotificationAssumption
  <2>5. /\ IsFiniteSet({r} \X (1..HandlerAttempts))
        /\ Cardinality({r} \X (1..HandlerAttempts)) = 1 * HandlerAttempts
    BY <2>3, <2>4, FS_Product
  <2>6. Cardinality(AttemptsLeft(c)') <= Cardinality(AttemptsLeft(c)) + 1 * HandlerAttempts
    BY <1>1, <1>6, <1>7, <2>5, SizeUnion DEF Finite
  <2>7. Passes * Cardinality(RecordsOf(c)) \in Nat
    BY <1>1, Times DEF Finite, PassesGrow
  <2> QED BY <1>1, <1>4, <2>2, <2>6, <2>7, Balance, NotificationAssumption DEF Account, Finite
<1>8. CASE topic[next] # c
  <2>1. AttemptsLeft(c)' \subseteq AttemptsLeft(c)
    BY <1>6, <1>8
  <2>2. /\ Cardinality(AttemptsLeft(c)') <= Cardinality(AttemptsLeft(c))
        /\ Cardinality(RecordsLeft(c)') <= Cardinality(RecordsLeft(c))
    BY <1>1, <1>5, <2>1, SizeSubset DEF Finite
  <2>3. Passes * Cardinality(RecordsOf(c)) \in Nat
    BY <1>1, Times DEF Finite, PassesGrow
  <2> QED BY <1>1, <1>4, <2>2, <2>3, Balance, NotificationAssumption DEF Account, Finite
<1> QED BY <1>7, <1>8

\* The partition is given to r: one pass more over every record.
LEMMA AssignAccount ==
  ASSUME HandlerInv, HandlerInv', [Next]_vars, NEW c \in Customers, Account(c), Passes \in Nat,
         NEW r \in Replicas, C!Assign(r), UNCHANGED <<handlerVars, storeVars>>
  PROVE  Account(c)'
<1>1. Finite(c) /\ Finite(c)'
  BY AllFinite DEF HandlerInv
<1>2. /\ \A q \in Replicas : reader[q] # "assigned"
      /\ reader' = [reader EXCEPT ![r] = "assigned"]
      /\ position' = [position EXCEPT ![r] = committed]
      /\ UNCHANGED <<topic, churn, pc, msg, attempt, stage, notifications>>
  BY DEF C!Assign, handlerVars, storeVars
<1>3. /\ reader \in [Replicas -> {"none", "assigned", "revoked"}]
      /\ position \in [Replicas -> 0..Len(topic)] /\ churn \in Nat
  BY NotificationAssumption DEF HandlerInv, C!IInv, C!TypeOK
<1>4. Passes = churn /\ Passes' = churn + 1
  BY <1>2, <1>3 DEF Passes
<1>5. RowsOf(c)' = RowsOf(c) /\ RecordsOf(c)' = RecordsOf(c)
      /\ AttemptsLeft(c)' = AttemptsLeft(c)
  BY <1>2 DEF RowsOf, RecordsOf, AttemptsLeft
<1>6. RecordsLeft(c)' \subseteq RecordsLeft(c) \cup ({r} \X RecordsOf(c))
  <2> SUFFICES ASSUME NEW q \in Held', NEW o \in RecordsOf(c), position'[q] < o, q # r
               PROVE  <<q, o>> \in RecordsLeft(c)
    BY <1>5 DEF RecordsLeft
  <2>1. q \in Held /\ position'[q] = position[q]
    BY <1>2, <1>3 DEF Held
  <2> QED BY <2>1 DEF RecordsLeft
<1>7. IsFiniteSet({r}) /\ Cardinality({r}) = 1
  BY FS_Singleton
<1>8. /\ IsFiniteSet({r} \X RecordsOf(c))
      /\ Cardinality({r} \X RecordsOf(c)) = 1 * Cardinality(RecordsOf(c))
  BY <1>1, <1>7, FS_Product DEF Finite
<1>9. Cardinality(RecordsLeft(c)') <= Cardinality(RecordsLeft(c)) + Cardinality(RecordsOf(c))
  <2>1. Cardinality(RecordsLeft(c)') <= Cardinality(RecordsLeft(c)) + Cardinality({r} \X RecordsOf(c))
    BY <1>1, <1>6, <1>8, SizeUnion DEF Finite
  <2> QED BY <1>1, <1>8, <2>1 DEF Finite
<1>10. /\ Passes * Cardinality(RecordsOf(c)) \in Nat /\ Passes' * Cardinality(RecordsOf(c)) \in Nat
       /\ Passes' * Cardinality(RecordsOf(c))
            = Passes * Cardinality(RecordsOf(c)) + Cardinality(RecordsOf(c))
  <2>1. (churn + 1) * Cardinality(RecordsOf(c))
          = churn * Cardinality(RecordsOf(c)) + 1 * Cardinality(RecordsOf(c))
    BY <1>1, <1>3, Times DEF Finite
  <2>2. churn * Cardinality(RecordsOf(c)) \in Nat /\ (churn + 1) * Cardinality(RecordsOf(c)) \in Nat
    BY <1>1, <1>3, Times DEF Finite
  <2> QED BY <1>1, <1>4, <2>1, <2>2 DEF Finite
<1> QED BY <1>1, <1>5, <1>9, <1>10, Balance, NotificationAssumption DEF Account, Finite

\* Records are produced: every reader that holds the partition is still to hand them
\* out, and there are no more of them than passes.
LEMMA ProduceAccount ==
  ASSUME HandlerInv, HandlerInv', [Next]_vars, NEW c \in Customers, Account(c), Passes \in Nat,
         Cardinality(Held) <= Passes,
         NEW m \in Customers \cup {NotJson}, C!Produce(m), UNCHANGED <<handlerVars, storeVars>>
  PROVE  Account(c)'
<1> DEFINE new == RecordsOf(c)' \ RecordsOf(c)
<1>1. Finite(c) /\ Finite(c)'
  BY AllFinite DEF HandlerInv
<1>2. UNCHANGED <<reader, position, churn, pc, msg, attempt, stage, notifications>>
  BY DEF C!Produce, C!loopVars, handlerVars, storeVars
<1>3. RowsOf(c)' = RowsOf(c) /\ Held' = Held /\ Passes' = Passes
  BY <1>2 DEF RowsOf, Held, Passes
<1>4. AttemptsLeft(c)' \subseteq AttemptsLeft(c)
  BY <1>2, AttemptsKept DEF HandlerInv, C!IInv, Onward
<1>5. RecordsOf(c) \subseteq RecordsOf(c)'
  <2>1. Len(topic) <= Len(topic') /\ \A o \in 1..Len(topic) : topic'[o] = topic[o]
    BY TopicGrows DEF HandlerInv
  <2>2. Len(topic) \in Nat /\ Len(topic') \in Nat
    BY DEF HandlerInv, C!IInv, C!TypeOK
  <2> QED BY <2>1, <2>2 DEF RecordsOf
<1>6. Cardinality(AttemptsLeft(c)') <= Cardinality(AttemptsLeft(c))
  BY <1>1, <1>4, SizeSubset DEF Finite
<1>7. /\ IsFiniteSet(new) /\ Cardinality(new) \in Nat
      /\ Cardinality(RecordsOf(c)') = Cardinality(RecordsOf(c)) + Cardinality(new)
  <2>1. PICK both : both = RecordsOf(c)' \cap RecordsOf(c)
    OBVIOUS
  <2>2. both = RecordsOf(c)
    BY <1>5, <2>1
  <2>3. IsFiniteSet(new) /\ Cardinality(new) = Cardinality(RecordsOf(c)') - Cardinality(both)
    BY <1>1, <2>1, FS_Difference DEF Finite
  <2> QED BY <1>1, <2>2, <2>3, FS_CardinalityType DEF Finite
<1>8. RecordsLeft(c)' \subseteq RecordsLeft(c) \cup (Held \X new)
  BY <1>2, <1>3 DEF RecordsLeft
<1> HIDE DEF new
<1>9. /\ IsFiniteSet(Held \X new)
      /\ Cardinality(Held \X new) = Cardinality(Held) * Cardinality(new)
  BY <1>1, <1>7, FS_Product DEF Finite
<1>10. Cardinality(RecordsLeft(c)') <= Cardinality(RecordsLeft(c)) + Cardinality(Held \X new)
  BY <1>1, <1>8, <1>9, SizeUnion DEF Finite
<1>11. /\ Passes * Cardinality(new) \in Nat
       /\ Cardinality(RecordsLeft(c)') <= Cardinality(RecordsLeft(c)) + Passes * Cardinality(new)
  <2>1. Cardinality(new) * Cardinality(Held) <= Cardinality(new) * Passes
    BY <1>1, <1>7, Times DEF Finite
  <2>2. /\ Cardinality(new) * Cardinality(Held) = Cardinality(Held) * Cardinality(new)
        /\ Cardinality(new) * Passes = Passes * Cardinality(new)
    BY <1>1, <1>7 DEF Finite
  <2>3. Passes * Cardinality(new) \in Nat /\ Cardinality(Held) * Cardinality(new) \in Nat
    BY <1>1, <1>7, Times DEF Finite
  <2> QED BY <1>1, <1>9, <1>10, <2>1, <2>2, <2>3 DEF Finite
<1>12. /\ Passes * Cardinality(RecordsOf(c)) \in Nat
       /\ Passes * Cardinality(RecordsOf(c)') \in Nat
       /\ Passes * Cardinality(RecordsOf(c)')
            = Passes * Cardinality(RecordsOf(c)) + Passes * Cardinality(new)
  <2>1. Passes * (Cardinality(RecordsOf(c)) + Cardinality(new))
          = Passes * Cardinality(RecordsOf(c)) + Passes * Cardinality(new)
    BY <1>1, <1>7, Times DEF Finite
  <2>2. Passes * Cardinality(RecordsOf(c)) \in Nat
    BY <1>1, Times DEF Finite
  <2> QED BY <1>7, <1>11, <2>1, <2>2
<1> QED BY <1>1, <1>3, <1>6, <1>11, <1>12, Balance, NotificationAssumption DEF Account, Finite

\* The attempts of a message are counted from 1.
LEMMA AttemptNumbered ==
  ASSUME C!IInv, [Next]_vars, \A r \in Replicas : pc[r] = "handle" => attempt[r] # 0
  PROVE  \A r \in Replicas : pc'[r] = "handle" => attempt'[r] # 0
<1>1. /\ pc \in [Replicas -> {"fetch", "handle", "deadletter", "commit"}]
      /\ attempt \in [Replicas -> Nat]
  BY NotificationAssumption DEF C!IInv, C!TypeOK
<1>2. CASE UNCHANGED <<pc, attempt>>
  BY <1>2
<1>3. ASSUME NEW r \in Replicas, C!Loop(r) \/ C!Crash(r)
      PROVE  \A q \in Replicas : pc'[q] = "handle" => attempt'[q] # 0
  <2>1. CASE C!Fetch(r)
    BY <1>1, <2>1 DEF C!Fetch, C!Goto
  <2>2. CASE C!HandlerFail(r)
    BY <1>1, <2>2 DEF C!HandlerFail, C!Goto
  <2>3. CASE C!HandlerOk(r) \/ C!DlqMarshalFail(r)
    BY <1>1, <2>3 DEF C!HandlerOk, C!DlqMarshalFail, C!Goto
  <2>4. CASE C!DlqPublish(r)
    BY <1>1, <2>4 DEF C!DlqPublish, C!Goto
  <2>5. CASE C!Commit(r) \/ C!Crash(r)
    BY <1>1, <2>5 DEF C!Commit, C!Crash, C!Goto
  <2> QED BY <1>3, <2>1, <2>2, <2>3, <2>4, <2>5 DEF C!Loop, C!Handle, C!DeadLetter
<1>4. (\E r \in Replicas : C!Loop(r) \/ C!Crash(r)) \/ UNCHANGED <<pc, attempt>>
  <2>1. C!Next \/ UNCHANGED consumerVars
    BY StepOfConsumer DEF vars
  <2> QED BY <2>1 DEF C!Next, C!Produce, C!Assign, C!Revoke, C!Discard, C!loopVars, consumerVars
<1> QED BY <1>2, <1>3, <1>4

\* Only an assignment adds a reader, and it is a pass of its own.
LEMMA HeldStep ==
  ASSUME HandlerInv, HandlerInv', [Next]_vars, Cardinality(Held) <= Passes
  PROVE  PassesGrow /\ Cardinality(Held') <= Passes'
<1>1. IsFiniteSet(Held) /\ Cardinality(Held) \in Nat
  <2>1. IsFiniteSet(Replicas) /\ Held \subseteq Replicas
    BY NotificationAssumption DEF Held
  <2> QED BY <2>1, SizeSubset
<1>2. /\ reader \in [Replicas -> {"none", "assigned", "revoked"}]
      /\ churn \in Nat /\ churn' \in Nat
  BY NotificationAssumption DEF HandlerInv, C!IInv, C!TypeOK
<1>3. ASSUME NEW r \in Replicas, C!Assign(r) PROVE PassesGrow /\ Cardinality(Held') <= Passes'
  <2>1. /\ \A q \in Replicas : reader[q] # "assigned"
        /\ reader' = [reader EXCEPT ![r] = "assigned"] /\ churn' = churn
    BY <1>3 DEF C!Assign
  <2>2. Passes = churn /\ Passes' = churn + 1
    BY <1>2, <2>1 DEF Passes
  <2>3. Held' = Held \cup {r}
    BY <1>2, <2>1 DEF Held
  <2>4. Cardinality(Held') <= Cardinality(Held) + 1
    BY <1>1, <2>3, FS_AddElement
  <2>5. IsFiniteSet(Held')
    BY <1>1, <2>3, FS_AddElement
  <2> QED BY <1>1, <1>2, <2>2, <2>4, <2>5, FS_CardinalityType DEF PassesGrow
<1>4. ASSUME Held' \subseteq Held,
             \/ reader' = reader /\ churn' = churn
             \/ churn' = churn + 1
             \/ churn' = churn /\ \A q \in Replicas : reader[q] = "assigned" => reader'[q] = "assigned"
      PROVE  PassesGrow /\ Cardinality(Held') <= Passes'
  <2>1. PassesGrow
    <3>1. (Passes = churn \/ Passes = churn + 1) /\ (Passes' = churn' \/ Passes' = churn' + 1)
      <4>1. Passes = churn + 0 \/ Passes = churn + 1
        BY DEF Passes
      <4>2. Passes' = churn' + 0 \/ Passes' = churn' + 1
        BY DEF Passes
      <4> QED BY <1>2, <4>1, <4>2
    <3>2. /\ Passes \in Nat /\ Passes' \in Nat
          /\ Passes <= churn + 1 /\ churn' <= Passes'
      BY <1>2, <3>1
    <3>3. CASE churn' = churn + 1
      BY <1>2, <3>2, <3>3 DEF PassesGrow
    <3>4. CASE /\ churn' = churn
               /\ \A q \in Replicas : reader[q] = "assigned" => reader'[q] = "assigned"
      <4>1. Passes <= Passes'
        BY <1>2, <3>4 DEF Passes
      <4> QED BY <3>2, <4>1 DEF PassesGrow
    <3> QED BY <1>4, <3>3, <3>4
  <2>2. Cardinality(Held') \in Nat /\ Cardinality(Held') <= Cardinality(Held)
    BY <1>1, <1>4, SizeSubset
  <2> QED BY <1>1, <2>1, <2>2 DEF PassesGrow
<1>5. ASSUME NEW r \in Replicas, C!Crash(r) \/ C!Revoke(r) \/ C!Discard(r)
      PROVE  PassesGrow /\ Cardinality(Held') <= Passes'
  <2>1. Held' \subseteq Held
    BY <1>2, <1>5 DEF Held, C!Crash, C!Revoke, C!Discard
  <2>2. \/ churn' = churn + 1
        \/ churn' = churn /\ \A q \in Replicas : reader[q] = "assigned" => reader'[q] = "assigned"
    BY <1>2, <1>5 DEF C!Crash, C!Revoke, C!Discard
  <2> QED BY <1>4, <2>1, <2>2
<1>6. CASE UNCHANGED <<reader, churn>>
  <2>1. Held' = Held
    BY <1>6 DEF Held
  <2> QED BY <1>4, <1>6, <2>1
<1>7. ASSUME NEW r \in Replicas, C!Loop(r) PROVE UNCHANGED <<reader, churn>>
  BY <1>7 DEF C!Loop, C!Fetch, C!Handle, C!HandlerOk, C!HandlerFail, C!DeadLetter,
              C!DlqMarshalFail, C!DlqPublish, C!Commit, C!brokerVars
<1>8. C!Next \/ UNCHANGED <<reader, churn>>
  BY StepOfConsumer DEF vars, consumerVars
<1> QED BY <1>3, <1>5, <1>6, <1>7, <1>8 DEF C!Next, C!Produce

\* The steps of one replica's loop but Fetch, and a crash, let every attempt go on or end.
LEMMA LoopOnward ==
  ASSUME HandlerInv, HandlerInv', NEW r \in Replicas, Loop(r) \/ Crash(r), ~Fetch(r)
  PROVE  (\A q \in Replicas : Onward(q)) /\ ReadersKept /\ UNCHANGED topic
<1>1. /\ reader \in [Replicas -> {"none", "assigned", "revoked"}]
      /\ position \in [Replicas -> Nat] /\ attempt \in [Replicas -> Nat]
      /\ pc \in [Replicas -> {"fetch", "handle", "deadletter", "commit"}]
      /\ msg \in [Replicas -> Nat]
      /\ stage \in [Replicas -> {"decode", "publish", "push"}]
  BY NotificationAssumption DEF HandlerInv, C!IInv, C!TypeOK, TypeOK
<1>2. CASE DeadLetter(r) \/ Commit(r) \/ Crash(r)
  <2>1. pc'[r] # "handle" /\ UNCHANGED topic
        /\ \A q \in Replicas \ {r} : /\ pc'[q] = pc[q] /\ msg'[q] = msg[q]
                                    /\ attempt'[q] = attempt[q] /\ stage'[q] = stage[q]
    BY <1>1, <1>2 DEF DeadLetter, Commit, Crash, Return, handlerVars, C!DeadLetter,
       C!DlqMarshalFail, C!DlqPublish, C!Commit, C!Crash, C!Goto, C!brokerVars
  <2>2. ReadersKept
    <3>1. CASE Crash(r)
      <4>1. \A q \in Replicas \ {r} : reader'[q] = reader[q] /\ position'[q] = position[q]
        BY <1>1, <3>1 DEF Crash, C!Crash
      <4>2. reader'[r] = "none"
        BY <1>1, <3>1 DEF Crash, C!Crash
      <4> QED BY <1>1, <4>1, <4>2 DEF ReadersKept
    <3>2. CASE DeadLetter(r) \/ Commit(r)
      <4>1. UNCHANGED <<reader, position>>
        BY <3>2 DEF DeadLetter, Commit, C!DeadLetter, C!DlqMarshalFail, C!DlqPublish, C!Commit,
           C!brokerVars
      <4> QED BY <1>1, <4>1 DEF ReadersKept
    <3> QED BY <1>2, <3>1, <3>2
  <2> QED BY <2>1, <2>2 DEF Onward
<1>3. CASE Handler(r)
  <2>1. C!HandlerOk(r) \/ C!HandlerFail(r) \/ UNCHANGED consumerVars
    BY <1>3 DEF Handler, DecodeFail, Create, CreateFail, Publish, Push, PushFail
  <2>2. pc[r] = "handle" /\ UNCHANGED <<topic, reader, position, msg>>
    BY <1>3, <2>1 DEF Handler, DecodeFail, Create, CreateFail, Publish, Push, PushFail, Handling,
       C!HandlerOk, C!HandlerFail, C!brokerVars, consumerVars
  <2>3. ReadersKept
    BY <1>1, <2>2 DEF ReadersKept
  <2>4. \A q \in Replicas \ {r} : Onward(q)
    <3>1. \A q \in Replicas \ {r} : pc'[q] = pc[q] /\ attempt'[q] = attempt[q]
      BY <1>1, <2>1 DEF C!HandlerOk, C!HandlerFail, C!Goto, consumerVars
    <3>2. \A q \in Replicas \ {r} : stage'[q] = stage[q]
      BY <1>1, <1>3 DEF Handler, DecodeFail, Create, CreateFail, Publish, Push, PushFail, Return,
         handlerVars
    <3> QED BY <2>2, <3>1, <3>2 DEF Onward
  <2>5. Onward(r)
    <3>1. CASE C!HandlerOk(r)
      BY <1>1, <3>1 DEF C!HandlerOk, C!Goto, Onward
    <3>2. CASE C!HandlerFail(r)
      BY <1>1, <2>2, <3>2 DEF C!HandlerFail, C!Goto, Onward
    <3>3. CASE UNCHANGED consumerVars
      <4>1. Create(r) \/ Publish(r) \/ attempt'[r] > attempt[r] \/ pc'[r] # "handle"
        <5>1. ASSUME C!HandlerOk(r) \/ C!HandlerFail(r)
              PROVE  attempt'[r] > attempt[r] \/ pc'[r] # "handle"
          BY <1>1, <5>1 DEF C!HandlerOk, C!HandlerFail, C!Goto
        <5> QED BY <1>3, <5>1 DEF Handler, DecodeFail, CreateFail, Push, PushFail
      <4>2. Create(r) \/ Publish(r)
        BY <1>1, <2>2, <3>3, <4>1 DEF consumerVars
      <4>3. stage'[r] # "decode" \/ attempt'[r] > attempt[r] \/ pc'[r] # "handle"
        <5>1. CASE Create(r)
          BY <1>1, <5>1 DEF Create
        <5>2. CASE Publish(r)
          BY <1>1, <5>2 DEF Publish, Handling, C!HandlerFail, C!Goto
        <5> QED BY <4>2, <5>1, <5>2
      <4> QED BY <1>1, <2>2, <3>3, <4>3 DEF Onward, consumerVars
    <3> QED BY <2>1, <3>1, <3>2, <3>3
  <2> QED BY <2>2, <2>3, <2>4, <2>5
<1> QED BY <1>2, <1>3 DEF Loop

\* Every step keeps the account of every customer.
LEMMA AccountStep ==
  ASSUME HandlerInv, HandlerInv', [Next]_vars, NEW c \in Customers, Account(c), Cardinality(Held) <= Passes,
         \A r \in Replicas : pc[r] = "handle" => attempt[r] # 0
  PROVE  Account(c)'
<1>1. PassesGrow
  BY HeldStep
<1>2. CASE Environment
  <2>1. UNCHANGED <<handlerVars, storeVars>>
    BY <1>2 DEF Environment
  <2>2. ASSUME NEW m \in Customers \cup {NotJson}, C!Produce(m) PROVE Account(c)'
    BY <1>1, <2>1, <2>2, ProduceAccount DEF PassesGrow
  <2>3. ASSUME NEW r \in Replicas, C!Assign(r) PROVE Account(c)'
    BY <1>1, <2>1, <2>3, AssignAccount DEF PassesGrow
  <2>4. ASSUME NEW r \in Replicas, C!Revoke(r) \/ C!Discard(r) PROVE Account(c)'
    <3>1. UNCHANGED <<topic, position, pc, msg, attempt, stage, notifications>>
      BY <2>1, <2>4 DEF C!Revoke, C!Discard, C!loopVars, handlerVars, storeVars
    <3>2. \A q \in Replicas : reader'[q] # "none" => reader[q] # "none"
      BY <2>4 DEF C!Revoke, C!Discard, HandlerInv, C!IInv, C!TypeOK
    <3>3. position \in [Replicas -> Nat]
      BY DEF HandlerInv, C!IInv, C!TypeOK
    <3>4. ReadersKept /\ \A q \in Replicas : Onward(q)
      BY <3>1, <3>2, <3>3 DEF ReadersKept, Onward
    <3> QED BY <1>1, <3>1, <3>4, QuietAccount
  <2> QED BY <1>2, <2>2, <2>3, <2>4 DEF Environment
<1>3. ASSUME NEW r \in Replicas, Fetch(r) PROVE Account(c)'
  BY <1>1, <1>3, FetchAccount
<1>4. ASSUME NEW r \in Replicas, Loop(r) \/ Crash(r), ~Fetch(r) PROVE Account(c)'
  <2>1. (\A q \in Replicas : Onward(q)) /\ ReadersKept /\ UNCHANGED topic
    BY <1>4, LoopOnward
  <2>2. CASE UNCHANGED notifications
    BY <1>1, <2>1, <2>2, QuietAccount
  <2>3. CASE ~UNCHANGED notifications
    <3>1. Create(r) \/ CreateFail(r) \/ Crash(r)
      BY <1>4, <2>3 DEF Loop, Handler, DecodeFail, Publish, Push, PushFail, DeadLetter, Commit, storeVars
    <3>2. PICK d \in Customers :
            Handling(r, "decode", d) /\ notifications' = Append(notifications, d)
      BY <2>3, <3>1 DEF Create, CreateFail, Crash
    <3>3. Spent(r)
      <4>1. /\ attempt \in [Replicas -> Nat] /\ stage \in [Replicas -> {"decode", "publish", "push"}]
            /\ pc \in [Replicas -> {"fetch", "handle", "deadletter", "commit"}]
        BY NotificationAssumption DEF HandlerInv, C!IInv, C!TypeOK, TypeOK
      <4>2. CASE Create(r)
        BY <4>1, <4>2 DEF Create, Spent
      <4>3. CASE CreateFail(r)
        BY <4>1, <4>3 DEF CreateFail, C!HandlerFail, C!Goto, Spent
      <4>4. CASE Crash(r)
        BY <4>1, <4>4 DEF Crash, C!Crash, C!Goto, Spent
      <4> QED BY <3>1, <4>2, <4>3, <4>4
    <3>4. attempt[r] # 0
      BY <3>2 DEF Handling
    <3> QED BY <1>1, <2>1, <3>2, <3>3, <3>4, InsertAccount
  <2> QED BY <2>2, <2>3
<1>5. CASE UNCHANGED vars
  <2>1. UNCHANGED <<topic, reader, position, pc, msg, attempt, stage, notifications>>
    BY <1>5 DEF vars, consumerVars, handlerVars, storeVars
  <2>2. position \in [Replicas -> Nat]
    BY DEF HandlerInv, C!IInv, C!TypeOK
  <2>3. ReadersKept /\ \A q \in Replicas : Onward(q)
    BY <2>1, <2>2 DEF ReadersKept, Onward
  <2> QED BY <1>1, <2>1, <2>3, QuietAccount
<1> QED BY <1>2, <1>3, <1>4, <1>5 DEF Next

\* The account holds in every reachable state: every row was paid for by a pass over
\* its record, and passes are begun by a first assignment, a rebalance or a crash.
THEOREM AccountsBalance == Spec => []Accounted
<1>1. Init /\ HandlerInv => Accounted
  <2> SUFFICES ASSUME Init, HandlerInv PROVE Accounted
    OBVIOUS
  <2>1. Held = {} /\ Passes = 0 /\ \A r \in Replicas : pc[r] # "handle"
    BY DEF Init, C!Init, Held, Passes
  <2>2. \A c \in Customers : RowsOf(c) = {} /\ RecordsOf(c) = {} /\ AttemptsLeft(c) = {} /\ RecordsLeft(c) = {}
    BY <2>1 DEF Init, C!Init, RowsOf, RecordsOf, AttemptsLeft, RecordsLeft
  <2>3. Cardinality({}) = 0
    BY FS_EmptySet
  <2>4. Passes * 0 = 0 /\ HandlerAttempts * 0 = 0
    BY <2>1, NotificationAssumption
  <2>5. ASSUME NEW c \in Customers
        PROVE  Cardinality(RowsOf(c)) + Cardinality(AttemptsLeft(c))
                 + HandlerAttempts * Cardinality(RecordsLeft(c))
               <= HandlerAttempts * (Passes * Cardinality(RecordsOf(c)))
    <3>1. /\ Cardinality(RowsOf(c)) = 0 /\ Cardinality(AttemptsLeft(c)) = 0
          /\ Cardinality(RecordsLeft(c)) = 0 /\ Cardinality(RecordsOf(c)) = 0
      BY <2>2, <2>3
    <3> QED BY <2>4, <3>1
  <2> QED BY <2>1, <2>3, <2>5 DEF Accounted
<1>2. Accounted /\ HandlerInv /\ HandlerInv' /\ [Next]_vars => Accounted'
  <2> SUFFICES ASSUME Accounted, HandlerInv, HandlerInv', [Next]_vars PROVE Accounted'
    OBVIOUS
  <2>1. \A r \in Replicas : pc'[r] = "handle" => attempt'[r] # 0
    BY AttemptNumbered DEF Accounted, HandlerInv
  <2>2. Cardinality(Held') <= Passes'
    BY HeldStep DEF Accounted
  <2>3. ASSUME NEW c \in Customers PROVE Account(c)'
    BY AccountStep DEF Accounted, Account
  <2> QED BY <2>1, <2>2, <2>3 DEF Accounted, Account
<1> QED BY <1>1, <1>2, HandlerInductive, PTL DEF Spec

\* The inductive invariant, with the account, holds in every reachable state.
THEOREM Inductive == Spec => []IInv
BY HandlerInductive, AccountsBalance, PTL DEF IInv

\* However often attempts fail and deliveries repeat, a customer has at most the
\* attempts of handleWithRetry per customer.created record and pass over it.
THEOREM DuplicatesBounded == Spec => []BoundedDuplicates
<1>1. HandlerInv /\ Accounted => BoundedDuplicates
  <2> SUFFICES ASSUME HandlerInv, Accounted, NEW c \in Customers
               PROVE  Cardinality(RowsOf(c)) <= HandlerAttempts * (churn + 1) * Cardinality(RecordsOf(c))
    BY DEF BoundedDuplicates
  <2>1. /\ Finite(c) /\ churn \in Nat /\ HandlerAttempts \in Nat
    <3>1. churn \in Nat
      BY NotificationAssumption DEF HandlerInv, C!IInv, C!TypeOK
    <3>2. Finite(c)
      BY AllFinite DEF HandlerInv
    <3> QED BY <3>1, <3>2, NotificationAssumption
  <2>2. Passes \in Nat /\ Passes <= churn + 1
    BY <2>1 DEF Passes
  <2> DEFINE records == Cardinality(RecordsOf(c))
  <2>3. records \in Nat
    BY <2>1 DEF Finite
  <2>4. Cardinality(RowsOf(c)) <= HandlerAttempts * (Passes * records)
    <3>1. HandlerAttempts * Cardinality(RecordsLeft(c)) \in Nat
          /\ HandlerAttempts * (Passes * records) \in Nat
      BY <2>1, <2>2, <2>3, Times DEF Finite
    <3> QED BY <2>1, <3>1 DEF Accounted, Finite
  <2> HIDE DEF records
  <2>5. records * Passes <= records * (churn + 1)
    BY <2>1, <2>2, <2>3, Times
  <2>6. Passes * records = records * Passes /\ (churn + 1) * records = records * (churn + 1)
        /\ Passes * records \in Nat /\ (churn + 1) * records \in Nat
    BY <2>1, <2>2, <2>3, Times
  <2>7. HandlerAttempts * (Passes * records) <= HandlerAttempts * ((churn + 1) * records)
    BY <2>1, <2>5, <2>6, Times
  <2>8. HandlerAttempts * ((churn + 1) * records) = HandlerAttempts * (churn + 1) * records
    BY <2>1, <2>3
  <2>9. HandlerAttempts * (Passes * records) \in Nat /\ HandlerAttempts * ((churn + 1) * records) \in Nat
    BY <2>1, <2>6, Times
  <2>10. Cardinality(RowsOf(c)) <= HandlerAttempts * (churn + 1) * records
    BY <2>1, <2>4, <2>7, <2>8, <2>9 DEF Finite
  <2> QED BY <2>10 DEF records
<1> QED BY <1>1, AccountsBalance, HandlerInductive, PTL
=============================================================================
