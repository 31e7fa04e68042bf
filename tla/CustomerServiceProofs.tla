------------------------ MODULE CustomerServiceProofs ------------------------
(***************************************************************************)
(* Proofs about CustomerService: its invariants hold for every set of      *)
(* replicas, leads and customer ids.                                       *)
(*                                                                         *)
(* The facts about the loop are those of ConsumerProofs, instantiated as P;*)
(* C and P are two instances of one module, so their definitions agree.    *)
(***************************************************************************)
EXTENDS CustomerService, Integers, FiniteSetTheorems, TLAPS

P == INSTANCE ConsumerProofs WITH Messages <- Leads \cup {NotJson}, Malformed <- {NotJson}

\* The constants meet the assumptions of Consumer.
LEMMA Assumptions == P!ConsumerAssumption /\ P!ProducerAssumption
BY CustomerAssumption, ProducerAssumption DEF P!ConsumerAssumption, P!ProducerAssumption

\* C and P say the same of the loop: its initial states, its steps, its invariant.
LEMMA SameInit == C!Init <=> P!Init
BY DEF C!Init, P!Init

\* The steps of the loop.
LEMMA SameNext == C!Next <=> P!Next
BY DEF C!Next, P!Next, C!vars, P!vars, C!brokerVars, P!brokerVars, C!loopVars,
       P!loopVars, C!outcomeVars, P!outcomeVars, C!Produce, P!Produce, C!Assign,
       P!Assign, C!Revoke, P!Revoke, C!Discard, P!Discard, C!Loop, P!Loop, C!Fetch,
       P!Fetch, C!Handle, P!Handle, C!HandlerOk, P!HandlerOk, C!HandlerFail,
       P!HandlerFail, C!DeadLetter, P!DeadLetter, C!DlqMarshalFail, P!DlqMarshalFail,
       C!DlqPublish, P!DlqPublish, C!Commit, P!Commit, C!Crash, P!Crash, C!Goto,
       P!Goto, C!WriteOutcomes, P!WriteOutcomes, C!Stored, P!Stored, C!GivesUp, P!GivesUp,
       C!TriesAgain, P!TriesAgain, C!Settled, P!Settled

\* The inductive invariant of the loop.
LEMMA SameIInv == C!IInv <=> P!IInv
BY DEF C!IInv, P!IInv, C!TypeOK, P!TypeOK, C!InHand, P!InHand, C!Carried, P!Carried,
       C!CarriedBy, P!CarriedBy, C!NothingSkipped, P!NothingSkipped, C!Calm, P!Calm,
       C!Settled, P!Settled, C!Offsets, P!Offsets

\* A step of the handler alone is a stutter of the loop.
LEMMA SameVars == UNCHANGED consumerVars => UNCHANGED P!vars /\ UNCHANGED C!vars
BY DEF consumerVars, P!vars, P!brokerVars, P!loopVars, P!outcomeVars,
       C!vars, C!brokerVars, C!loopVars, C!outcomeVars

-----------------------------------------------------------------------------

\* Every step of the service is a step of the consumer loop or leaves it alone.
LEMMA StepOfConsumer == Next => C!Next \/ UNCHANGED consumerVars
<1> SUFFICES ASSUME Next PROVE C!Next \/ UNCHANGED consumerVars
  OBVIOUS
<1>1. CASE Environment
  BY <1>1 DEF Environment, C!Next
<1>2. ASSUME NEW r \in Replicas, Fetch(r) \/ DeadLetter(r) \/ Commit(r) \/ Crash(r)
      PROVE  C!Next
  BY <1>2 DEF Fetch, DeadLetter, Commit, Crash, C!Next, C!Loop
<1>3. ASSUME NEW r \in Replicas, Handler(r) PROVE C!Handle(r) \/ UNCHANGED consumerVars
  BY <1>3 DEF Handler, DecodeFail, Insert, AlreadyConverted, DbFail, CommitTx,
              CommitTxLost, Publish, C!Handle
<1> QED BY <1>1, <1>2, <1>3 DEF Next, Loop, C!Next, C!Loop

\* The module is written on the actions of Consumer, so that the invariant of the
\* loop holds of its variables here.
LEMMA Implements == Spec => C!Spec
<1>1. Init => C!Init
  BY DEF Init
<1>2. [Next]_vars => [C!Next]_(C!vars)
  BY StepOfConsumer, SameVars DEF vars
<1> QED BY <1>1, <1>2, PTL DEF Spec, C!Spec

\* The same for the other instance.
LEMMA StepOfP == [Next]_vars => [P!Next]_(P!vars)
BY StepOfConsumer, SameNext, SameVars DEF vars

\* The inductive invariant of the loop holds here.
LEMMA ConsumerInductive == Spec => []C!IInv
<1>1. Init => P!Init
  BY SameInit DEF Init
<1>2. Spec => P!Spec
  BY <1>1, StepOfP, PTL DEF Spec, P!Spec
<1>3. P!IInv => C!IInv
  BY SameIInv
<1> QED BY <1>2, <1>3, Assumptions, P!Inductive, PTL

-----------------------------------------------------------------------------

\* The parts of C!IInv the handler relies on.
LEMMA LoopFacts ==
  ASSUME C!IInv
  PROVE  /\ topic \in Seq(Leads \cup {NotJson})
         /\ pc \in [Replicas -> {"fetch", "handle", "deadletter", "commit"}]
         /\ msg \in [Replicas -> 0..Len(topic)]
         /\ handled \subseteq 1..Len(topic)
         /\ \A r \in Replicas : pc[r] = "handle" => msg[r] \in 1..Len(topic)
         /\ \A o \in 1..committed : o \in handled \cup dlq \cup dropped
BY DEF C!IInv, C!TypeOK, C!InHand, C!NothingSkipped, C!Offsets, C!Settled

\* Records are only appended to the topic.
LEMMA TopicGrows ==
  ASSUME C!IInv, [Next]_vars
  PROVE  Len(topic) <= Len(topic') /\ \A o \in 1..Len(topic) : topic'[o] = topic[o]
<1>1. P!TypeOK
  BY SameIInv DEF P!IInv
<1> QED BY <1>1, StepOfP, Assumptions, P!TopicGrows

\* A step of one replica's loop does not move the others, and only the end of a
\* handler attempt or a crash moves a replica out of it.
LEMMA OthersStay ==
  ASSUME C!IInv, NEW r \in Replicas, C!Loop(r) \/ C!Crash(r), NEW q \in Replicas \ {r}
  PROVE  pc'[q] = pc[q] /\ msg'[q] = msg[q]
BY LoopFacts
DEF C!Loop, C!Handle, C!DeadLetter, C!Fetch, C!HandlerOk, C!HandlerFail,
    C!DlqMarshalFail, C!DlqPublish, C!Commit, C!Crash, C!Goto, C!brokerVars,
    C!loopVars, C!outcomeVars

-----------------------------------------------------------------------------

\* What is in progress at q stays so while q's attempt goes on and no other
\* replica commits a customer for its lead.
LEMMA InProgressFrame ==
  ASSUME C!IInv, [Next]_vars, NEW q \in Replicas, InProgressAt(q),
         stage'[q] = stage[q], insert'[q] = insert[q], customers \subseteq customers',
         stage[q] # "decode" => pc'[q] = "handle" /\ msg'[q] = msg[q],
         stage[q] = "commit" => topic[msg[q]] \notin LeadsOf(customers')
  PROVE  /\ InProgressAt(q)'
         /\ stage[q] # "decode" => topic'[msg'[q]] = topic[msg[q]]
<1>1. stage[q] # "decode" => topic'[msg'[q]] = topic[msg[q]]
  BY TopicGrows, LoopFacts DEF InProgressAt
<1> QED BY <1>1 DEF InProgressAt, LeadsOf

\* Steps that change neither the handler's variables nor the stores.
LEMMA QuietStep ==
  ASSUME IInv, [Next]_vars, UNCHANGED <<handlerVars, storeVars>>,
         \A q \in Replicas : stage[q] # "decode" => pc'[q] = "handle" /\ msg'[q] = msg[q]
  PROVE  HandlerTypeOK' /\ InProgress' /\ OneInserter' /\ OneCustomerPerLead'
         /\ ConvertedIffCustomer' /\ EventNamesCustomer'
<1> USE DEF IInv, handlerVars, storeVars
<1>1. ASSUME NEW q \in Replicas
      PROVE  InProgressAt(q)' /\ (stage[q] # "decode" => topic'[msg'[q]] = topic[msg[q]])
  BY InProgressFrame DEF InProgress, InProgressAt
<1>2. InProgress' /\ OneInserter'
  BY <1>1 DEF InProgress, OneInserter
<1>3. HandlerTypeOK'
  BY DEF HandlerTypeOK
<1>4. OneCustomerPerLead' /\ ConvertedIffCustomer' /\ EventNamesCustomer'
  BY DEF OneCustomerPerLead, ConvertedIffCustomer, EventNamesCustomer, LeadsOf
<1> QED BY <1>2, <1>3, <1>4

\* A message that was handled before keeps its customer.
LEMMA HandledFrame ==
  ASSUME IInv, [Next]_vars, customers \subseteq customers',
         \A o \in handled' \ handled : o \in 1..Len(topic) /\ topic[o] \in LeadsOf(customers')
  PROVE  HandledMeansCustomer'
BY TopicGrows, LoopFacts DEF IInv, HandledMeansCustomer, LeadsOf

\* The row a replica works on, and what the rest of the state says about it.
LEMMA RowInHand ==
  ASSUME IInv, NEW r \in Replicas, stage[r] # "decode"
  PROVE  \E c \in Customer :
           /\ insert[r] = {c} /\ c.lead = topic[msg[r]] /\ c.lead \in Leads
           /\ LeadsOf(insert[r]) = {c.lead}
           /\ msg[r] \in 1..Len(topic)
<1>1. PICK i \in Ids, lead \in Leads :
        pc[r] = "handle" /\ lead = topic[msg[r]] /\ insert[r] = {[id |-> i, lead |-> lead]}
  BY DEF IInv, InProgress, InProgressAt
<1>2. LeadsOf(insert[r]) = {lead} /\ [id |-> i, lead |-> lead] \in Customer
  BY <1>1 DEF LeadsOf, Customer
<1> QED BY <1>1, <1>2, LoopFacts DEF IInv

\* A handler that returns leaves its variables in their types.
LEMMA ReturnTypes ==
  ASSUME HandlerTypeOK, NEW r \in Replicas, Return(r)
  PROVE  /\ stage' \in [Replicas -> {"decode", "commit", "publish"}]
         /\ insert' \in [Replicas -> SUBSET Customer]
         /\ sends' \in [Replicas -> 0..PublishAttempts]
<1>1. sends' \in [Replicas -> 0..PublishAttempts]
  BY ProducerAssumption DEF HandlerTypeOK, Return
<1> QED BY <1>1 DEF HandlerTypeOK, Return

\* INSERT and UPDATE: the replica gets a row of its own, no one else has one.
LEMMA InsertStep ==
  ASSUME IInv, [Next]_vars, NEW r \in Replicas, Insert(r)
  PROVE  HandlerTypeOK' /\ InProgress' /\ OneInserter' /\ HandledMeansCustomer'
         /\ OneCustomerPerLead' /\ ConvertedIffCustomer' /\ EventNamesCustomer'
<1> USE DEF storeVars, consumerVars
<1>1. PICK lead \in Leads \ LeadsOf(customers), i \in Ids :
        /\ pc[r] = "handle" /\ stage[r] = "decode" /\ lead = topic[msg[r]]
        /\ ~Locked(lead)
        /\ insert' = [insert EXCEPT ![r] = {[id |-> i, lead |-> lead]}]
        /\ stage' = [stage EXCEPT ![r] = "commit"]
        /\ UNCHANGED <<consumerVars, sends, storeVars>>
  BY DEF Insert, Handling
<1>2. HandlerTypeOK'
  BY <1>1 DEF IInv, HandlerTypeOK, Customer
<1>3. stage'[r] = "commit" /\ insert'[r] = {[id |-> i, lead |-> lead]}
  BY <1>1 DEF IInv, HandlerTypeOK
<1>4. InProgressAt(r)'
  BY <1>1, <1>3 DEF InProgressAt, LeadsOf
<1>5. ASSUME NEW q \in Replicas \ {r} PROVE InProgressAt(q)'
  BY <1>1, InProgressFrame DEF IInv, HandlerTypeOK, InProgress, InProgressAt
<1>6. InProgress'
  BY <1>4, <1>5 DEF InProgress
<1>7. ASSUME NEW q \in Replicas \ {r}, stage[q] = "commit" PROVE topic[msg[q]] # lead
  BY <1>1, <1>7, RowInHand DEF Locked
<1>8. OneInserter'
  BY <1>1, <1>3, <1>7 DEF OneInserter, IInv, HandlerTypeOK
<1>9. HandledMeansCustomer'
  BY <1>1 DEF IInv, HandledMeansCustomer, LeadsOf
<1>10. OneCustomerPerLead' /\ ConvertedIffCustomer' /\ EventNamesCustomer'
  BY <1>1 DEF IInv, OneCustomerPerLead, ConvertedIffCustomer, EventNamesCustomer, LeadsOf
<1> QED BY <1>2, <1>6, <1>8, <1>9, <1>10

\* A handler attempt that ends without a commit: the replica starts over.
LEMMA ReturnStep ==
  ASSUME IInv, [Next]_vars, NEW r \in Replicas, C!Loop(r) \/ C!Crash(r), Return(r),
         UNCHANGED <<customers, converted>>, HandlerTypeOK', EventNamesCustomer'
  PROVE  InProgress' /\ OneInserter' /\ OneCustomerPerLead' /\ ConvertedIffCustomer'
<1>1. stage'[r] = "decode" /\ insert'[r] = {}
  BY DEF Return, IInv, HandlerTypeOK
<1>2. InProgressAt(r)'
  BY <1>1 DEF InProgressAt
<1>3. ASSUME NEW q \in Replicas \ {r}
      PROVE  /\ stage'[q] = stage[q] /\ insert'[q] = insert[q]
             /\ InProgressAt(q)'
             /\ stage[q] # "decode" => topic'[msg'[q]] = topic[msg[q]]
  <2>1. stage'[q] = stage[q] /\ insert'[q] = insert[q]
    BY DEF Return, IInv, HandlerTypeOK
  <2>2. pc'[q] = pc[q] /\ msg'[q] = msg[q]
    BY OthersStay DEF IInv
  <2> QED BY <2>1, <2>2, InProgressFrame DEF IInv, InProgress, InProgressAt
<1>4. InProgress' /\ OneInserter'
  BY <1>1, <1>2, <1>3 DEF InProgress, OneInserter, IInv
<1>5. OneCustomerPerLead' /\ ConvertedIffCustomer'
  BY DEF IInv, OneCustomerPerLead, ConvertedIffCustomer, LeadsOf
<1> QED BY <1>4, <1>5

\* COMMIT: the row of r is the first of its lead, and no other transaction has one.
LEMMA CommitRowStep ==
  ASSUME IInv, NEW r \in Replicas, stage[r] = "commit", CommitRow(r)
  PROVE  /\ customers \subseteq customers' /\ insert[r] \subseteq customers'
         /\ customers' \subseteq Customer /\ converted' \subseteq Leads
         /\ OneCustomerPerLead' /\ ConvertedIffCustomer'
         /\ \A q \in Replicas \ {r} :
              stage[q] = "commit" => topic[msg[q]] \notin LeadsOf(customers')
<1>1. PICK c \in Customer : insert[r] = {c} /\ c.lead = topic[msg[r]] /\ c.lead \in Leads
  BY RowInHand
<1>2. c.lead \notin LeadsOf(customers)
  BY <1>1 DEF IInv, InProgress, InProgressAt
<1>3. customers' = customers \cup {c} /\ LeadsOf(customers') = LeadsOf(customers) \cup {c.lead}
      /\ converted' = converted \cup {c.lead}
  BY <1>1 DEF CommitRow, LeadsOf
<1>4. OneCustomerPerLead'
  BY <1>2, <1>3 DEF IInv, OneCustomerPerLead, LeadsOf
<1>5. ConvertedIffCustomer'
  BY <1>3 DEF IInv, ConvertedIffCustomer
<1>6. ASSUME NEW q \in Replicas \ {r}, stage[q] = "commit"
      PROVE  topic[msg[q]] \notin LeadsOf(customers')
  BY <1>1, <1>3, <1>6 DEF IInv, InProgress, InProgressAt, OneInserter
<1> QED BY <1>1, <1>3, <1>4, <1>5, <1>6 DEF IInv, HandlerTypeOK

\* A COMMIT whose client is gone, or sees an error, leaves r without a row in hand.
LEMMA CommitReturnStep ==
  ASSUME IInv, [Next]_vars, NEW r \in Replicas, C!Loop(r) \/ C!Crash(r), Return(r),
         stage[r] = "commit", CommitRow(r), UNCHANGED events
  PROVE  HandlerTypeOK' /\ InProgress' /\ OneInserter' /\ OneCustomerPerLead'
         /\ ConvertedIffCustomer' /\ EventNamesCustomer'
<1>1. stage'[r] = "decode" /\ insert'[r] = {}
  BY DEF Return, IInv, HandlerTypeOK
<1>2. HandlerTypeOK'
  <2>1. customers' \subseteq Customer /\ converted' \subseteq Leads
    BY CommitRowStep
  <2> QED BY <2>1, ReturnTypes DEF IInv, HandlerTypeOK
<1>3. EventNamesCustomer'
  BY CommitRowStep DEF IInv, EventNamesCustomer
<1>4. InProgressAt(r)'
  BY <1>1 DEF InProgressAt
<1>5. ASSUME NEW q \in Replicas \ {r}
      PROVE  /\ stage'[q] = stage[q] /\ insert'[q] = insert[q]
             /\ InProgressAt(q)'
             /\ stage[q] # "decode" => topic'[msg'[q]] = topic[msg[q]]
  <2>1. stage'[q] = stage[q] /\ insert'[q] = insert[q]
    BY DEF Return, IInv, HandlerTypeOK
  <2>2. pc'[q] = pc[q] /\ msg'[q] = msg[q]
    BY OthersStay DEF IInv
  <2> QED BY <2>1, <2>2, CommitRowStep, InProgressFrame DEF IInv, InProgress, InProgressAt
<1>6. InProgress' /\ OneInserter'
  BY <1>1, <1>4, <1>5 DEF InProgress, OneInserter, IInv
<1> QED BY <1>2, <1>3, <1>6, CommitRowStep

\* COMMIT stores the row of the one inserter of the lead.
LEMMA CommitTxStep ==
  ASSUME IInv, [Next]_vars, NEW r \in Replicas, CommitTx(r)
  PROVE  HandlerTypeOK' /\ InProgress' /\ OneInserter' /\ HandledMeansCustomer'
         /\ OneCustomerPerLead' /\ ConvertedIffCustomer' /\ EventNamesCustomer'
<1> USE DEF consumerVars
<1>1. /\ stage[r] = "commit" /\ pc[r] = "handle" /\ CommitRow(r)
      /\ stage' = [stage EXCEPT ![r] = "publish"]
      /\ sends' = [sends EXCEPT ![r] = 1]
      /\ UNCHANGED <<consumerVars, insert, events>>
  BY DEF CommitTx, Handling
<1>2. HandlerTypeOK'
  <2>1. customers' \subseteq Customer /\ converted' \subseteq Leads
    BY <1>1, CommitRowStep
  <2>2. sends' \in [Replicas -> 0..PublishAttempts]
    BY <1>1, ProducerAssumption DEF IInv, HandlerTypeOK
  <2> QED BY <1>1, <2>1, <2>2 DEF IInv, HandlerTypeOK
<1>3. EventNamesCustomer'
  BY <1>1, CommitRowStep DEF IInv, EventNamesCustomer
<1>4. InProgressAt(r)'
  <2>1. stage'[r] = "publish"
    BY <1>1 DEF IInv, HandlerTypeOK
  <2> QED BY <1>1, <2>1, CommitRowStep DEF IInv, InProgress, InProgressAt
<1>5. ASSUME NEW q \in Replicas \ {r} PROVE InProgressAt(q)' /\ stage'[q] = stage[q]
  <2>1. stage'[q] = stage[q]
    BY <1>1 DEF IInv, HandlerTypeOK
  <2> QED BY <1>1, <2>1, CommitRowStep, InProgressFrame DEF IInv, InProgress, InProgressAt
<1>6. InProgress' /\ OneInserter'
  BY <1>1, <1>4, <1>5 DEF InProgress, OneInserter, IInv, HandlerTypeOK
<1>7. HandledMeansCustomer'
  BY <1>1, CommitRowStep, HandledFrame
<1> QED BY <1>1, <1>2, <1>3, <1>6, <1>7, CommitRowStep

\* The records one write leaves in the topic.
LEMMA StoredRecords ==
  ASSUME EventNamesCustomer, events \in Seq(Customer), NEW c \in customers, c \in Customer,
         NEW w \in WriteOutcomes, events' = Stored(events, c, w), customers \subseteq customers'
  PROVE  events' \in Seq(Customer) /\ EventNamesCustomer'
<1> DEFINE copies == [i \in 1..w.copies |-> c]
<1>1. w.copies \in Nat
  BY ProducerAssumption DEF WriteOutcomes
<1>2. copies \in Seq(Customer) /\ Len(copies) = w.copies
  BY <1>1
<1>3. events' = events \o copies
  BY DEF Stored
<1> HIDE DEF copies
<1>4. events' \in Seq(Customer) /\ Len(events') = Len(events) + Len(copies)
  BY <1>2, <1>3
<1>5. ASSUME NEW k \in 1..Len(events') PROVE events'[k] \in customers'
  <2>1. CASE k <= Len(events)
    BY <1>2, <1>3, <1>4, <2>1 DEF EventNamesCustomer
  <2>2. CASE k > Len(events)
    <3>1. events'[k] = copies[k - Len(events)] /\ k - Len(events) \in 1..w.copies
      BY <1>2, <1>3, <1>4, <2>2
    <3> QED BY <3>1 DEF copies
  <2> QED BY <2>1, <2>2
<1> QED BY <1>4, <1>5 DEF EventNamesCustomer

\* Every attempt of the publish writes the committed row of the lead in hand.
LEMMA PublishStep ==
  ASSUME IInv, [Next]_vars, NEW r \in Replicas, Publish(r)
  PROVE  HandlerTypeOK' /\ InProgress' /\ OneInserter' /\ HandledMeansCustomer'
         /\ OneCustomerPerLead' /\ ConvertedIffCustomer' /\ EventNamesCustomer'
<1>1. stage[r] = "publish" /\ UNCHANGED <<customers, converted>>
  BY DEF Publish, Handling
<1>2. PICK w \in WriteOutcomes, c \in insert[r] :
        /\ events' = Stored(events, c, w)
        /\ \/ w.acked /\ C!HandlerOk(r) /\ Return(r)
           \/ GivesUp(w, sends[r]) /\ C!HandlerFail(r) /\ Return(r)
           \/ /\ TriesAgain(w, sends[r])
              /\ sends' = [sends EXCEPT ![r] = @ + 1]
              /\ UNCHANGED <<consumerVars, stage, insert>>
  BY DEF Publish
<1>3. c \in customers /\ c \in Customer /\ c.lead = topic[msg[r]] /\ msg[r] \in 1..Len(topic)
  BY <1>1, <1>2, RowInHand DEF IInv, InProgress, InProgressAt
<1>4. events' \in Seq(Customer) /\ EventNamesCustomer'
  BY <1>1, <1>2, <1>3, StoredRecords DEF IInv, HandlerTypeOK
<1>5. CASE Return(r) /\ (C!HandlerOk(r) \/ C!HandlerFail(r))
  <2>1. HandlerTypeOK'
    BY <1>1, <1>4, <1>5, ReturnTypes DEF IInv, HandlerTypeOK
  <2>2. C!Loop(r)
    BY <1>5 DEF C!Loop, C!Handle
  <2>3. HandledMeansCustomer'
    <3>1. handled' \subseteq handled \cup {msg[r]}
      BY <1>5 DEF C!HandlerOk, C!HandlerFail, C!outcomeVars
    <3>2. topic[msg[r]] \in LeadsOf(customers')
      BY <1>1, <1>3 DEF LeadsOf
    <3> QED BY <1>1, <1>3, <3>1, <3>2, HandledFrame
  <2> QED BY <1>1, <1>4, <1>5, <2>1, <2>2, <2>3, ReturnStep
<1>6. CASE /\ TriesAgain(w, sends[r])
           /\ sends' = [sends EXCEPT ![r] = @ + 1]
           /\ UNCHANGED <<consumerVars, stage, insert>>
  <2>1. sends' \in [Replicas -> 0..PublishAttempts]
    <3>1. sends[r] + 1 \in 0..PublishAttempts
      BY <1>6, ProducerAssumption DEF IInv, HandlerTypeOK, TriesAgain, GivesUp
    <3> QED BY <1>6, <3>1 DEF IInv, HandlerTypeOK
  <2>2. HandlerTypeOK'
    BY <1>1, <1>4, <1>6, <2>1 DEF IInv, HandlerTypeOK
  <2>3. InProgress' /\ OneInserter'
    BY <1>1, <1>6 DEF IInv, InProgress, InProgressAt, OneInserter, LeadsOf, consumerVars
  <2>4. HandledMeansCustomer' /\ OneCustomerPerLead' /\ ConvertedIffCustomer'
    BY <1>1, <1>6 DEF IInv, HandledMeansCustomer, OneCustomerPerLead, ConvertedIffCustomer,
                      LeadsOf, consumerVars
  <2> QED BY <1>4, <2>2, <2>3, <2>4
<1> QED BY <1>2, <1>5, <1>6

\* The same when its answer is lost and the attempt has failed.
LEMMA CommitTxLostStep ==
  ASSUME IInv, [Next]_vars, NEW r \in Replicas, CommitTxLost(r)
  PROVE  HandlerTypeOK' /\ InProgress' /\ OneInserter' /\ HandledMeansCustomer'
         /\ OneCustomerPerLead' /\ ConvertedIffCustomer' /\ EventNamesCustomer'
<1>1. stage[r] = "commit" /\ CommitRow(r) /\ C!HandlerFail(r) /\ Return(r) /\ UNCHANGED events
  BY DEF CommitTxLost, Handling
<1>2. C!Loop(r) /\ handled' = handled
  BY <1>1 DEF C!Loop, C!Handle, C!HandlerFail, C!outcomeVars
<1>3. HandledMeansCustomer'
  BY <1>1, <1>2, CommitRowStep, HandledFrame
<1> QED BY <1>1, <1>2, <1>3, CommitReturnStep

\* A failed attempt takes its uncommitted row with it.
LEMMA DbFailStep ==
  ASSUME IInv, [Next]_vars, NEW r \in Replicas, DbFail(r)
  PROVE  HandlerTypeOK' /\ InProgress' /\ OneInserter' /\ HandledMeansCustomer'
         /\ OneCustomerPerLead' /\ ConvertedIffCustomer' /\ EventNamesCustomer'
<1>1. C!HandlerFail(r) /\ Return(r) /\ UNCHANGED storeVars
  BY DEF DbFail
<1>2. C!Loop(r) /\ handled' = handled
  BY <1>1 DEF C!Loop, C!Handle, C!HandlerFail, C!outcomeVars
<1>3. HandlerTypeOK' /\ EventNamesCustomer' /\ HandledMeansCustomer'
  BY <1>1, <1>2, ReturnTypes, HandledFrame
  DEF IInv, HandlerTypeOK, EventNamesCustomer, storeVars
<1> QED BY <1>1, <1>2, <1>3, ReturnStep DEF storeVars

\* A crash does what a failed attempt does, or what COMMIT does.
LEMMA CrashStep ==
  ASSUME IInv, [Next]_vars, NEW r \in Replicas, Crash(r)
  PROVE  HandlerTypeOK' /\ InProgress' /\ OneInserter' /\ HandledMeansCustomer'
         /\ OneCustomerPerLead' /\ ConvertedIffCustomer' /\ EventNamesCustomer'
<1>1. C!Crash(r) /\ Return(r) /\ UNCHANGED events /\ handled' = handled
  BY DEF Crash, C!Crash, C!outcomeVars
<1>2. CASE UNCHANGED <<customers, converted>>
  <2>1. HandlerTypeOK' /\ EventNamesCustomer' /\ HandledMeansCustomer'
    BY <1>1, <1>2, ReturnTypes, HandledFrame DEF IInv, HandlerTypeOK, EventNamesCustomer
  <2> QED BY <1>1, <1>2, <2>1, ReturnStep
<1>3. CASE stage[r] = "commit" /\ CommitRow(r)
  <2>1. HandledMeansCustomer'
    BY <1>1, <1>3, CommitRowStep, HandledFrame
  <2> QED BY <1>1, <1>3, <2>1, CommitReturnStep
<1> QED BY <1>2, <1>3 DEF Crash

\* The loop's own steps and the two ways out of an attempt at its first stage.
LEMMA LoopStep ==
  ASSUME IInv, [Next]_vars, NEW r \in Replicas,
         \/ Fetch(r) \/ DeadLetter(r) \/ Commit(r) \/ DecodeFail(r) \/ AlreadyConverted(r)
  PROVE  HandlerTypeOK' /\ InProgress' /\ OneInserter' /\ HandledMeansCustomer'
         /\ OneCustomerPerLead' /\ ConvertedIffCustomer' /\ EventNamesCustomer'
<1>1. C!Loop(r) /\ UNCHANGED <<handlerVars, storeVars>>
  BY DEF Fetch, DeadLetter, Commit, DecodeFail, AlreadyConverted, C!Loop, C!Handle
<1>2. stage[r] = "decode"
  <2>1. DecodeFail(r) \/ AlreadyConverted(r) \/ pc[r] # "handle"
    BY DEF Fetch, DeadLetter, Commit, C!Fetch, C!DeadLetter, C!DlqMarshalFail,
           C!DlqPublish, C!Commit
  <2> QED BY <2>1 DEF DecodeFail, AlreadyConverted, Handling, IInv, InProgress,
                      InProgressAt, HandlerTypeOK
<1>3. \A q \in Replicas : stage[q] # "decode" => pc'[q] = "handle" /\ msg'[q] = msg[q]
  BY <1>1, <1>2, OthersStay DEF IInv, InProgress, InProgressAt
<1>4. HandledMeansCustomer'
  <2>1. CASE AlreadyConverted(r)
    <3>1. pc[r] = "handle" /\ handled' = handled \cup {msg[r]} /\ topic[msg[r]] \in LeadsOf(customers)
      BY <2>1 DEF AlreadyConverted, Handling, C!HandlerOk
    <3> QED BY <1>1, <3>1, LoopFacts, HandledFrame DEF IInv, storeVars
  <2>2. CASE ~AlreadyConverted(r)
    <3>1. handled' = handled
      BY <2>2 DEF Fetch, DeadLetter, Commit, DecodeFail, C!Fetch, C!DeadLetter,
                  C!DlqMarshalFail, C!DlqPublish, C!Commit, C!HandlerFail, C!outcomeVars
    <3> QED BY <1>1, <3>1, HandledFrame DEF storeVars
  <2> QED BY <2>1, <2>2
<1> QED BY <1>1, <1>3, <1>4, QuietStep

\* The broker does not touch what is in progress.
LEMMA EnvironmentStep ==
  ASSUME IInv, [Next]_vars, Environment \/ UNCHANGED vars
  PROVE  HandlerTypeOK' /\ InProgress' /\ OneInserter' /\ HandledMeansCustomer'
         /\ OneCustomerPerLead' /\ ConvertedIffCustomer' /\ EventNamesCustomer'
<1>1. UNCHANGED <<pc, msg, handled, handlerVars, storeVars>>
  BY DEF Environment, vars, consumerVars, C!Produce, C!Assign, C!Revoke, C!Discard,
         C!loopVars, C!outcomeVars
<1>2. \A q \in Replicas : stage[q] # "decode" => pc'[q] = "handle" /\ msg'[q] = msg[q]
  BY <1>1 DEF IInv, InProgress, InProgressAt
<1>3. HandledMeansCustomer'
  BY <1>1, HandledFrame DEF storeVars
<1> QED BY <1>1, <1>2, <1>3, QuietStep

-----------------------------------------------------------------------------

\* The events of the attempts made so far.
LEMMA Copies ==
  ASSUME NEW n \in 1..PublishAttempts
  PROVE  /\ (n - 1) * WriterCopies + WriterCopies = n * WriterCopies
         /\ n * WriterCopies <= PublishAttempts * WriterCopies
         /\ (n - 1) * WriterCopies \in Nat /\ PublishAttempts * WriterCopies \in Nat
BY ProducerAssumption

\* A write adds at most WriterCopies events, all of them to the lead it is about.
LEMMA EventsStored ==
  ASSUME events \in Seq(Customer), NEW c \in Customer, NEW w \in WriteOutcomes,
         events' = Stored(events, c, w), NEW lead
  PROVE  /\ lead # c.lead => EventsOf(lead)' = EventsOf(lead)
         /\ Cardinality(EventsOf(lead)) \in Nat /\ Cardinality(EventsOf(lead)') \in Nat
         /\ Cardinality(EventsOf(lead)') <= Cardinality(EventsOf(lead)) + WriterCopies
<1> DEFINE copies == [i \in 1..w.copies |-> c]
           added == (Len(events) + 1)..(Len(events) + w.copies)
<1>1. w.copies \in Nat /\ w.copies <= WriterCopies /\ WriterCopies \in Nat
  BY ProducerAssumption DEF WriteOutcomes
<1>2. copies \in Seq(Customer) /\ Len(copies) = w.copies /\ \A i \in 1..w.copies : copies[i] = c
  BY <1>1
<1>3. events' = events \o copies
  BY DEF Stored
<1> HIDE DEF copies
<1>4. /\ Len(events) \in Nat /\ Len(events') = Len(events) + w.copies
      /\ \A k \in 1..Len(events) : events'[k] = events[k]
      /\ \A k \in added : events'[k] = c
  BY <1>1, <1>2, <1>3
<1>5. /\ EventsOf(lead)' \subseteq EventsOf(lead) \cup added
      /\ lead # c.lead => EventsOf(lead)' = EventsOf(lead)
  BY <1>1, <1>4 DEF EventsOf
<1>6. IsFiniteSet(added) /\ Cardinality(added) = w.copies
  <2>1. Len(events) + 1 \in Int /\ Len(events) + w.copies \in Int
    BY <1>1, <1>4
  <2>2. \A a, b \in Int : IsFiniteSet(a..b) /\ Cardinality(a..b) = IF a > b THEN 0 ELSE b - a + 1
    BY FS_Interval
  <2>3. /\ IsFiniteSet(added)
        /\ Cardinality(added) = IF Len(events) + 1 > Len(events) + w.copies THEN 0
                                ELSE (Len(events) + w.copies) - (Len(events) + 1) + 1
    BY <2>1, <2>2
  <2> HIDE DEF added
  <2>4. CASE w.copies = 0
    BY <1>4, <2>3, <2>4
  <2>5. CASE w.copies > 0
    BY <1>1, <1>4, <2>3, <2>5
  <2> QED BY <1>1, <2>3, <2>4, <2>5
<1>7. IsFiniteSet(EventsOf(lead))
  <2>1. IsFiniteSet(1..Len(events))
    BY <1>4, FS_Interval
  <2> QED BY <2>1, FS_Subset DEF EventsOf
<1> HIDE DEF added
<1>8. /\ IsFiniteSet(EventsOf(lead) \cup added)
      /\ Cardinality(EventsOf(lead) \cup added) <= Cardinality(EventsOf(lead)) + Cardinality(added)
  <2>1. IsFiniteSet(EventsOf(lead) \cap added)
    BY <1>6, FS_Intersection
  <2>2. /\ IsFiniteSet(EventsOf(lead) \cup added)
        /\ Cardinality(EventsOf(lead) \cup added)
             = Cardinality(EventsOf(lead)) + Cardinality(added) - Cardinality(EventsOf(lead) \cap added)
    BY <1>6, <1>7, FS_Union
  <2>3. /\ Cardinality(EventsOf(lead)) \in Nat /\ Cardinality(added) \in Nat
        /\ Cardinality(EventsOf(lead) \cap added) \in Nat
    BY <1>6, <1>7, <2>1, FS_CardinalityType
  <2> QED BY <2>2, <2>3
<1>9. /\ IsFiniteSet(EventsOf(lead)')
      /\ Cardinality(EventsOf(lead)') <= Cardinality(EventsOf(lead) \cup added)
  BY <1>5, <1>8, FS_Subset
<1>10. /\ Cardinality(EventsOf(lead)) \in Nat /\ Cardinality(EventsOf(lead)') \in Nat
       /\ Cardinality(EventsOf(lead) \cup added) \in Nat
  BY <1>7, <1>8, <1>9, FS_CardinalityType
<1> QED BY <1>1, <1>5, <1>6, <1>8, <1>9, <1>10

\* Steps that write no event and begin no publish.
LEMMA AnnouncerFrame ==
  ASSUME IInv, UNCHANGED events,
         \A q \in Replicas : stage'[q] = "publish" =>
           stage[q] = "publish" /\ sends'[q] = sends[q] /\ topic'[msg'[q]] = topic[msg[q]]
  PROVE  OneAnnouncer' /\ OneAnnouncementPerLead'
<1>1. \A lead : EventsOf(lead)' = EventsOf(lead)
  BY DEF EventsOf
<1>2. OneAnnouncer'
  BY <1>1 DEF IInv, OneAnnouncer
<1>3. OneAnnouncementPerLead'
  BY <1>1 DEF IInv, OneAnnouncementPerLead
<1> QED BY <1>2, <1>3

\* COMMIT begins the publish: the lead had no customer before, so that it has no
\* event, and no replica is publishing one.
LEMMA AnnouncerCommit ==
  ASSUME IInv, NEW r \in Replicas, CommitTx(r)
  PROVE  OneAnnouncer' /\ OneAnnouncementPerLead'
<1>1. /\ stage[r] = "commit" /\ UNCHANGED <<topic, msg, events>>
      /\ stage' = [stage EXCEPT ![r] = "publish"] /\ sends' = [sends EXCEPT ![r] = 1]
  BY DEF CommitTx, Handling, consumerVars
<1>2. stage'[r] = "publish" /\ sends'[r] = 1
      /\ \A q \in Replicas \ {r} : stage'[q] = stage[q] /\ sends'[q] = sends[q]
  BY <1>1 DEF IInv, HandlerTypeOK
<1>3. topic[msg[r]] \notin LeadsOf(customers)
  BY <1>1 DEF IInv, InProgress, InProgressAt
<1>4. \A lead : EventsOf(lead)' = EventsOf(lead)
  BY <1>1 DEF EventsOf
<1>5. EventsOf(topic[msg[r]]) = {}
  BY <1>3 DEF EventsOf, IInv, EventNamesCustomer, LeadsOf
<1>6. Cardinality(EventsOf(topic[msg[r]])) = 0 /\ (1 - 1) * WriterCopies = 0
  BY <1>5, FS_EmptySet, ProducerAssumption
<1>7. ASSUME NEW q \in Replicas, stage[q] = "publish" PROVE topic[msg[q]] # topic[msg[r]]
  BY <1>3, <1>7, RowInHand DEF IInv, InProgress, InProgressAt, LeadsOf
<1>8. OneAnnouncer'
  <2>1. ASSUME NEW q \in Replicas \ {r}, stage'[q] = "publish"
        PROVE  /\ sends'[q] > 0
               /\ Cardinality(EventsOf(topic[msg[q]])) <= (sends'[q] - 1) * WriterCopies
               /\ \A p \in Replicas \ {r} :
                    stage'[p] = "publish" /\ topic[msg[p]] = topic[msg[q]] => p = q
               /\ topic[msg[q]] # topic[msg[r]]
    BY <1>2, <1>7, <2>1 DEF IInv, OneAnnouncer
  <2> QED BY <1>1, <1>2, <1>4, <1>6, <2>1 DEF OneAnnouncer
<1>9. OneAnnouncementPerLead'
  BY <1>4 DEF IInv, OneAnnouncementPerLead
<1> QED BY <1>8, <1>9

\* An attempt of the publish adds the copies of one write to its lead.
LEMMA AnnouncerPublish ==
  ASSUME IInv, NEW r \in Replicas, Publish(r), C!IInv'
  PROVE  OneAnnouncer' /\ OneAnnouncementPerLead'
<1>1. stage[r] = "publish"
  BY DEF Publish, Handling
<1> PICK lead : lead = topic[msg[r]]
  OBVIOUS
<1>2. PICK w \in WriteOutcomes, c \in insert[r] :
        /\ events' = Stored(events, c, w)
        /\ \/ w.acked /\ C!HandlerOk(r) /\ Return(r)
           \/ GivesUp(w, sends[r]) /\ C!HandlerFail(r) /\ Return(r)
           \/ /\ TriesAgain(w, sends[r])
              /\ sends' = [sends EXCEPT ![r] = @ + 1]
              /\ UNCHANGED <<consumerVars, stage, insert>>
  BY DEF Publish
<1>3. c \in Customer /\ c.lead = lead
  BY <1>1, <1>2, RowInHand
<1>4. sends[r] \in 1..PublishAttempts
  BY <1>1, ProducerAssumption DEF IInv, HandlerTypeOK, OneAnnouncer
<1>5. ASSUME NEW x
      PROVE  /\ x # lead => EventsOf(x)' = EventsOf(x)
             /\ Cardinality(EventsOf(x)) \in Nat /\ Cardinality(EventsOf(x)') \in Nat
             /\ Cardinality(EventsOf(x)') <= Cardinality(EventsOf(x)) + WriterCopies
  BY <1>2, <1>3, EventsStored DEF IInv, HandlerTypeOK
<1>6. Cardinality(EventsOf(lead)) <= (sends[r] - 1) * WriterCopies
  BY <1>1 DEF IInv, OneAnnouncer
<1>7. /\ Cardinality(EventsOf(lead)') <= sends[r] * WriterCopies
      /\ Cardinality(EventsOf(lead)') <= PublishAttempts * WriterCopies
  <2>1. /\ (sends[r] - 1) * WriterCopies + WriterCopies = sends[r] * WriterCopies
        /\ sends[r] * WriterCopies <= PublishAttempts * WriterCopies
        /\ (sends[r] - 1) * WriterCopies \in Nat /\ PublishAttempts * WriterCopies \in Nat
    BY <1>4, Copies
  <2>2. WriterCopies \in Nat /\ sends[r] * WriterCopies \in Nat
    BY <2>1, ProducerAssumption
  <2>3. /\ Cardinality(EventsOf(lead)) \in Nat /\ Cardinality(EventsOf(lead)') \in Nat
        /\ Cardinality(EventsOf(lead)') <= Cardinality(EventsOf(lead)) + WriterCopies
    BY <1>5
  <2> QED BY <1>6, <2>1, <2>2, <2>3
<1>8. OneAnnouncementPerLead'
  <2>1. ASSUME NEW x \in Leads PROVE Cardinality(EventsOf(x)') <= PublishAttempts * WriterCopies
    <3>1. CASE x = lead
      BY <1>7, <3>1
    <3>2. CASE x # lead
      BY <1>5, <3>2 DEF IInv, OneAnnouncementPerLead
    <3> QED BY <3>1, <3>2
  <2> QED BY <2>1 DEF OneAnnouncementPerLead
<1>9. topic' = topic /\ \A q \in Replicas \ {r} :
        stage'[q] = stage[q] /\ sends'[q] = sends[q] /\ msg'[q] = msg[q]
  BY <1>2 DEF IInv, HandlerTypeOK, Return, C!HandlerOk, C!HandlerFail, C!brokerVars, C!loopVars,
              C!outcomeVars, consumerVars
<1>10. ASSUME NEW q \in Replicas \ {r}, stage[q] = "publish" PROVE topic[msg[q]] # lead
  BY <1>1, <1>10 DEF IInv, OneAnnouncer
<1>11. ASSUME NEW q \in Replicas \ {r}, stage'[q] = "publish"
       PROVE  /\ sends'[q] > 0
              /\ Cardinality(EventsOf(topic[msg[q]])') <= (sends'[q] - 1) * WriterCopies
              /\ \A p \in Replicas \ {r} :
                   stage'[p] = "publish" /\ topic[msg[p]] = topic[msg[q]] => p = q
              /\ topic[msg[q]] # lead
  BY <1>5, <1>9, <1>10, <1>11 DEF IInv, OneAnnouncer
<1>12. CASE Return(r)
  <2>1. stage'[r] = "decode"
    BY <1>12 DEF IInv, HandlerTypeOK, Return
  <2> QED BY <1>8, <1>9, <1>11, <2>1 DEF OneAnnouncer
<1>13. CASE sends' = [sends EXCEPT ![r] = @ + 1] /\ UNCHANGED <<consumerVars, stage, insert>>
  <2>1. sends'[r] = sends[r] + 1 /\ msg' = msg
    BY <1>13 DEF IInv, HandlerTypeOK, consumerVars
  <2>2. sends'[r] - 1 = sends[r] /\ sends'[r] > 0
    BY <1>4, <2>1
  <2> QED BY <1>7, <1>8, <1>9, <1>11, <2>1, <2>2 DEF OneAnnouncer
<1> QED BY <1>2, <1>12, <1>13

\* Every step keeps to one announcement for each lead.
LEMMA AnnouncerStep ==
  ASSUME IInv, C!IInv', [Next]_vars
  PROVE  OneAnnouncer' /\ OneAnnouncementPerLead'
<1>1. \A q \in Replicas : stage[q] = "publish" => pc[q] = "handle" /\ msg[q] \in 1..Len(topic)
  BY LoopFacts DEF IInv, InProgress, InProgressAt
<1>2. CASE Environment \/ UNCHANGED vars
  <2>1. UNCHANGED <<msg, stage, sends, events>>
    BY <1>2 DEF Environment, vars, consumerVars, handlerVars, storeVars, C!Produce, C!Assign,
                C!Revoke, C!Discard, C!loopVars
  <2>2. \A q \in Replicas : stage[q] = "publish" => topic'[msg[q]] = topic[msg[q]]
    BY <1>1, TopicGrows DEF IInv
  <2> QED BY <2>1, <2>2, AnnouncerFrame
<1>3. ASSUME NEW r \in Replicas, Loop(r) \/ Crash(r), ~CommitTx(r), ~Publish(r)
      PROVE  OneAnnouncer' /\ OneAnnouncementPerLead'
  <2>1. /\ stage'[r] # "publish" /\ UNCHANGED events
        /\ \A q \in Replicas \ {r} : stage'[q] = stage[q] /\ sends'[q] = sends[q]
    <3>1. CASE Fetch(r) \/ DeadLetter(r) \/ Commit(r) \/ DecodeFail(r) \/ AlreadyConverted(r)
      <4>1. UNCHANGED <<stage, sends, events>>
        BY <3>1 DEF Fetch, DeadLetter, Commit, DecodeFail, AlreadyConverted, handlerVars, storeVars
      <4>2. stage[r] = "decode" \/ pc[r] # "handle"
        BY <3>1 DEF Fetch, DeadLetter, Commit, DecodeFail, AlreadyConverted, Handling, C!Fetch,
                    C!DeadLetter, C!DlqMarshalFail, C!DlqPublish, C!Commit
      <4> QED BY <1>1, <4>1, <4>2
    <3>2. CASE DbFail(r) \/ CommitTxLost(r) \/ Crash(r)
      <4>1. Return(r) /\ UNCHANGED events
        BY <3>2 DEF DbFail, CommitTxLost, Crash, storeVars
      <4> QED BY <4>1 DEF Return, IInv, HandlerTypeOK
    <3>3. CASE Insert(r)
      <4>1. stage' = [stage EXCEPT ![r] = "commit"] /\ UNCHANGED <<sends, events>>
        BY <3>3 DEF Insert, storeVars
      <4> QED BY <4>1 DEF IInv, HandlerTypeOK
    <3> QED BY <1>3, <3>1, <3>2, <3>3 DEF Loop, Handler
  <2>2. C!Loop(r) \/ C!Crash(r) \/ UNCHANGED consumerVars
    BY <1>3 DEF Loop, Handler, Fetch, DeadLetter, Commit, DecodeFail, Insert, AlreadyConverted,
                DbFail, CommitTxLost, Crash, C!Loop, C!Handle
  <2>3. ASSUME NEW q \in Replicas \ {r} PROVE msg'[q] = msg[q]
    BY <2>2, OthersStay DEF IInv, consumerVars
  <2>4. \A q \in Replicas \ {r} : stage[q] = "publish" => topic'[msg'[q]] = topic[msg[q]]
    BY <1>1, <2>3, TopicGrows DEF IInv
  <2> QED BY <2>1, <2>4, AnnouncerFrame
<1> QED BY <1>2, <1>3, AnnouncerCommit, AnnouncerPublish DEF Next

-----------------------------------------------------------------------------

\* Every step of the service preserves the invariant, given that of the loop.
LEMMA IInvStep == IInv /\ C!IInv' /\ [Next]_vars => IInv'
<1> SUFFICES ASSUME IInv, C!IInv', [Next]_vars PROVE IInv'
  OBVIOUS
<1> QED
  BY EnvironmentStep, LoopStep, InsertStep, DbFailStep, CommitTxStep, CommitTxLostStep,
     PublishStep, CrashStep, AnnouncerStep
  DEF IInv, Next, Loop, Handler

\* The invariant holds in the initial states.
LEMMA InitIInv == Init /\ C!IInv => IInv
<1> SUFFICES ASSUME Init, C!IInv PROVE IInv
  OBVIOUS
<1>1. HandlerTypeOK
  BY ProducerAssumption DEF Init, HandlerTypeOK
<1>2. handled = {} /\ events = <<>> /\ customers = {} /\ converted = {}
  BY DEF Init, C!Init
<1>3. OneAnnouncer /\ OneAnnouncementPerLead
  <2>1. \A lead : EventsOf(lead) = {}
    BY <1>2 DEF EventsOf
  <2>2. Cardinality({}) = 0 /\ PublishAttempts * WriterCopies \in Nat
    BY FS_EmptySet, ProducerAssumption
  <2>3. \A r \in Replicas : stage[r] = "decode"
    BY DEF Init
  <2> QED BY <2>1, <2>2, <2>3 DEF OneAnnouncer, OneAnnouncementPerLead
<1> QED BY <1>1, <1>2, <1>3 DEF Init, IInv, InProgress, InProgressAt, OneInserter, HandledMeansCustomer,
           OneCustomerPerLead, ConvertedIffCustomer, EventNamesCustomer, LeadsOf

\* The two invariants together are preserved by every step.
LEMMA IInvKept == IInv /\ [Next]_vars => IInv'
<1> SUFFICES ASSUME IInv, [Next]_vars PROVE IInv'
  OBVIOUS
<1>1. P!IInv /\ [P!Next]_(P!vars)
  BY SameIInv, StepOfConsumer, SameNext, SameVars DEF IInv, vars
<1>2. P!IInv'
  BY <1>1, Assumptions, P!IInvStep
<1>3. C!IInv' <=> P!IInv'
  BY DEF C!IInv, P!IInv, C!TypeOK, P!TypeOK, C!InHand, P!InHand, C!Carried, P!Carried,
         C!CarriedBy, P!CarriedBy, C!NothingSkipped, P!NothingSkipped, C!Calm, P!Calm,
         C!Settled, P!Settled, C!Offsets, P!Offsets
<1> QED BY <1>2, <1>3, IInvStep

\* lead.created may grow by several records at once, the copies of one write.
LEMMA TopicExtended ==
  ASSUME IInv, topic' \in Seq(Leads \cup {NotJson}), Len(topic) <= Len(topic'),
         \A o \in 1..Len(topic) : topic'[o] = topic[o],
         UNCHANGED <<committed, reader, churn, position, pc, msg, attempt, tries, handled, dlq,
                     dropped, handlerVars, storeVars>>
  PROVE  IInv'
<1>1. C!IInv'
  <2>1. P!IInv
    BY SameIInv DEF IInv
  <2>2. P!IInv'
    BY <2>1, Assumptions, P!TopicExtended DEF P!loopVars, P!outcomeVars
  <2>3. C!IInv' <=> P!IInv'
    BY DEF C!IInv, P!IInv, C!TypeOK, P!TypeOK, C!InHand, P!InHand, C!Carried, P!Carried,
           C!CarriedBy, P!CarriedBy, C!NothingSkipped, P!NothingSkipped, C!Calm, P!Calm,
           C!Settled, P!Settled, C!Offsets, P!Offsets
  <2> QED BY <2>2, <2>3
<1>2. \A q \in Replicas : stage[q] # "decode" => topic'[msg[q]] = topic[msg[q]]
  BY LoopFacts DEF IInv, InProgress, InProgressAt
<1>3. \A q \in Replicas : InProgressAt(q)'
  BY <1>2 DEF IInv, InProgress, InProgressAt, LeadsOf, handlerVars, storeVars
<1>4. InProgress' /\ OneInserter'
  BY <1>2, <1>3 DEF IInv, InProgress, OneInserter, handlerVars
<1>5. HandledMeansCustomer'
  BY LoopFacts DEF IInv, HandledMeansCustomer, LeadsOf, storeVars
<1>6. OneAnnouncer' /\ OneAnnouncementPerLead'
  BY <1>2, AnnouncerFrame DEF handlerVars, storeVars
<1>7. HandlerTypeOK' /\ OneCustomerPerLead' /\ ConvertedIffCustomer' /\ EventNamesCustomer'
  BY DEF IInv, HandlerTypeOK, OneCustomerPerLead, ConvertedIffCustomer, EventNamesCustomer,
         LeadsOf, handlerVars, storeVars
<1> QED BY <1>1, <1>4, <1>5, <1>6, <1>7 DEF IInv

\* The invariant of the loop and of the handler holds in every reachable state; the
\* theorems below are its parts.
THEOREM Inductive == Spec => []IInv
BY InitIInv, IInvStep, ConsumerInductive, PTL DEF Spec

-----------------------------------------------------------------------------

\* Every variable stays in its type.
THEOREM TypeCorrect == Spec => []TypeOK
<1>1. IInv => TypeOK
  BY DEF IInv, C!IInv, TypeOK
<1> QED BY <1>1, Inductive, PTL

\* However often lead.created is delivered, and to however many replicas at once,
\* a lead has at most one customer (repository.go, CreateFromLead).
THEOREM UniqueCustomer == Spec => []OneCustomerPerLead
<1>1. IInv => OneCustomerPerLead
  BY DEF IInv
<1> QED BY <1>1, Inductive, PTL

\* The customer row and the status of its lead are written together or not at all.
THEOREM AtomicConversion == Spec => []ConvertedIffCustomer
<1>1. IInv => ConvertedIffCustomer
  BY DEF IInv
<1> QED BY <1>1, Inductive, PTL

\* A customer.created event never names a customer that is not committed.
THEOREM EventsAreTrue == Spec => []EventNamesCustomer
<1>1. IInv => EventNamesCustomer
  BY DEF IInv
<1> QED BY <1>1, Inductive, PTL

\* However often lead.created is delivered, customer.created is published by one
\* call at most: its copies are those of one PublishJSON (service.go, the test of
\* created).
THEOREM AnnouncedOnce == Spec => []OneAnnouncementPerLead
<1>1. IInv => OneAnnouncementPerLead
  BY DEF IInv
<1> QED BY <1>1, Inductive, PTL

\* A lead whose offset is committed is converted, unless its message took the
\* dead letter path.
THEOREM NoLeadLost == Spec => []CommittedMeansConverted
<1>1. IInv => CommittedMeansConverted
  BY LoopFacts DEF IInv, HandledMeansCustomer, ConvertedIffCustomer, CommittedMeansConverted
<1> QED BY <1>1, Inductive, PTL
=============================================================================
