--------------------------- MODULE ConsumerProofs ---------------------------
(***************************************************************************)
(* Proofs about Consumer, for every set of replicas and messages and every *)
(* value of the attempt limits and bounds.                                 *)
(*                                                                         *)
(* The invariant IInv is inductive; it is proved in three layers, each of  *)
(* which uses the ones below: TypeOK /\ InHand, then Carried and           *)
(* NothingSkipped, then Calm.  The theorems follow from it.                *)
(***************************************************************************)
EXTENDS Consumer, TLAPS

\* The records of one write are appended to a topic.
LEMMA Extended ==
  ASSUME NEW S, NEW log \in Seq(S), NEW e \in S, NEW w \in WriteOutcomes
  PROVE  /\ w.copies \in Nat /\ w.copies <= WriterCopies
         /\ Stored(log, e, w) \in Seq(S) /\ Len(Stored(log, e, w)) = Len(log) + w.copies
         /\ \A k \in 1..Len(log) : Stored(log, e, w)[k] = log[k]
         /\ \A k \in 1..Len(Stored(log, e, w)) : k \in 1..Len(log) \/ Stored(log, e, w)[k] = e
<1> DEFINE copies == [i \in 1..w.copies |-> e]
<1>1. w.copies \in Nat
  BY ProducerAssumption DEF WriteOutcomes
<1>2. copies \in Seq(S) /\ Len(copies) = w.copies /\ \A i \in 1..w.copies : copies[i] = e
  BY <1>1
<1>3. Stored(log, e, w) = log \o copies
  BY DEF Stored
<1> HIDE DEF copies
<1> PICK log2 : log2 = log \o copies
  OBVIOUS
<1>4. log2 \in Seq(S) /\ Len(log2) = Len(log) + w.copies /\ Len(log) \in Nat
  BY <1>1, <1>2
<1>5. \A k \in 1..Len(log) : log2[k] = log[k]
  BY <1>1, <1>2
<1>6. \A k \in 1..w.copies : log2[Len(log) + k] = e
  BY <1>1, <1>2
<1>7. ASSUME NEW k \in 1..Len(log2), k \notin 1..Len(log) PROVE log2[k] = e
  <2>1. k - Len(log) \in 1..w.copies /\ k = Len(log) + (k - Len(log))
    BY <1>1, <1>4, <1>7
  <2> QED BY <1>6, <2>1
<1>8. w.copies <= WriterCopies
  BY ProducerAssumption DEF WriteOutcomes
<1> QED BY <1>1, <1>3, <1>4, <1>5, <1>7, <1>8

\* The topic after a step of its producer.
LEMMA Produced ==
  ASSUME topic \in Seq(Messages), NEW m \in Messages, Produce(m)
  PROVE  /\ topic' \in Seq(Messages) /\ Len(topic) \in Nat /\ Len(topic) <= Len(topic')
         /\ \A o \in 1..Len(topic) : topic'[o] = topic[o]
         /\ \A o \in 1..Len(topic') : o \in 1..Len(topic) \/ topic'[o] = m
         /\ UNCHANGED <<committed, reader, churn, loopVars, outcomeVars>>
<1>1. PICK w \in WriteOutcomes : topic' = Stored(topic, m, w)
  BY DEF Produce
<1>2. /\ w.copies \in Nat /\ topic' \in Seq(Messages) /\ Len(topic') = Len(topic) + w.copies
      /\ \A k \in 1..Len(topic) : topic'[k] = topic[k]
      /\ \A k \in 1..Len(topic') : k \in 1..Len(topic) \/ topic'[k] = m
  <2> DEFINE new == Stored(topic, m, w)
  <2>1. /\ w.copies \in Nat /\ new \in Seq(Messages) /\ Len(new) = Len(topic) + w.copies
        /\ \A k \in 1..Len(topic) : new[k] = topic[k]
        /\ \A k \in 1..Len(new) : k \in 1..Len(topic) \/ new[k] = m
    <3>1. w.copies \in Nat
      BY Extended
    <3>2. new \in Seq(Messages)
      BY Extended
    <3>3. Len(new) = Len(topic) + w.copies
      BY Extended
    <3>4. \A k \in 1..Len(topic) : new[k] = topic[k]
      BY Extended
    <3>5. \A k \in 1..Len(new) : k \in 1..Len(topic) \/ new[k] = m
      BY Extended
    <3> QED BY <3>1, <3>2, <3>3, <3>4, <3>5
  <2> QED BY <1>1, <2>1
<1>3. Len(topic) \in Nat
  OBVIOUS
<1> QED BY <1>2, <1>3 DEF Produce

\* The invariant holds in the initial states.
LEMMA InitIInv == Init => IInv
<1>1. Init => TypeOK
  BY ConsumerAssumption, ProducerAssumption
  DEF Init, TypeOK, Offsets
<1>2. Init => InHand /\ Carried /\ NothingSkipped
  BY DEF Init, InHand, Carried, CarriedBy, NothingSkipped, Settled
<1>3. Init => Calm
  BY DEF Init, Calm, Settled
<1> QED BY <1>1, <1>2, <1>3 DEF IInv

\* Type correctness needs that a replica past Fetch has a message.
LEMMA TypeStep == TypeOK /\ InHand /\ [Next]_vars => TypeOK' /\ InHand'
<1> SUFFICES ASSUME TypeOK, InHand, [Next]_vars
             PROVE  TypeOK' /\ InHand'
  OBVIOUS
<1> USE ConsumerAssumption, ProducerAssumption
        DEF TypeOK, InHand, Offsets, brokerVars, loopVars, outcomeVars, Goto
<1>1. ASSUME NEW m \in Messages, Produce(m) PROVE TypeOK' /\ InHand'
  <2>1. /\ topic' \in Seq(Messages) /\ Len(topic) \in Nat /\ Len(topic') \in Nat
        /\ Len(topic) <= Len(topic')
        /\ UNCHANGED <<committed, reader, churn, loopVars, outcomeVars>>
    BY <1>1, Produced
  <2>2. 0..Len(topic) \subseteq 0..Len(topic') /\ 1..Len(topic) \subseteq 1..Len(topic')
    BY <2>1
  <2> QED BY <2>1, <2>2
<1>2. ASSUME NEW r \in Replicas, Assign(r) PROVE TypeOK' /\ InHand'
  BY <1>2 DEF Assign
<1>3. ASSUME NEW r \in Replicas, Revoke(r) PROVE TypeOK' /\ InHand'
  BY <1>3 DEF Revoke
<1>4. ASSUME NEW r \in Replicas, Discard(r) PROVE TypeOK' /\ InHand'
  BY <1>4 DEF Discard
<1>5. ASSUME NEW r \in Replicas, Fetch(r) PROVE TypeOK' /\ InHand'
  BY <1>5 DEF Fetch
<1>6. ASSUME NEW r \in Replicas, HandlerOk(r) PROVE TypeOK' /\ InHand'
  <2>1. msg[r] \in 1..Len(topic)
    BY <1>6 DEF HandlerOk
  <2>2. handled' \subseteq Offsets'
    BY <1>6, <2>1 DEF HandlerOk
  <2>3. pc' \in [Replicas -> {"fetch", "handle", "deadletter", "commit"}] /\ InHand'
    BY <1>6 DEF HandlerOk
  <2> QED BY <1>6, <2>2, <2>3 DEF HandlerOk
<1>7. ASSUME NEW r \in Replicas, HandlerFail(r) PROVE TypeOK' /\ InHand'
  <2>1. attempt' \in [Replicas -> 0..HandlerAttempts]
    <3>1. CASE attempt[r] < HandlerAttempts /\ attempt' = [attempt EXCEPT ![r] = @ + 1]
      <4>1. attempt[r] + 1 \in 0..HandlerAttempts
        BY <3>1
      <4> QED BY <3>1, <4>1
    <3> QED BY <1>7, <3>1 DEF HandlerFail
  <2>3. tries' \in [Replicas -> 0..PublishAttempts]
    BY <1>7 DEF HandlerFail
  <2>2. pc' \in [Replicas -> {"fetch", "handle", "deadletter", "commit"}] /\ InHand'
    BY <1>7 DEF HandlerFail
  <2> QED BY <1>7, <2>1, <2>2, <2>3 DEF HandlerFail
<1>8. ASSUME NEW r \in Replicas, DlqMarshalFail(r) PROVE TypeOK' /\ InHand'
  <2>1. msg[r] \in 1..Len(topic)
    BY <1>8 DEF DlqMarshalFail
  <2>2. dropped' \subseteq Offsets'
    BY <1>8, <2>1 DEF DlqMarshalFail
  <2>3. pc' \in [Replicas -> {"fetch", "handle", "deadletter", "commit"}] /\ InHand'
    BY <1>8 DEF DlqMarshalFail
  <2> QED BY <1>8, <2>2, <2>3 DEF DlqMarshalFail
<1>9. ASSUME NEW r \in Replicas, DlqPublish(r) PROVE TypeOK' /\ InHand'
  <2>1. msg[r] \in 1..Len(topic)
    BY <1>9 DEF DlqPublish
  <2>2. dlq' \subseteq Offsets' /\ dropped' \subseteq Offsets'
    BY <1>9, <2>1 DEF DlqPublish
  <2>3. tries' \in [Replicas -> 0..PublishAttempts]
    BY <1>9 DEF DlqPublish, TriesAgain, GivesUp
  <2>4. pc' \in [Replicas -> {"fetch", "handle", "deadletter", "commit"}] /\ InHand'
    BY <1>9 DEF DlqPublish
  <2> QED BY <1>9, <2>2, <2>3, <2>4 DEF DlqPublish
<1>10. ASSUME NEW r \in Replicas, Commit(r) PROVE TypeOK' /\ InHand'
  BY <1>10 DEF Commit
<1>11. ASSUME NEW r \in Replicas, Crash(r) PROVE TypeOK' /\ InHand'
  BY <1>11 DEF Crash
<1>12. CASE UNCHANGED vars
  BY <1>12 DEF vars
<1> QED BY <1>1, <1>2, <1>3, <1>4, <1>5, <1>6, <1>7, <1>8, <1>9, <1>10, <1>11, <1>12
        DEF Next, Loop, Handle, DeadLetter

-----------------------------------------------------------------------------

\* Records are only appended to the topic.
LEMMA TopicGrows ==
  ASSUME TypeOK, [Next]_vars
  PROVE  Len(topic) <= Len(topic') /\ \A o \in 1..Len(topic) : topic'[o] = topic[o]
<1>1. (\E m \in Messages : Produce(m)) \/ topic' = topic
  BY DEF Next, vars, brokerVars, Loop, Handle, DeadLetter, Assign, Revoke, Discard,
         Fetch, HandlerOk, HandlerFail, DlqMarshalFail, DlqPublish, Commit, Crash
<1>2. topic \in Seq(Messages)
  BY DEF TypeOK
<1> QED BY <1>1, <1>2, Produced

\* Nothing a step does takes a message out of Settled.
LEMMA SettledGrows == [Next]_vars => Settled \subseteq Settled'
<1> SUFFICES ASSUME [Next]_vars PROVE Settled \subseteq Settled'
  OBVIOUS
<1> QED
  BY DEF Next, vars, brokerVars, loopVars, outcomeVars, Loop, Handle, DeadLetter,
         Settled, Produce, Assign, Revoke, Discard, Fetch, HandlerOk, HandlerFail,
         DlqMarshalFail, DlqPublish, Commit, Crash

\* A dead letter publish ends with a record in the topic or with the error that
\* gives the message up: an acknowledged write has stored a copy.
LEMMA DlqPublishSettles ==
  ASSUME TypeOK, NEW r \in Replicas, DlqPublish(r), pc'[r] = "commit"
  PROVE  msg[r] \in Settled'
<1>1. PICK w \in WriteOutcomes :
        /\ dlq' = IF w.copies > 0 THEN dlq \cup {msg[r]} ELSE dlq
        /\ dropped' = IF GivesUp(w, tries[r]) THEN dropped \cup {msg[r]} ELSE dropped
        /\ IF TriesAgain(w, tries[r])
           THEN tries' = [tries EXCEPT ![r] = @ + 1] /\ UNCHANGED pc
           ELSE Goto(r, "commit") /\ UNCHANGED tries
  BY DEF DlqPublish
<1>2. ~TriesAgain(w, tries[r])
  BY <1>1 DEF DlqPublish
<1>3. CASE w.acked
  BY <1>1, <1>3 DEF WriteOutcomes, Settled
<1>4. CASE GivesUp(w, tries[r])
  BY <1>1, <1>4 DEF Settled
<1> QED BY <1>2, <1>3, <1>4 DEF TriesAgain

\* A replica keeps what it has carried while its position, message and label
\* stay as they are.
LEMMA CarriedFrame ==
  ASSUME [Next]_vars, NEW q \in Replicas, CarriedBy(q),
         position'[q] = position[q], msg'[q] = msg[q], pc'[q] = pc[q]
  PROVE  CarriedBy(q)'
BY SettledGrows DEF CarriedBy

\* Fetch takes the next message only when everything before it is settled, the
\* loop body ends with the message settled, and Commit stores no other offset.
LEMMA CarriedStep ==
  TypeOK /\ InHand /\ Carried /\ NothingSkipped /\ [Next]_vars => Carried' /\ NothingSkipped'
<1> SUFFICES ASSUME TypeOK, InHand, Carried, NothingSkipped, [Next]_vars
             PROVE  Carried' /\ NothingSkipped'
  OBVIOUS
<1> USE DEF TypeOK, Goto, brokerVars, loopVars, outcomeVars
<1>a. Settled \subseteq Settled'
  BY SettledGrows
<1>b. committed' = committed => NothingSkipped'
  BY <1>a DEF NothingSkipped
<1>c. (\A q \in Replicas : position'[q] = position[q] /\ msg'[q] = msg[q] /\ pc'[q] = pc[q])
        => Carried'
  BY CarriedFrame DEF Carried
<1>d. ASSUME NEW r \in Replicas, CarriedBy(r)',
             \A q \in Replicas \ {r} :
               position'[q] = position[q] /\ msg'[q] = msg[q] /\ pc'[q] = pc[q]
      PROVE  Carried'
  BY <1>d, CarriedFrame DEF Carried
<1>1. ASSUME NEW m \in Messages, Produce(m) PROVE Carried' /\ NothingSkipped'
  BY <1>1, <1>b, <1>c DEF Produce
<1>2. ASSUME NEW r \in Replicas, Assign(r) PROVE Carried' /\ NothingSkipped'
  <2>1. CarriedBy(r)'
    BY <1>2, <1>a DEF Assign, Carried, CarriedBy, NothingSkipped
  <2> QED BY <1>2, <2>1, <1>b, <1>d DEF Assign
<1>3. ASSUME NEW r \in Replicas, Revoke(r) PROVE Carried' /\ NothingSkipped'
  BY <1>3, <1>b, <1>c DEF Revoke
<1>4. ASSUME NEW r \in Replicas, Discard(r) PROVE Carried' /\ NothingSkipped'
  BY <1>4, <1>b, <1>c DEF Discard
<1>5. ASSUME NEW r \in Replicas, Fetch(r) PROVE Carried' /\ NothingSkipped'
  <2>1. \A o \in 1..position[r] : o \in Settled'
    BY <1>5, <1>a DEF Fetch, Carried, CarriedBy, InHand
  <2>2. CarriedBy(r)'
    BY <1>5, <2>1 DEF Fetch, CarriedBy
  <2> QED BY <1>5, <2>2, <1>b, <1>d DEF Fetch
<1>6. ASSUME NEW r \in Replicas, HandlerOk(r) PROVE Carried' /\ NothingSkipped'
  <2>1. msg[r] \in Settled'
    BY <1>6 DEF HandlerOk, Settled
  <2>2. CarriedBy(r)'
    BY <1>6, <1>a, <2>1 DEF HandlerOk, Carried, CarriedBy
  <2> QED BY <1>6, <2>2, <1>b, <1>d DEF HandlerOk
<1>7. ASSUME NEW r \in Replicas, HandlerFail(r) PROVE Carried' /\ NothingSkipped'
  <2>1. CarriedBy(r)'
    BY <1>7, <1>a DEF HandlerFail, Carried, CarriedBy
  <2> QED BY <1>7, <2>1, <1>b, <1>d DEF HandlerFail
<1>8. ASSUME NEW r \in Replicas, DlqMarshalFail(r) PROVE Carried' /\ NothingSkipped'
  <2>1. msg[r] \in Settled'
    BY <1>8 DEF DlqMarshalFail, Settled
  <2>2. CarriedBy(r)'
    BY <1>8, <1>a, <2>1 DEF DlqMarshalFail, Carried, CarriedBy
  <2> QED BY <1>8, <2>2, <1>b, <1>d DEF DlqMarshalFail
<1>9. ASSUME NEW r \in Replicas, DlqPublish(r) PROVE Carried' /\ NothingSkipped'
  <2>1. pc'[r] = "commit" => msg[r] \in Settled'
    BY <1>9, DlqPublishSettles
  <2>2. CarriedBy(r)'
    BY <1>9, <1>a, <2>1 DEF DlqPublish, Carried, CarriedBy
  <2> QED BY <1>9, <2>2, <1>b, <1>d DEF DlqPublish
<1>10. ASSUME NEW r \in Replicas, Commit(r) PROVE Carried' /\ NothingSkipped'
  <2>1. \A o \in 1..msg[r] : o \in Settled'
    BY <1>10, <1>a DEF Commit, Carried, CarriedBy
  <2>2. CarriedBy(r)'
    BY <1>10, <1>a, <2>1 DEF Commit, Carried, CarriedBy
  <2>3. NothingSkipped'
    BY <1>10, <1>a, <2>1 DEF Commit, NothingSkipped
  <2> QED BY <1>10, <2>2, <2>3, <1>d DEF Commit
<1>11. ASSUME NEW r \in Replicas, Crash(r) PROVE Carried' /\ NothingSkipped'
  <2>1. CarriedBy(r)'
    BY <1>11 DEF Crash, CarriedBy
  <2> QED BY <1>11, <2>1, <1>b, <1>d DEF Crash
<1>12. CASE UNCHANGED vars
  BY <1>12, <1>b, <1>c DEF vars
<1> QED BY <1>1, <1>2, <1>3, <1>4, <1>5, <1>6, <1>7, <1>8, <1>9, <1>10, <1>11, <1>12
        DEF Next, Loop, Handle, DeadLetter

-----------------------------------------------------------------------------

\* Until the first rebalance or crash every loop step is a step of the one
\* assigned reader, and it keeps what is settled or committed behind it.
LEMMA CalmStep == TypeOK /\ InHand /\ Calm /\ [Next]_vars => Calm'
<1> SUFFICES ASSUME TypeOK, InHand, Calm, [Next]_vars, churn' = 0
             PROVE  Calm'
  BY DEF Calm
<1> USE DEF TypeOK, Goto, brokerVars, loopVars, outcomeVars
<1>a. churn = 0
  BY DEF Next, vars, Loop, Handle, DeadLetter, Produce, Assign, Revoke, Discard, Fetch,
         HandlerOk, HandlerFail, DlqMarshalFail, DlqPublish, Commit, Crash
<1>b. ASSUME NEW r \in Replicas, pc[r] # "fetch"
      PROVE  reader[r] = "assigned" /\ msg[r] = position[r] /\ msg[r] \in 1..position[r]
  BY <1>a, <1>b DEF Calm, InHand
\* A step of r's loop that settles at most its own message.
<1>c. ASSUME NEW r \in Replicas, pc[r] # "fetch", Settled' \subseteq Settled \cup {msg[r]},
             UNCHANGED <<committed, reader, churn, position, msg>>,
             \A q \in Replicas \ {r} : pc'[q] = pc[q]
      PROVE  Calm'
  BY <1>a, <1>b, <1>c DEF Calm
<1>1. ASSUME NEW m \in Messages, Produce(m) PROVE Calm'
  BY <1>1, <1>a DEF Produce, Calm, Settled
<1>2. ASSUME NEW r \in Replicas, Assign(r) PROVE Calm'
  <2>1. \A q \in Replicas : reader[q] = "none"
    BY <1>2, <1>a DEF Assign, Calm
  <2>2. committed = 0 /\ Settled = {} /\ Settled' = Settled
    BY <1>2, <2>1, <1>a DEF Assign, Calm, Settled
  <2> QED BY <1>2, <2>1, <2>2, <1>a DEF Assign, Calm
<1>3. ASSUME NEW r \in Replicas, Revoke(r) \/ Crash(r) PROVE Calm'
  BY <1>3, <1>a DEF Revoke, Crash
<1>4. ASSUME NEW r \in Replicas, Discard(r) PROVE Calm'
  BY <1>4, <1>a DEF Discard, Calm
<1>5. ASSUME NEW r \in Replicas, Fetch(r) PROVE Calm'
  <2>1. reader[r] = "assigned" /\ Settled' = Settled
    BY <1>5, <1>a DEF Fetch, Calm, Settled
  <2>2. Settled' \subseteq 1..position'[r] /\ committed' <= position'[r]
    BY <1>5, <2>1, <1>a DEF Fetch, Calm
  <2> QED BY <1>5, <2>1, <2>2, <1>a DEF Fetch, Calm
<1>6. ASSUME NEW r \in Replicas, HandlerOk(r) PROVE Calm'
  BY <1>6, <1>c DEF HandlerOk, Settled
<1>7. ASSUME NEW r \in Replicas, HandlerFail(r) PROVE Calm'
  BY <1>7, <1>c DEF HandlerFail, Settled
<1>8. ASSUME NEW r \in Replicas, DlqMarshalFail(r) PROVE Calm'
  BY <1>8, <1>c DEF DlqMarshalFail, Settled
<1>9. ASSUME NEW r \in Replicas, DlqPublish(r) PROVE Calm'
  BY <1>9, <1>c DEF DlqPublish, Settled
<1>10. ASSUME NEW r \in Replicas, Commit(r) PROVE Calm'
  <2>1. Settled' = Settled /\ committed' <= position[r]
    BY <1>10, <1>a, <1>b DEF Commit, Calm, Settled
  <2> QED BY <1>10, <2>1, <1>a, <1>b DEF Commit, Calm
<1>11. CASE UNCHANGED vars
  BY <1>11, <1>a DEF vars, Calm, Settled
<1> QED BY <1>1, <1>2, <1>3, <1>4, <1>5, <1>6, <1>7, <1>8, <1>9, <1>10, <1>11
        DEF Next, Loop, Handle, DeadLetter

\* The three parts are preserved in this order.
LEMMA IInvStep == IInv /\ [Next]_vars => IInv'
BY TypeStep, CarriedStep, CalmStep DEF IInv

\* A topic may also grow by several records at once, the copies of one write,
\* without disturbing the group that reads it.
LEMMA TopicExtended ==
  ASSUME IInv, topic' \in Seq(Messages), Len(topic) <= Len(topic'),
         UNCHANGED <<committed, reader, churn, loopVars, outcomeVars>>
  PROVE  IInv'
<1>1. TypeOK'
  <2>1. Len(topic) \in Nat /\ Len(topic') \in Nat
    BY DEF IInv, TypeOK
  <2>2. 0..Len(topic) \subseteq 0..Len(topic') /\ 1..Len(topic) \subseteq 1..Len(topic')
    BY <2>1
  <2> QED BY <2>2 DEF IInv, TypeOK, Offsets, loopVars, outcomeVars
<1>2. InHand' /\ Carried' /\ NothingSkipped' /\ Calm'
  BY DEF IInv, InHand, Carried, CarriedBy, NothingSkipped, Calm, Settled, loopVars, outcomeVars
<1> QED BY <1>1, <1>2 DEF IInv

\* IInv holds in every reachable state, for any number of replicas.
THEOREM Inductive == Spec => []IInv
BY InitIInv, IInvStep, PTL DEF Spec

-----------------------------------------------------------------------------

\* Every variable stays in its type; in particular handler and dead letter
\* attempts never exceed their limits (consumer.go, producer.go).
THEOREM TypeCorrect == Spec => []TypeOK
<1>1. IInv => TypeOK
  BY DEF IInv
<1> QED BY <1>1, Inductive, PTL

\* At least once: no committed offset passes a message that was not handled and
\* did not reach the end of the dead letter path (consumer.go, Run).
THEOREM AtLeastOnce == Spec => []NothingSkipped
<1>1. IInv => NothingSkipped
  BY DEF IInv
<1> QED BY <1>1, Inductive, PTL

\* Only after a rebalance or a crash can a commit of Run move the committed
\* offset back.
THEOREM CommitForward == Spec => CommitRegressesOnlyAfterChurn
<1>1. IInv /\ [Next]_vars => [committed' < committed => churn > 0]_vars
  <2> SUFFICES ASSUME IInv, Next, committed' < committed, churn = 0
               PROVE  FALSE
    BY DEF IInv, TypeOK
  <2> USE DEF IInv, TypeOK, brokerVars
  <2>1. PICK r \in Replicas : Commit(r)
    <3>1. ASSUME NEW r \in Replicas,
                 \/ Assign(r) \/ Revoke(r) \/ Discard(r) \/ Fetch(r) \/ Handle(r)
                 \/ DeadLetter(r) \/ Crash(r)
          PROVE  FALSE
      BY <3>1 DEF Assign, Revoke, Discard, Fetch, Handle, HandlerOk, HandlerFail,
                  DeadLetter, DlqMarshalFail, DlqPublish, Crash
    <3>2. ASSUME NEW m \in Messages, Produce(m) PROVE FALSE
      BY <3>2 DEF Produce
    <3> QED BY <3>1, <3>2 DEF Next, Loop
  <2>2. committed <= msg[r]
    BY <2>1 DEF Commit, Calm
  <2> QED BY <2>1, <2>2 DEF Commit
<1> QED BY <1>1, Inductive, PTL DEF Spec, CommitRegressesOnlyAfterChurn

\* Without a rebalance or a crash Run never takes up a message whose handling
\* had ended, however many commits are lost.
THEOREM NoRedelivery == Spec => NoRedeliveryInCalm
<1> DEFINE Fresh == churn = 0 =>
             \A r \in Replicas : msg'[r] # msg[r] => msg'[r] \notin Settled
<1>1. IInv /\ [Next]_vars => [Fresh]_vars
  <2> SUFFICES ASSUME IInv, Next, churn = 0, NEW q \in Replicas, msg'[q] # msg[q]
               PROVE  msg'[q] \notin Settled
    OBVIOUS
  <2> USE DEF IInv, TypeOK, Offsets, brokerVars, loopVars
  <2>1. ASSUME NEW r \in Replicas, Fetch(r) PROVE msg'[q] \notin Settled
    <3>1. q = r /\ msg'[q] = position[q] + 1
      BY <2>1 DEF Fetch
    <3>2. Settled \subseteq 1..position[q]
      BY <2>1, <3>1 DEF Fetch, Calm
    <3> QED BY <3>1, <3>2
  <2>2. ASSUME NEW r \in Replicas, Commit(r) \/ Crash(r) PROVE msg'[q] \notin Settled
    <3>1. msg'[q] = 0
      BY <2>2 DEF Commit, Crash
    <3> QED BY <3>1 DEF Settled
  <2>3. ASSUME NEW r \in Replicas,
               Assign(r) \/ Revoke(r) \/ Discard(r) \/ Handle(r) \/ DeadLetter(r)
        PROVE  FALSE
    BY <2>3 DEF Assign, Revoke, Discard, Handle, HandlerOk, HandlerFail,
                DeadLetter, DlqMarshalFail, DlqPublish
  <2>4. ASSUME NEW m \in Messages, Produce(m) PROVE FALSE
    BY <2>4 DEF Produce
  <2> QED BY <2>1, <2>2, <2>3, <2>4 DEF Next, Loop
<1> QED BY <1>1, Inductive, PTL DEF Spec, NoRedeliveryInCalm
=============================================================================
