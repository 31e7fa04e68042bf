--------------------------- MODULE PipelineProofs ---------------------------
(***************************************************************************)
(* Proofs about Pipeline: the invariants of the services hold of the       *)
(* services joined, an INSERT is never refused for its foreign key, every  *)
(* step of the joined services is a step of Crm or a stutter, and each     *)
(* service in the pipeline behaves as its own module says, from which      *)
(* follows how many notifications of a lead a user gets.                   *)
(*                                                                         *)
(* The proofs of the services are taken over by instantiating their        *)
(* modules with the variables of the pipeline: LP, CP and NP.  Pipeline    *)
(* itself has L, CS and NS, instances of the modules without proofs, so    *)
(* the first part says that two instances of a module with the same        *)
(* substitution say the same.                                              *)
(***************************************************************************)
EXTENDS Pipeline, Integers, SequenceTheorems, FiniteSetTheorems, TLAPS

LP == INSTANCE LeadServiceProofs WITH Readers <- {}

CP == INSTANCE CustomerServiceProofs WITH
  Replicas  <- Converters,
  sends     <- cSends,
  converted <- {l \in Leads : leads[l] = "converted"}

NP == INSTANCE NotificationServiceProofs WITH
  Replicas  <- Notifiers,
  HandlerAttempts <- NotifierAttempts,
  MaxChurn  <- MaxNotifierChurn,
  Customers <- [id : Ids, lead : Leads],
  topic     <- events,
  committed <- nCommitted, reader  <- nReader,  churn   <- nChurn,
  position  <- nPosition,  pc      <- nPc,      msg     <- nMsg,
  attempt   <- nAttempt,   tries   <- nTries,   handled <- nHandled,
  dlq       <- nDlq,       dropped <- nDropped, stage   <- nStage,
  sends     <- nSends

\* The constants meet the assumptions of the three services.
LEMMA Assumptions ==
  /\ LP!ProducerAssumption
  /\ CP!ProducerAssumption /\ CP!CustomerAssumption
  /\ NP!ProducerAssumption /\ NP!NotificationAssumption
BY PipelineAssumption, ProducerAssumption
DEF LP!ProducerAssumption, CP!ProducerAssumption, CP!CustomerAssumption,
    NP!ProducerAssumption, NP!NotificationAssumption, IsFiniteSet, NP!IsFiniteSet

-----------------------------------------------------------------------------
(* L and LP, CS and CP, NS and NP are instances of one module each and say the same. *)

\* The invariant of lead-service.
LEMMA SameL == (L!IInv <=> LP!IInv) /\ (L!IInv' <=> LP!IInv')
BY DEF L!IInv, LP!IInv, L!TypeOK, LP!TypeOK, L!InProgress, LP!InProgress, L!NeverAhead,
       LP!NeverAhead, L!HasBeen, LP!HasBeen, L!CreatedMeansAnnounced, LP!CreatedMeansAnnounced,
       L!Announced, LP!Announced, L!Status, LP!Status, L!OneAnnouncementPerLead,
       LP!OneAnnouncementPerLead, L!RecordsOf, LP!RecordsOf, L!Cardinality, LP!Cardinality

\* A step of a request.
LEMMA StepOfL ==
  ASSUME NEW l \in Leads, L!Create(l) \/ L!Expire(l) \/ L!Convert(l)
  PROVE  LP!Next
<1> USE DEF L!createVars, LP!createVars, L!getVars, LP!getVars
<1>1. L!Reject(l) => LP!Reject(l)
  BY DEF L!Reject, LP!Reject, L!Answer, LP!Answer
<1>2. L!Insert(l) => LP!Insert(l)
  BY DEF L!Insert, LP!Insert, L!Answer, LP!Answer
<1>3. L!InsertFail(l) => LP!InsertFail(l)
  BY DEF L!InsertFail, LP!InsertFail, L!Answer, LP!Answer
<1>4. L!CacheNew(l) => LP!CacheNew(l)
  BY DEF L!CacheNew, LP!CacheNew, L!SetLead, LP!SetLead, L!Answer, LP!Answer
<1>5. L!Publish(l) => LP!Publish(l)
  BY DEF L!Publish, LP!Publish, L!Answer, LP!Answer, L!WriteOutcomes, LP!WriteOutcomes,
         L!Stored, LP!Stored, L!GivesUp, LP!GivesUp, L!TriesAgain, LP!TriesAgain
<1>6. L!AbortCreate(l) => LP!AbortCreate(l)
  BY DEF L!AbortCreate, LP!AbortCreate, L!Answer, LP!Answer
<1>7. L!Expire(l) => LP!Expire(l)
  BY DEF L!Expire, LP!Expire
<1>8. L!Convert(l) => LP!Convert(l)
  BY DEF L!Convert, LP!Convert, L!Announced, LP!Announced
<1> QED BY <1>1, <1>2, <1>3, <1>4, <1>5, <1>6, <1>7, <1>8 DEF L!Create, LP!Create, LP!Next

\* The invariant of the consumer loop in customer-service.
LEMMA SameCC == (CS!C!IInv <=> CP!C!IInv) /\ (CS!C!IInv' <=> CP!C!IInv')
BY DEF CS!C!IInv, CP!C!IInv, CS!C!TypeOK, CP!C!TypeOK, CS!C!InHand, CP!C!InHand, CS!C!Carried,
       CP!C!Carried, CS!C!CarriedBy, CP!C!CarriedBy, CS!C!NothingSkipped, CP!C!NothingSkipped,
       CS!C!Calm, CP!C!Calm, CS!C!Settled, CP!C!Settled, CS!C!Offsets, CP!C!Offsets

\* The invariant of customer-service.
LEMMA SameCS == (CS!IInv <=> CP!IInv) /\ (CS!IInv' <=> CP!IInv')
<1> USE DEF CS!LeadsOf, CP!LeadsOf
<1>1. (CS!HandlerTypeOK <=> CP!HandlerTypeOK) /\ (CS!HandlerTypeOK' <=> CP!HandlerTypeOK')
  BY DEF CS!HandlerTypeOK, CP!HandlerTypeOK, CS!Customer, CP!Customer
<1>2. (CS!InProgress <=> CP!InProgress) /\ (CS!InProgress' <=> CP!InProgress')
  BY DEF CS!InProgress, CP!InProgress, CS!InProgressAt, CP!InProgressAt
<1>3. (CS!OneInserter <=> CP!OneInserter) /\ (CS!OneInserter' <=> CP!OneInserter')
  BY DEF CS!OneInserter, CP!OneInserter
<1>4. /\ CS!HandledMeansCustomer <=> CP!HandledMeansCustomer
      /\ CS!HandledMeansCustomer' <=> CP!HandledMeansCustomer'
  BY DEF CS!HandledMeansCustomer, CP!HandledMeansCustomer
<1>5. /\ CS!OneCustomerPerLead <=> CP!OneCustomerPerLead
      /\ CS!OneCustomerPerLead' <=> CP!OneCustomerPerLead'
  BY DEF CS!OneCustomerPerLead, CP!OneCustomerPerLead
<1>6. /\ CS!ConvertedIffCustomer <=> CP!ConvertedIffCustomer
      /\ CS!ConvertedIffCustomer' <=> CP!ConvertedIffCustomer'
  BY DEF CS!ConvertedIffCustomer, CP!ConvertedIffCustomer
<1>7. /\ CS!EventNamesCustomer <=> CP!EventNamesCustomer
      /\ CS!EventNamesCustomer' <=> CP!EventNamesCustomer'
  BY DEF CS!EventNamesCustomer, CP!EventNamesCustomer
<1>8. (CS!OneAnnouncer <=> CP!OneAnnouncer) /\ (CS!OneAnnouncer' <=> CP!OneAnnouncer')
  BY DEF CS!OneAnnouncer, CP!OneAnnouncer, CS!EventsOf, CP!EventsOf, CS!Cardinality, CP!Cardinality
<1>9. /\ CS!OneAnnouncementPerLead <=> CP!OneAnnouncementPerLead
      /\ CS!OneAnnouncementPerLead' <=> CP!OneAnnouncementPerLead'
  BY DEF CS!OneAnnouncementPerLead, CP!OneAnnouncementPerLead, CS!EventsOf, CP!EventsOf,
         CS!Cardinality, CP!Cardinality
<1> QED BY <1>1, <1>2, <1>3, <1>4, <1>5, <1>6, <1>7, <1>8, <1>9, SameCC DEF CS!IInv, CP!IInv

\* The steps of the consumer loop in customer-service.
LEMMA StepOfCC ==
  ASSUME NEW r \in Converters
  PROVE  /\ CS!C!Fetch(r) => CP!C!Fetch(r)
         /\ CS!C!HandlerOk(r) => CP!C!HandlerOk(r)
         /\ CS!C!HandlerFail(r) => CP!C!HandlerFail(r)
         /\ CS!C!DeadLetter(r) => CP!C!DeadLetter(r)
         /\ CS!C!Commit(r) => CP!C!Commit(r)
         /\ CS!C!Crash(r) => CP!C!Crash(r)
         /\ CS!C!Assign(r) \/ CS!C!Revoke(r) \/ CS!C!Discard(r)
            => CP!C!Assign(r) \/ CP!C!Revoke(r) \/ CP!C!Discard(r)
<1> USE DEF CS!C!brokerVars, CP!C!brokerVars, CS!C!loopVars, CP!C!loopVars,
            CS!C!outcomeVars, CP!C!outcomeVars, CS!C!Goto, CP!C!Goto
<1>1. CS!C!Fetch(r) => CP!C!Fetch(r)
  BY DEF CS!C!Fetch, CP!C!Fetch
<1>2. CS!C!HandlerOk(r) => CP!C!HandlerOk(r)
  BY DEF CS!C!HandlerOk, CP!C!HandlerOk
<1>3. CS!C!HandlerFail(r) => CP!C!HandlerFail(r)
  BY DEF CS!C!HandlerFail, CP!C!HandlerFail
<1>4. CS!C!DlqMarshalFail(r) => CP!C!DlqMarshalFail(r)
  BY DEF CS!C!DlqMarshalFail, CP!C!DlqMarshalFail
<1>5. CS!C!DlqPublish(r) => CP!C!DlqPublish(r)
  BY DEF CS!C!DlqPublish, CP!C!DlqPublish, CS!C!WriteOutcomes, CP!C!WriteOutcomes, CS!C!GivesUp,
         CP!C!GivesUp, CS!C!TriesAgain, CP!C!TriesAgain
<1>6. CS!C!Commit(r) => CP!C!Commit(r)
  BY DEF CS!C!Commit, CP!C!Commit
<1>7. CS!C!Crash(r) => CP!C!Crash(r)
  BY DEF CS!C!Crash, CP!C!Crash
<1>8. (CS!C!Assign(r) => CP!C!Assign(r)) /\ (CS!C!Revoke(r) => CP!C!Revoke(r))
      /\ (CS!C!Discard(r) => CP!C!Discard(r))
  BY DEF CS!C!Assign, CP!C!Assign, CS!C!Revoke, CP!C!Revoke, CS!C!Discard, CP!C!Discard
<1> QED BY <1>1, <1>2, <1>3, <1>4, <1>5, <1>6, <1>7, <1>8 DEF CS!C!DeadLetter, CP!C!DeadLetter

\* The steps of customer-service.
LEMMA StepOfCS ==
  ASSUME NEW r \in Converters, CS!Loop(r) \/ CS!Crash(r)
  PROVE  CP!Next
<1> USE DEF CS!handlerVars, CP!handlerVars, CS!storeVars, CP!storeVars, CS!consumerVars,
            CP!consumerVars, CS!Handling, CP!Handling
<1>1. CS!Return(r) <=> CP!Return(r)
  BY DEF CS!Return, CP!Return
<1>2. CS!CommitRow(r) <=> CP!CommitRow(r)
  BY DEF CS!CommitRow, CP!CommitRow, CS!LeadsOf, CP!LeadsOf
<1>3. CS!DecodeFail(r) => CP!DecodeFail(r)
  BY StepOfCC DEF CS!DecodeFail, CP!DecodeFail
<1>4. CS!Insert(r) => CP!Insert(r)
  BY DEF CS!Insert, CP!Insert, CS!LeadsOf, CP!LeadsOf, CS!Locked, CP!Locked, CS!FreshId, CP!FreshId
<1>5. CS!AlreadyConverted(r) => CP!AlreadyConverted(r)
  BY StepOfCC DEF CS!AlreadyConverted, CP!AlreadyConverted, CS!LeadsOf, CP!LeadsOf
<1>6. CS!DbFail(r) => CP!DbFail(r)
  BY <1>1, StepOfCC DEF CS!DbFail, CP!DbFail
<1>7. CS!CommitTx(r) => CP!CommitTx(r)
  BY <1>2 DEF CS!CommitTx, CP!CommitTx
<1>8. CS!CommitTxLost(r) => CP!CommitTxLost(r)
  BY <1>1, <1>2, StepOfCC DEF CS!CommitTxLost, CP!CommitTxLost
<1>9. CS!Publish(r) => CP!Publish(r)
  <2>1. CS!C!HandlerOk(r) => CP!C!HandlerOk(r)
    BY StepOfCC
  <2>2. CS!C!HandlerFail(r) => CP!C!HandlerFail(r)
    BY StepOfCC
  <2> QED BY <1>1, <2>1, <2>2
          DEF CS!Publish, CP!Publish, CS!WriteOutcomes, CP!WriteOutcomes, CS!Stored, CP!Stored,
              CS!GivesUp, CP!GivesUp, CS!TriesAgain, CP!TriesAgain
<1>10. /\ CS!Fetch(r) => CP!Fetch(r)
       /\ CS!DeadLetter(r) => CP!DeadLetter(r)
       /\ CS!Commit(r) => CP!Commit(r)
  BY StepOfCC DEF CS!Fetch, CP!Fetch, CS!DeadLetter, CP!DeadLetter, CS!Commit, CP!Commit
<1>11. CS!Crash(r) => CP!Crash(r)
  BY <1>1, <1>2, StepOfCC DEF CS!Crash, CP!Crash
<1> QED BY <1>3, <1>4, <1>5, <1>6, <1>7, <1>8, <1>9, <1>10, <1>11
        DEF CS!Loop, CP!Loop, CS!Handler, CP!Handler, CP!Next

\* The invariant of the consumer loop in notification-service.
LEMMA SameNC == (NS!C!IInv <=> NP!C!IInv) /\ (NS!C!IInv' <=> NP!C!IInv')
BY DEF NS!C!IInv, NP!C!IInv, NS!C!TypeOK, NP!C!TypeOK, NS!C!InHand, NP!C!InHand, NS!C!Carried,
       NP!C!Carried, NS!C!CarriedBy, NP!C!CarriedBy, NS!C!NothingSkipped, NP!C!NothingSkipped,
       NS!C!Calm, NP!C!Calm, NS!C!Settled, NP!C!Settled, NS!C!Offsets, NP!C!Offsets

\* The invariant of notification-service.
LEMMA SameNS == (NS!HandlerInv <=> NP!HandlerInv) /\ (NS!HandlerInv' <=> NP!HandlerInv')
<1> USE DEF NS!RowsOf, NP!RowsOf
<1>1. (NS!TypeOK <=> NP!TypeOK) /\ (NS!TypeOK' <=> NP!TypeOK')
  BY DEF NS!TypeOK, NP!TypeOK, NS!C!TypeOK, NP!C!TypeOK, NS!C!Offsets, NP!C!Offsets
<1>2. (NS!InProgress <=> NP!InProgress) /\ (NS!InProgress' <=> NP!InProgress')
  BY DEF NS!InProgress, NP!InProgress, NS!InProgressAt, NP!InProgressAt
<1>3. /\ NS!PushedMeansAnnounced <=> NP!PushedMeansAnnounced
      /\ NS!PushedMeansAnnounced' <=> NP!PushedMeansAnnounced'
  BY DEF NS!PushedMeansAnnounced, NP!PushedMeansAnnounced
<1>4. /\ NS!HandledMeansPushed <=> NP!HandledMeansPushed
      /\ NS!HandledMeansPushed' <=> NP!HandledMeansPushed'
  BY DEF NS!HandledMeansPushed, NP!HandledMeansPushed
<1> QED BY <1>1, <1>2, <1>3, <1>4, SameNC DEF NS!HandlerInv, NP!HandlerInv

\* The steps of the consumer loop in notification-service.
LEMMA StepOfNC ==
  ASSUME NEW r \in Notifiers
  PROVE  /\ NS!C!Fetch(r) => NP!C!Fetch(r)
         /\ NS!C!HandlerOk(r) => NP!C!HandlerOk(r)
         /\ NS!C!HandlerFail(r) => NP!C!HandlerFail(r)
         /\ NS!C!DeadLetter(r) => NP!C!DeadLetter(r)
         /\ NS!C!Commit(r) => NP!C!Commit(r)
         /\ NS!C!Crash(r) => NP!C!Crash(r)
         /\ NS!C!Assign(r) \/ NS!C!Revoke(r) \/ NS!C!Discard(r)
            => NP!C!Assign(r) \/ NP!C!Revoke(r) \/ NP!C!Discard(r)
<1> USE DEF NS!C!brokerVars, NP!C!brokerVars, NS!C!loopVars, NP!C!loopVars,
            NS!C!outcomeVars, NP!C!outcomeVars, NS!C!Goto, NP!C!Goto
<1>1. NS!C!Fetch(r) => NP!C!Fetch(r)
  BY DEF NS!C!Fetch, NP!C!Fetch
<1>2. NS!C!HandlerOk(r) => NP!C!HandlerOk(r)
  BY DEF NS!C!HandlerOk, NP!C!HandlerOk
<1>3. NS!C!HandlerFail(r) => NP!C!HandlerFail(r)
  BY DEF NS!C!HandlerFail, NP!C!HandlerFail
<1>4. NS!C!DlqMarshalFail(r) => NP!C!DlqMarshalFail(r)
  BY DEF NS!C!DlqMarshalFail, NP!C!DlqMarshalFail
<1>5. NS!C!DlqPublish(r) => NP!C!DlqPublish(r)
  BY DEF NS!C!DlqPublish, NP!C!DlqPublish, NS!C!WriteOutcomes, NP!C!WriteOutcomes, NS!C!GivesUp,
         NP!C!GivesUp, NS!C!TriesAgain, NP!C!TriesAgain
<1>6. NS!C!Commit(r) => NP!C!Commit(r)
  BY DEF NS!C!Commit, NP!C!Commit
<1>7. NS!C!Crash(r) => NP!C!Crash(r)
  BY DEF NS!C!Crash, NP!C!Crash
<1>8. (NS!C!Assign(r) => NP!C!Assign(r)) /\ (NS!C!Revoke(r) => NP!C!Revoke(r))
      /\ (NS!C!Discard(r) => NP!C!Discard(r))
  BY DEF NS!C!Assign, NP!C!Assign, NS!C!Revoke, NP!C!Revoke, NS!C!Discard, NP!C!Discard
<1> QED BY <1>1, <1>2, <1>3, <1>4, <1>5, <1>6, <1>7, <1>8 DEF NS!C!DeadLetter, NP!C!DeadLetter

\* The steps of notification-service.
LEMMA StepOfNS ==
  ASSUME NEW r \in Notifiers, NS!Loop(r) \/ NS!Crash(r)
  PROVE  NP!Next
<1> USE DEF NS!handlerVars, NP!handlerVars, NS!storeVars, NP!storeVars, NS!consumerVars,
            NP!consumerVars, NS!Handling, NP!Handling
<1>1. NS!Return(r) <=> NP!Return(r)
  BY DEF NS!Return, NP!Return
<1>2. NS!DecodeFail(r) => NP!DecodeFail(r)
  BY StepOfNC DEF NS!DecodeFail, NP!DecodeFail
<1>3. NS!Create(r) => NP!Create(r)
  BY DEF NS!Create, NP!Create
<1>4. NS!CreateFail(r) => NP!CreateFail(r)
  BY StepOfNC DEF NS!CreateFail, NP!CreateFail
<1>5. NS!Publish(r) => NP!Publish(r)
  <2>1. NS!C!HandlerFail(r) => NP!C!HandlerFail(r)
    BY StepOfNC
  <2> QED BY <1>1, <2>1 DEF NS!Publish, NP!Publish, NS!WriteOutcomes, NP!WriteOutcomes,
                            NS!GivesUp, NP!GivesUp, NS!TriesAgain, NP!TriesAgain
<1>6. (NS!Push(r) => NP!Push(r)) /\ (NS!PushFail(r) => NP!PushFail(r))
  BY <1>1, StepOfNC DEF NS!Push, NP!Push, NS!PushFail, NP!PushFail
<1>7. /\ NS!Fetch(r) => NP!Fetch(r)
      /\ NS!DeadLetter(r) => NP!DeadLetter(r)
      /\ NS!Commit(r) => NP!Commit(r)
  BY StepOfNC DEF NS!Fetch, NP!Fetch, NS!DeadLetter, NP!DeadLetter, NS!Commit, NP!Commit
<1>8. NS!Crash(r) => NP!Crash(r)
  BY <1>1, StepOfNC DEF NS!Crash, NP!Crash
<1> QED BY <1>2, <1>3, <1>4, <1>5, <1>6, <1>7, <1>8
        DEF NS!Loop, NP!Loop, NS!Handler, NP!Handler, NP!Next

\* A rebalance is a step of the environment of its service.
LEMMA StepOfBroker ==
  /\ RebalanceConverters => CP!Next
  /\ RebalanceNotifiers => NP!Next
<1>1. RebalanceConverters => CP!Environment
  BY StepOfCC DEF RebalanceConverters, CP!Environment, CP!handlerVars, CP!storeVars
<1>2. RebalanceNotifiers => NP!Environment
  BY StepOfNC DEF RebalanceNotifiers, NP!Environment, NP!handlerVars, NP!storeVars
<1> QED BY <1>1, <1>2 DEF CP!Next, NP!Next

-----------------------------------------------------------------------------
(* What a step of each service does to the tables and topics *)

\* A row appears, an event is published for a row, or neither.
LEMMA LeadEffect ==
  ASSUME IInv, NEW l \in Leads, L!Create(l) \/ L!Expire(l)
  PROVE  \/ UNCHANGED <<leads, topic>>
         \/ /\ leads[l] = "none" /\ leads' = [leads EXCEPT ![l] = "new"]
            /\ UNCHANGED topic
         \/ /\ leads[l] # "none" /\ \E w \in WriteOutcomes : topic' = Stored(topic, l, w)
            /\ UNCHANGED leads
<1>1. /\ create[l] = "start" => leads[l] = "none"
      /\ create[l] = "publish" => leads[l] # "none"
  BY DEF IInv, L!IInv, L!InProgress
<1>2. CASE L!Insert(l) \/ L!InsertFail(l)
  BY <1>1, <1>2 DEF L!Insert, L!InsertFail
<1>3. CASE L!Publish(l)
  BY <1>1, <1>3 DEF L!Publish, L!WriteOutcomes, WriteOutcomes, L!Stored, Stored
<1>4. CASE L!Reject(l) \/ L!CacheNew(l) \/ L!AbortCreate(l) \/ L!Expire(l)
  BY <1>4 DEF L!Reject, L!CacheNew, L!AbortCreate, L!Expire, L!createVars
<1> QED BY <1>2, <1>3, <1>4 DEF L!Create

\* A lead with an event and a row is converted, an event is published for a
\* customer, or neither.
LEMMA ConverterEffect ==
  ASSUME IInv, NEW r \in Converters, Converter(r)
  PROVE  \/ UNCHANGED <<leads, events>>
         \/ /\ \E l \in L!Announced : /\ leads[l] = "new"
                                     /\ leads' = [leads EXCEPT ![l] = "converted"]
            /\ UNCHANGED events
         \/ /\ \E c \in [id : Ids, lead : Leads], w \in WriteOutcomes :
                 leads[c.lead] = "converted" /\ events' = Stored(events, c, w)
            /\ UNCHANGED leads
<1> DEFINE Converted == {l \in Leads : leads[l] = "converted"}
<1>1. leads \in [Leads -> {"none", "new", "converted"}] /\ topic \in Seq(Leads)
      /\ \A l \in L!Announced : leads[l] # "none"
  BY DEF IInv, L!IInv, L!TypeOK, L!Status, L!CreatedMeansAnnounced
<1>2. CP!IInv /\ UpdateLeads /\ (CS!Loop(r) \/ CS!Crash(r))
  BY SameCS DEF IInv, Converter
<1>3. ASSUME Converted' = Converted PROVE leads' = leads
  <2>1. ASSUME NEW l \in Leads, leads' = [leads EXCEPT ![l] = "converted"] PROVE leads' = leads
    <3>1. leads'[l] = "converted"
      BY <1>1, <2>1
    <3>2. leads[l] = "converted"
      BY <1>3, <3>1
    <3> QED BY <1>1, <2>1, <3>2
  <2> QED BY <1>2, <2>1 DEF UpdateLeads
<1>4. ASSUME stage[r] # "decode"
      PROVE  \E c \in [id : Ids, lead : Leads] :
               /\ insert[r] = {c} /\ c.lead \in Leads /\ c.lead \in L!Announced
               /\ stage[r] = "commit" => c.lead \notin Converted
               /\ stage[r] = "publish" => c.lead \in Converted
  <2>1. PICK c \in CP!Customer :
          insert[r] = {c} /\ c.lead = topic[msg[r]] /\ c.lead \in Leads /\ msg[r] \in 1..Len(topic)
    BY <1>2, <1>4, Assumptions, CP!RowInHand
  <2>2. /\ stage[r] = "commit" => c.lead \notin Converted
        /\ stage[r] = "publish" => c.lead \in Converted
    BY <1>2, <2>1 DEF CP!IInv, CP!InProgress, CP!InProgressAt, CP!ConvertedIffCustomer, CP!LeadsOf
  <2> QED BY <2>1, <2>2 DEF L!Announced, CP!Customer
<1>5. CASE CS!CommitRow(r) /\ stage[r] = "commit" /\ UNCHANGED events
  <2>1. PICK c \in [id : Ids, lead : Leads] :
          /\ insert[r] = {c} /\ c.lead \in Leads /\ c.lead \in L!Announced
          /\ c.lead \notin Converted
    BY <1>4, <1>5
  <2>2. Converted' = Converted \cup {c.lead}
    BY <1>5, <2>1 DEF CS!CommitRow, CS!LeadsOf
  <2>3. leads[c.lead] = "new"
    BY <1>1, <2>1
  <2>4. leads' = [leads EXCEPT ![c.lead] = "converted"]
    <3>1. leads'[c.lead] = "converted"
      BY <2>1, <2>2
    <3>2. PICK l \in Leads : leads' = [leads EXCEPT ![l] = "converted"]
      BY <1>2, <2>3, <3>1 DEF UpdateLeads
    <3>3. l = c.lead
      BY <1>1, <2>1, <2>3, <3>1, <3>2
    <3> QED BY <3>2, <3>3
  <2> QED BY <1>5, <2>1, <2>3, <2>4
<1>6. CASE CS!Publish(r)
  <2>1. Converted' = Converted /\ stage[r] = "publish"
    BY <1>6 DEF CS!Publish, CS!Handling
  <2>2. PICK w \in WriteOutcomes, c \in insert[r] : events' = Stored(events, c, w)
    BY <1>6 DEF CS!Publish, CS!WriteOutcomes, WriteOutcomes, CS!Stored, Stored
  <2>3. c \in [id : Ids, lead : Leads] /\ leads[c.lead] = "converted"
    BY <1>4, <2>1, <2>2
  <2> QED BY <1>3, <2>1, <2>2, <2>3
<1>7. CASE Converted' = Converted /\ UNCHANGED events
  BY <1>3, <1>7
<1>8. \/ CS!CommitRow(r) /\ stage[r] = "commit" /\ UNCHANGED events
      \/ CS!Publish(r)
      \/ Converted' = Converted /\ UNCHANGED events
  BY <1>2 DEF CS!Loop, CS!Handler, CS!Fetch, CS!DeadLetter, CS!Commit, CS!DecodeFail, CS!Insert,
              CS!AlreadyConverted, CS!DbFail, CS!CommitTx, CS!CommitTxLost, CS!Crash, CS!Handling,
              CS!storeVars
<1> QED BY <1>5, <1>6, <1>7, <1>8

\* A row appears for an event, it is announced, it is pushed, or nothing of this.
LEMMA NotifierEffect ==
  ASSUME IInv, NEW r \in Notifiers, Notifier(r)
  PROVE  \/ UNCHANGED <<notifications, announced, pushed>>
         \/ /\ \E k \in 1..Len(events) : /\ events[k] \in [id : Ids, lead : Leads]
                                        /\ notifications' = Append(notifications, events[k])
            /\ UNCHANGED <<announced, pushed>>
         \/ /\ \E n \in 1..Len(notifications) : announced' = announced \cup {n}
            /\ UNCHANGED <<notifications, pushed>>
         \/ /\ \E n \in announced : pushed' = pushed \cup {n}
            /\ UNCHANGED <<notifications, announced>>
<1>1. NP!HandlerInv /\ (NS!Loop(r) \/ NS!Crash(r))
  BY SameNS DEF IInv, Notifier
<1>2. nPc[r] = "handle" => nMsg[r] \in 1..Len(events)
  BY <1>1, Assumptions, NP!LoopFacts DEF NP!HandlerInv
<1>3. /\ nStage[r] # "decode" => row[r] \in 1..Len(notifications)
      /\ nStage[r] = "push" => row[r] \in announced
  BY <1>1 DEF NP!HandlerInv, NP!InProgress, NP!InProgressAt, NP!RowsOf
<1>4. CASE NS!Create(r) \/ NS!CreateFail(r) \/ NS!Crash(r)
  BY <1>2, <1>4 DEF NS!Create, NS!CreateFail, NS!Crash, NS!Handling
<1>5. CASE NS!Publish(r)
  BY <1>3, <1>5 DEF NS!Publish, NS!Handling
<1>6. CASE NS!Push(r) \/ NS!PushFail(r)
  BY <1>3, <1>6 DEF NS!Push, NS!PushFail, NS!Handling
<1>7. CASE NS!Fetch(r) \/ NS!DeadLetter(r) \/ NS!Commit(r) \/ NS!DecodeFail(r)
  BY <1>7 DEF NS!Fetch, NS!DeadLetter, NS!Commit, NS!DecodeFail, NS!storeVars
<1> QED BY <1>1, <1>4, <1>5, <1>6, <1>7 DEF NS!Loop, NS!Handler

-----------------------------------------------------------------------------
(* The invariant *)

\* The records of one write are appended to a topic.
LEMMA Extended ==
  ASSUME NEW S, NEW log \in Seq(S), NEW e \in S, NEW w \in WriteOutcomes
  PROVE  /\ Stored(log, e, w) \in Seq(S)
         /\ Len(log) <= Len(Stored(log, e, w))
         /\ \A k \in 1..Len(log) : Stored(log, e, w)[k] = log[k]
         /\ \A k \in 1..Len(Stored(log, e, w)) : k \in 1..Len(log) \/ Stored(log, e, w)[k] = e
<1> DEFINE copies == [i \in 1..w.copies |-> e]
<1>1. w.copies \in Nat
  BY ProducerAssumption DEF WriteOutcomes
<1>2. copies \in Seq(S) /\ Len(copies) = w.copies /\ \A i \in 1..w.copies : copies[i] = e
  BY <1>1
<1>3. Stored(log, e, w) = log \o copies
  BY DEF Stored
<1> HIDE DEF copies
<1> PICK log2 : log2 = log \o copies
  OBVIOUS
<1>4. log2 \in Seq(S) /\ Len(log2) = Len(log) + w.copies /\ Len(log) \in Nat
  BY <1>1, <1>2
<1>5. \A k \in 1..Len(log) : log2[k] = log[k]
  BY <1>1, <1>2
<1>6. \A k \in 1..w.copies : log2[Len(log) + k] = e
  BY <1>1, <1>2
<1>7. \A k \in 1..Len(log2) : k \in 1..Len(log) \/ log2[k] = e
  <2> SUFFICES ASSUME NEW k \in 1..Len(log2), k > Len(log) PROVE log2[k] = e
    BY <1>4
  <2>1. k - Len(log) \in 1..w.copies /\ k = Len(log) + (k - Len(log))
    BY <1>1, <1>4
  <2> QED BY <1>6, <2>1
<1>8. Len(log) <= Len(log2)
  BY <1>1, <1>4
<1> QED BY <1>3, <1>4, <1>5, <1>7, <1>8

\* The services do not write to the topics they consume.
LEMMA TopicKept == \A r \in Converters : Converter(r) => UNCHANGED topic
BY DEF Converter, CS!Loop, CS!Handler, CS!Fetch, CS!DeadLetter, CS!Commit, CS!DecodeFail,
       CS!Insert, CS!AlreadyConverted, CS!DbFail, CS!CommitTx, CS!CommitTxLost, CS!Publish,
       CS!Crash, CS!consumerVars, CS!C!Fetch, CS!C!HandlerOk, CS!C!HandlerFail, CS!C!DeadLetter,
       CS!C!DlqMarshalFail, CS!C!DlqPublish, CS!C!Commit, CS!C!Crash, CS!C!brokerVars

\* As before, for notification-service.
LEMMA EventsKept == \A r \in Notifiers : Notifier(r) => UNCHANGED events
BY DEF Notifier, NS!Loop, NS!Handler, NS!Fetch, NS!DeadLetter, NS!Commit, NS!DecodeFail,
       NS!Create, NS!CreateFail, NS!Publish, NS!Push, NS!PushFail, NS!Crash, NS!consumerVars,
       NS!C!Fetch, NS!C!HandlerOk, NS!C!HandlerFail, NS!C!DeadLetter, NS!C!DlqMarshalFail,
       NS!C!DlqPublish, NS!C!Commit, NS!C!Crash, NS!C!brokerVars

\* A step of another service leaves the invariant of lead-service alone, and so on.
LEMMA Untouched ==
  ASSUME IInv
  PROVE  /\ UNCHANGED <<leadVars, leads, topic>> => L!IInv'
         /\ UNCHANGED <<customerVars, events, leads, topic>> => CS!IInv'
         /\ UNCHANGED <<notificationVars, events>> => NS!HandlerInv'
<1>1. ASSUME UNCHANGED <<leadVars, leads, topic>> PROVE L!IInv'
  <2>1. UNCHANGED LP!vars
    BY <1>1 DEF leadVars, LP!vars, LP!createVars, LP!getVars
  <2> QED BY <2>1, Assumptions, SameL, LP!IInvStep DEF IInv
<1>2. ASSUME UNCHANGED <<customerVars, events, leads, topic>> PROVE CS!IInv'
  <2>1. UNCHANGED CP!vars
    BY <1>2 DEF customerVars, CP!vars, CP!consumerVars, CP!handlerVars, CP!storeVars
  <2> QED BY <2>1, Assumptions, SameCS, CP!IInvKept DEF IInv
<1>3. ASSUME UNCHANGED <<notificationVars, events>> PROVE NS!HandlerInv'
  <2>1. UNCHANGED NP!vars
    BY <1>3 DEF notificationVars, NP!vars, NP!consumerVars, NP!handlerVars, NP!storeVars
  <2> QED BY <2>1, Assumptions, SameNS, NP!IInvKept DEF IInv
<1> QED BY <1>1, <1>2, <1>3

\* A request to lead-service: what it publishes extends the topic of customer-service.
LEMMA LeadStep ==
  ASSUME IInv, LeadService
  PROVE  IInv'
<1> DEFINE Converted == {x \in Leads : leads[x] = "converted"}
<1>1. PICK l \in Leads : L!Create(l) \/ L!Expire(l)
  BY DEF LeadService
<1>2. UNCHANGED <<customerVars, events, notificationVars>>
  BY DEF LeadService
<1>3. L!IInv'
  BY <1>1, StepOfL, Assumptions, SameL, LP!IInvStep DEF IInv
<1>4. leads \in [Leads -> {"none", "new", "converted"}] /\ topic \in Seq(Leads)
  BY DEF IInv, L!IInv, L!TypeOK, L!Status
<1>5. Converted' = Converted
  BY <1>1, <1>4, LeadEffect
<1>6. /\ topic' \in Seq(Leads) /\ Len(topic) <= Len(topic')
      /\ \A o \in 1..Len(topic) : topic'[o] = topic[o]
  <2>1. ASSUME NEW w \in WriteOutcomes, topic' = Stored(topic, l, w)
        PROVE  /\ topic' \in Seq(Leads)
               /\ Len(topic) <= Len(topic')
               /\ \A o \in 1..Len(topic) : topic'[o] = topic[o]
    <3>1. /\ Stored(topic, l, w) \in Seq(Leads)
          /\ Len(topic) <= Len(Stored(topic, l, w))
          /\ \A o \in 1..Len(topic) : Stored(topic, l, w)[o] = topic[o]
      BY <1>4, Extended
    <3> QED BY <2>1, <3>1
  <2>2. topic' = topic => Len(topic) <= Len(topic')
    BY <1>4
  <2> QED BY <1>1, <1>4, <2>1, <2>2, LeadEffect
<1>7. topic' \in Seq(Leads \cup {NotJson})
  BY <1>6
<1>8. CS!IInv'
  BY <1>2, <1>5, <1>6, <1>7, Assumptions, SameCS, CP!TopicExtended
  DEF IInv, customerVars, CP!handlerVars, CP!storeVars
<1>9. NS!HandlerInv' /\ ToldBefore'
  BY <1>2, Untouched DEF IInv, ToldBefore, notificationVars
<1> QED BY <1>3, <1>8, <1>9 DEF IInv

\* customer-service: its COMMIT is the conversion lead-service allows for, and what
\* it publishes extends the topic of notification-service.
LEMMA ConverterStep ==
  ASSUME IInv, NEW r \in Converters, Converter(r)
  PROVE  IInv'
<1>1. UNCHANGED <<leadVars, topic, notificationVars>>
  BY TopicKept DEF Converter
<1>2. CS!IInv'
  BY StepOfCS, Assumptions, SameCS, CP!IInvKept DEF IInv, Converter
<1>3. L!IInv'
  <2>1. CASE leads' = leads
    BY <1>1, <2>1, Untouched
  <2>2. CASE leads' # leads
    <3>1. PICK l \in L!Announced : leads[l] = "new" /\ leads' = [leads EXCEPT ![l] = "converted"]
      BY <2>2, ConverterEffect
    <3>2. l \in Leads
      BY DEF L!Announced, IInv, L!IInv, L!TypeOK
    <3>3. L!Convert(l)
      BY <1>1, <3>1 DEF L!Convert, L!createVars, L!getVars, leadVars
    <3> QED BY <3>2, <3>3, StepOfL, Assumptions, SameL, LP!IInvStep DEF IInv
  <2> QED BY <2>1, <2>2
<1> DEFINE Customers == [id : Ids, lead : Leads]
<1>4. events \in Seq(Customers)
  BY DEF IInv, CS!IInv, CS!HandlerTypeOK, CS!Customer
<1>5. /\ events' \in Seq(Customers) /\ Len(events) <= Len(events')
      /\ \A k \in 1..Len(events) : events'[k] = events[k]
  <2>1. events' = events \/ \E c \in Customers, w \in WriteOutcomes : events' = Stored(events, c, w)
    BY ConverterEffect
  <2> HIDE DEF Customers
  <2>2. ASSUME NEW c \in Customers, NEW w \in WriteOutcomes, events' = Stored(events, c, w)
        PROVE  /\ events' \in Seq(Customers)
               /\ Len(events) <= Len(events')
               /\ \A k \in 1..Len(events) : events'[k] = events[k]
    <3>1. /\ Stored(events, c, w) \in Seq(Customers)
          /\ Len(events) <= Len(Stored(events, c, w))
          /\ \A k \in 1..Len(events) : Stored(events, c, w)[k] = events[k]
      BY <1>4, Extended
    <3> QED BY <2>2, <3>1
  <2>3. events' = events => Len(events) <= Len(events')
    BY <1>4
  <2> QED BY <1>4, <2>1, <2>2, <2>3
<1>6. events' \in Seq(Customers \cup {NotJson})
  <2> HIDE DEF Customers
  <2> QED BY <1>5
<1>7. NS!HandlerInv'
  BY <1>1, <1>5, <1>6, Assumptions, SameNS, NP!TopicExtended
  DEF IInv, notificationVars, NP!handlerVars, NP!storeVars
<1>8. ToldBefore'
  <2>1. Len(events) \in Nat /\ Len(events') \in Nat
    BY <1>4, <1>5
  <2> QED BY <1>1, <1>5, <2>1 DEF IInv, ToldBefore, notificationVars
<1> QED BY <1>2, <1>3, <1>7, <1>8 DEF IInv

\* notification-service: its rows are about what it was told.
LEMMA NotifierStep ==
  ASSUME IInv, NEW r \in Notifiers, Notifier(r)
  PROVE  IInv'
<1>1. UNCHANGED <<leadVars, leads, topic, customerVars>>
  BY DEF Notifier
<1>2. UNCHANGED events
  BY EventsKept
<1>3. NS!HandlerInv'
  BY StepOfNS, Assumptions, SameNS, NP!IInvKept DEF IInv, Notifier
<1>4. ToldBefore'
  <2>1. notifications \in Seq([id : Ids, lead : Leads])
    BY DEF IInv, NS!HandlerInv, NS!TypeOK
  <2>2. CASE notifications' = notifications
    BY <1>2, <2>2 DEF IInv, ToldBefore
  <2>3. CASE notifications' # notifications
    <3>1. PICK k \in 1..Len(events) : /\ events[k] \in [id : Ids, lead : Leads]
                                      /\ notifications' = Append(notifications, events[k])
      BY <2>3, NotifierEffect
    <3> QED BY <1>2, <2>1, <3>1 DEF IInv, ToldBefore
  <2> QED BY <2>2, <2>3
<1> QED BY <1>1, <1>2, <1>3, <1>4, Untouched DEF IInv

\* A rebalance of one of the groups.
LEMMA RebalanceStep ==
  ASSUME IInv, RebalanceConverters \/ RebalanceNotifiers
  PROVE  IInv'
<1>1. CASE RebalanceConverters
  <2>1. UNCHANGED <<leadVars, leads, topic, events, notificationVars>>
    BY <1>1 DEF RebalanceConverters, CS!C!Assign, CS!C!Revoke, CS!C!Discard
  <2>2. CS!IInv'
    BY <1>1, StepOfBroker, Assumptions, SameCS, CP!IInvKept DEF IInv
  <2> QED BY <2>1, <2>2, Untouched DEF IInv, ToldBefore, notificationVars
<1>2. CASE RebalanceNotifiers
  <2>1. UNCHANGED <<leadVars, leads, topic, customerVars, events, notifications>>
    BY <1>2 DEF RebalanceNotifiers, NS!C!Assign, NS!C!Revoke, NS!C!Discard
  <2>2. NS!HandlerInv'
    BY <1>2, StepOfBroker, Assumptions, SameNS, NP!IInvKept DEF IInv
  <2> QED BY <2>1, <2>2, Untouched DEF IInv, ToldBefore
<1> QED BY <1>1, <1>2

\* Every step preserves the invariant.
LEMMA IInvStep == IInv /\ [Next]_vars => IInv'
<1> SUFFICES ASSUME IInv, [Next]_vars PROVE IInv'
  OBVIOUS
<1>1. CASE UNCHANGED vars
  BY <1>1, Untouched DEF vars, IInv, ToldBefore, notificationVars
<1> QED BY <1>1, LeadStep, ConverterStep, NotifierStep, RebalanceStep DEF Next

\* The invariant holds in the initial states.
LEMMA InitIInv == Init => IInv
<1> SUFFICES ASSUME Init PROVE IInv
  OBVIOUS
<1>1. L!IInv
  <2>1. LP!Init
    BY DEF Init, L!Init, LP!Init
  <2> QED BY <2>1, Assumptions, SameL, LP!InitIInv
<1>2. CS!IInv
  <2>1. CP!Init /\ CP!P!Init
    BY DEF Init, CS!Init, CP!Init, CS!C!Init, CP!C!Init, CP!P!Init
  <2>2. CP!P!IInv
    BY <2>1, Assumptions, CP!Assumptions, CP!P!InitIInv
  <2> QED BY <2>1, <2>2, Assumptions, SameCS, CP!SameIInv, CP!InitIInv
<1>3. NS!HandlerInv
  <2>1. NP!Init /\ NP!P!Init
    BY DEF Init, NS!Init, NP!Init, NS!C!Init, NP!C!Init, NP!P!Init
  <2>2. NP!P!IInv
    BY <2>1, Assumptions, NP!Assumptions, NP!P!InitIInv
  <2> QED BY <2>1, <2>2, Assumptions, SameNS, NP!SameIInv, NP!InitIInv
<1>4. ToldBefore
  BY DEF Init, NS!Init, ToldBefore
<1> QED BY <1>1, <1>2, <1>3, <1>4 DEF IInv

\* The invariants of the three services, each proved for itself, hold of the services
\* joined; the theorems below rest on them.
THEOREM Inductive == Spec => []IInv
BY InitIInv, IInvStep, PTL DEF Spec

\* No INSERT of customer-service or notification-service is refused for its foreign
\* key: the row in hand is about the record in hand, which is announced and hence
\* stored, and the event a notification is about names a committed customer.
THEOREM KeysHold == Spec => []ForeignKeys
<1>1. IInv => ForeignKeys
  <2> SUFFICES ASSUME IInv PROVE ForeignKeys
    OBVIOUS
  <2> USE SameCS DEF IInv
  <2>1. ASSUME NEW r \in Converters, NEW c \in insert[r] PROVE leads[c.lead] # "none"
    <3>1. stage[r] # "decode"
      BY <2>1 DEF CP!IInv, CP!InProgress, CP!InProgressAt
    <3>2. c.lead \in L!Announced
      BY <3>1, Assumptions, CP!RowInHand DEF L!Announced
    <3> QED BY <3>2 DEF L!IInv, L!CreatedMeansAnnounced
  <2>2. ASSUME NEW c \in customers PROVE leads[c.lead] # "none"
    BY DEF CP!IInv, CP!ConvertedIffCustomer, CP!LeadsOf
  <2>3. ASSUME NEW n \in 1..Len(notifications) PROVE notifications[n] \in customers
    BY DEF ToldBefore, CP!IInv, CP!EventNamesCustomer
  <2> QED BY <2>1, <2>2, <2>3 DEF ForeignKeys
<1> QED BY <1>1, Inductive, PTL

-----------------------------------------------------------------------------
(* The pipeline implements Crm *)

\* The stages one by one.
LEMMA Stage ==
  /\ Reached = [i \in 1..7 |-> Reached[i]] /\ Reached' = [i \in 1..7 |-> Reached'[i]]
  /\ Reached[1] = {l \in Leads : leads[l] # "none"}
  /\ Reached'[1] = {l \in Leads : leads'[l] # "none"}
  /\ Reached[2] = {topic[k] : k \in 1..Len(topic)}
  /\ Reached'[2] = {topic'[k] : k \in 1..Len(topic')}
  /\ Reached[3] = {l \in Leads : leads[l] = "converted"}
  /\ Reached'[3] = {l \in Leads : leads'[l] = "converted"}
  /\ Reached[4] = {events[k].lead : k \in 1..Len(events)}
  /\ Reached'[4] = {events'[k].lead : k \in 1..Len(events')}
  /\ Reached[5] = {notifications[n].lead : n \in 1..Len(notifications)}
  /\ Reached'[5] = {notifications'[n].lead : n \in 1..Len(notifications')}
  /\ Reached[6] = {notifications[n].lead : n \in announced}
  /\ Reached'[6] = {notifications'[n].lead : n \in announced'}
  /\ Reached[7] = {notifications[n].lead : n \in pushed}
  /\ Reached'[7] = {notifications'[n].lead : n \in pushed'}
BY DEF Reached, Notified, L!Announced

\* One lead more in one stage, which was in the stage before, is a step of Crm, and
\* a lead that was there already is a stutter.
LEMMA OneStage ==
  ASSUME NEW s \in 1..7, NEW l \in Leads, s > 1 => l \in Reached[s - 1],
         Reached'[s] = Reached[s] \cup {l},
         \A i \in 1..7 : i # s => Reached'[i] = Reached[i]
  PROVE  [Abstract!Next]_Reached
<1>1. Reached' = [Reached EXCEPT ![s] = @ \cup {l}]
  BY Stage
<1>2. CASE l \in Reached[s]
  <2>1. Reached[s] \cup {l} = Reached[s]
    BY <1>2
  <2>2. \A i \in 1..7 : Reached'[i] = Reached[i]
    BY <2>1
  <2>3. Reached' = Reached
    BY <2>2, Stage
  <2> QED BY <2>3
<1>3. CASE l \notin Reached[s]
  <2>1. Abstract!Advance(s, l)
    BY <1>1, <1>3 DEF Abstract!Advance
  <2>2. s \in 1..Len(Abstract!Stages)
    BY DEF Abstract!Stages
  <2> QED BY <2>1, <2>2 DEF Abstract!Next
<1> QED BY <1>2, <1>3

\* The tables and topics the stages are read from.
LEMMA SameStage ==
  /\ UNCHANGED leads => Reached'[1] = Reached[1] /\ Reached'[3] = Reached[3]
  /\ UNCHANGED topic => Reached'[2] = Reached[2]
  /\ UNCHANGED events => Reached'[4] = Reached[4]
  /\ UNCHANGED notifications => Reached'[5] = Reached[5]
  /\ UNCHANGED <<notifications, announced>> => Reached'[6] = Reached[6]
  /\ UNCHANGED <<notifications, pushed>> => Reached'[7] = Reached[7]
BY Stage

\* A step that changes none of the stages is a stutter.
LEMMA NoStage ==
  ASSUME UNCHANGED <<leads, topic, events, notifications, announced, pushed>>
  PROVE  [Abstract!Next]_Reached
BY DEF Reached, Notified, L!Announced

\* A request to lead-service: a row is stored, or a stored lead is announced.
LEMMA LeadRefines ==
  ASSUME IInv, LeadService
  PROVE  [Abstract!Next]_Reached
<1>1. PICK l \in Leads : L!Create(l) \/ L!Expire(l)
  BY DEF LeadService
<1>2. UNCHANGED <<events, notifications, announced, pushed>>
  BY DEF LeadService, notificationVars
<1>3. leads \in [Leads -> {"none", "new", "converted"}] /\ topic \in Seq(Leads)
  BY DEF IInv, L!IInv, L!TypeOK, L!Status
<1>4. CASE UNCHANGED <<leads, topic>>
  BY <1>2, <1>4, NoStage
<1>5. CASE leads[l] = "none" /\ leads' = [leads EXCEPT ![l] = "new"] /\ UNCHANGED topic
  <2>1. {k \in Leads : leads'[k] # "none"} = {k \in Leads : leads[k] # "none"} \cup {l}
    BY <1>3, <1>5
  <2>2. {k \in Leads : leads'[k] = "converted"} = {k \in Leads : leads[k] = "converted"}
    BY <1>3, <1>5
  <2>3. Reached'[1] = Reached[1] \cup {l} /\ Reached'[3] = Reached[3]
    BY <2>1, <2>2, Stage
  <2>4. \A i \in 1..7 : i # 1 => Reached'[i] = Reached[i]
    BY <1>2, <1>5, <2>3, SameStage
  <2> QED BY <2>3, <2>4, OneStage
<1>6. CASE leads[l] # "none" /\ UNCHANGED leads
           /\ \E w \in WriteOutcomes : topic' = Stored(topic, l, w)
  <2>1. PICK w \in WriteOutcomes : topic' = Stored(topic, l, w)
    BY <1>6
  <2>2. /\ Stored(topic, l, w) \in Seq(Leads)
        /\ Len(topic) <= Len(Stored(topic, l, w))
        /\ \A k \in 1..Len(topic) : Stored(topic, l, w)[k] = topic[k]
    BY <1>3, Extended
  <2>3. \A k \in 1..Len(Stored(topic, l, w)) : k \in 1..Len(topic) \/ Stored(topic, l, w)[k] = l
    BY <1>3, Extended
  <2>4. Len(topic) \in Nat /\ Len(topic') \in Nat /\ Len(topic) <= Len(topic')
        /\ (\A k \in 1..Len(topic) : topic'[k] = topic[k])
        /\ (\A k \in 1..Len(topic') : k \in 1..Len(topic) \/ topic'[k] = l)
    BY <1>3, <2>1, <2>2, <2>3
  <2>5. CASE {topic'[k] : k \in 1..Len(topic')} = {topic[k] : k \in 1..Len(topic)}
    BY <1>2, <1>6, <2>5, NoStage DEF Reached, Notified, L!Announced
  <2>6. CASE {topic'[k] : k \in 1..Len(topic')} = {topic[k] : k \in 1..Len(topic)} \cup {l}
    <3>1. Reached'[2] = Reached[2] \cup {l}
      BY <2>6, Stage
    <3>2. \A i \in 1..7 : i # 2 => Reached'[i] = Reached[i]
      BY <1>2, <1>6, SameStage
    <3>3. l \in Reached[1]
      BY <1>6, Stage
    <3> QED BY <3>1, <3>2, <3>3, OneStage
  <2>7. \/ {topic'[k] : k \in 1..Len(topic')} = {topic[k] : k \in 1..Len(topic)}
        \/ {topic'[k] : k \in 1..Len(topic')} = {topic[k] : k \in 1..Len(topic)} \cup {l}
    BY <2>4
  <2> QED BY <2>5, <2>6, <2>7
<1> QED BY <1>1, <1>4, <1>5, <1>6, LeadEffect

\* customer-service: an announced lead is converted, or a converted one is told of.
LEMMA ConverterRefines ==
  ASSUME IInv, NEW r \in Converters, Converter(r)
  PROVE  [Abstract!Next]_Reached
<1>1. UNCHANGED <<topic, notifications, announced, pushed>>
  BY TopicKept DEF Converter, notificationVars
<1>2. leads \in [Leads -> {"none", "new", "converted"}]
      /\ events \in Seq([id : Ids, lead : Leads])
  BY DEF IInv, L!IInv, L!TypeOK, L!Status, CS!IInv, CS!HandlerTypeOK, CS!Customer
<1>3. CASE UNCHANGED <<leads, events>>
  BY <1>1, <1>3, NoStage
<1>4. CASE UNCHANGED events /\ \E l \in L!Announced : /\ leads[l] = "new"
                                                     /\ leads' = [leads EXCEPT ![l] = "converted"]
  <2>1. PICK l \in L!Announced : leads[l] = "new" /\ leads' = [leads EXCEPT ![l] = "converted"]
    BY <1>4
  <2>2. l \in Leads
    BY DEF L!Announced, IInv, L!IInv, L!TypeOK
  <2>3. {k \in Leads : leads'[k] # "none"} = {k \in Leads : leads[k] # "none"}
    BY <1>2, <2>1, <2>2
  <2>4. {k \in Leads : leads'[k] = "converted"} = {k \in Leads : leads[k] = "converted"} \cup {l}
    BY <1>2, <2>1, <2>2
  <2>5. Reached'[3] = Reached[3] \cup {l} /\ Reached'[1] = Reached[1]
    BY <2>3, <2>4, Stage
  <2>6. \A i \in 1..7 : i # 3 => Reached'[i] = Reached[i]
    BY <1>1, <1>4, <2>5, SameStage
  <2>7. l \in Reached[2]
    BY Stage DEF L!Announced
  <2> QED BY <2>2, <2>5, <2>6, <2>7, OneStage
<1>5. CASE /\ UNCHANGED leads
           /\ \E c \in [id : Ids, lead : Leads], w \in WriteOutcomes :
                leads[c.lead] = "converted" /\ events' = Stored(events, c, w)
  <2> DEFINE Customers == [id : Ids, lead : Leads]
             told == {events[k].lead : k \in 1..Len(events)}
             told2 == {events'[k].lead : k \in 1..Len(events')}
  <2>1. PICK c \in Customers, w \in WriteOutcomes :
          leads[c.lead] = "converted" /\ events' = Stored(events, c, w)
    BY <1>5
  <2>2. c.lead \in Leads /\ events \in Seq(Customers)
    BY <1>2
  <2> HIDE DEF Customers
  <2>3. /\ Stored(events, c, w) \in Seq(Customers)
        /\ Len(events) <= Len(Stored(events, c, w))
        /\ \A k \in 1..Len(events) : Stored(events, c, w)[k] = events[k]
    BY <2>2, Extended
  <2>4. \A k \in 1..Len(Stored(events, c, w)) : k \in 1..Len(events) \/ Stored(events, c, w)[k] = c
    BY <2>2, Extended
  <2>5. Len(events) \in Nat /\ Len(events') \in Nat /\ Len(events) <= Len(events')
        /\ (\A k \in 1..Len(events) : events'[k] = events[k])
        /\ (\A k \in 1..Len(events') : k \in 1..Len(events) \/ events'[k] = c)
    BY <2>1, <2>2, <2>3, <2>4
  <2>6. told2 = told \/ told2 = told \cup {c.lead}
    BY <2>5
  <2>7. CASE told2 = told
    BY <1>1, <1>5, <2>7, NoStage DEF Reached, Notified, L!Announced
  <2>8. CASE told2 = told \cup {c.lead}
    <3>1. Reached'[4] = Reached[4] \cup {c.lead}
      BY <2>8, Stage
    <3>2. \A i \in 1..7 : i # 4 => Reached'[i] = Reached[i]
      BY <1>1, <1>5, SameStage
    <3>3. c.lead \in Reached[3]
      BY <2>1, <2>2, Stage
    <3> QED BY <2>2, <3>1, <3>2, <3>3, OneStage
  <2> QED BY <2>6, <2>7, <2>8
<1> QED BY <1>3, <1>4, <1>5, ConverterEffect

\* notification-service: a lead that was told of gets a notification, which is
\* announced and then pushed.
LEMMA NotifierRefines ==
  ASSUME IInv, NEW r \in Notifiers, Notifier(r)
  PROVE  [Abstract!Next]_Reached
<1>1. UNCHANGED <<leads, topic, events>>
  BY EventsKept DEF Notifier
<1>2. /\ notifications \in Seq([id : Ids, lead : Leads])
      /\ announced \subseteq 1..Len(notifications)
      /\ pushed \subseteq announced
  BY DEF IInv, NS!HandlerInv, NS!TypeOK, NS!PushedMeansAnnounced
<1>3. CASE UNCHANGED <<notifications, announced, pushed>>
  BY <1>1, <1>3, NoStage
<1>4. CASE /\ UNCHANGED <<announced, pushed>>
           /\ \E k \in 1..Len(events) : /\ events[k] \in [id : Ids, lead : Leads]
                                        /\ notifications' = Append(notifications, events[k])
  <2>1. PICK k \in 1..Len(events) : /\ events[k] \in [id : Ids, lead : Leads]
                                   /\ notifications' = Append(notifications, events[k])
    BY <1>4
  <2>2. PICK e : e = events[k]
    OBVIOUS
  <2>3. /\ Len(notifications) \in Nat /\ Len(notifications') = Len(notifications) + 1
        /\ \A n \in 1..Len(notifications) : notifications'[n] = notifications[n]
        /\ notifications'[Len(notifications) + 1] = e
    BY <1>2, <2>1, <2>2
  <2>4. /\ {notifications'[n].lead : n \in 1..Len(notifications')}
           = {notifications[n].lead : n \in 1..Len(notifications)} \cup {e.lead}
        /\ {notifications'[n].lead : n \in announced} = {notifications[n].lead : n \in announced}
        /\ {notifications'[n].lead : n \in pushed} = {notifications[n].lead : n \in pushed}
    BY <1>2, <2>3
  <2>5. Reached'[5] = Reached[5] \cup {e.lead} /\ Reached'[6] = Reached[6] /\ Reached'[7] = Reached[7]
    BY <1>4, <2>4, Stage
  <2>6. \A i \in 1..7 : i # 5 => Reached'[i] = Reached[i]
    BY <1>1, <2>5, SameStage
  <2>7. e.lead \in Reached[4] /\ e.lead \in Leads
    BY <2>1, <2>2, Stage
  <2> QED BY <2>5, <2>6, <2>7, OneStage
<1>5. CASE /\ UNCHANGED <<notifications, pushed>>
           /\ \E n \in 1..Len(notifications) : announced' = announced \cup {n}
  <2>1. PICK n \in 1..Len(notifications) : announced' = announced \cup {n}
    BY <1>5
  <2>2. notifications[n].lead \in Leads /\ notifications[n].lead \in Reached[5]
    <3>1. n \in 1..Len(notifications) => notifications[n] \in [id : Ids, lead : Leads]
      BY <1>2, ElementOfSeq
    <3>2. notifications[n].lead \in Reached[5]
      BY Stage
    <3> QED BY <1>2, <3>1, <3>2
  <2>3. Reached'[6] = Reached[6] \cup {notifications[n].lead}
    BY <1>5, <2>1, Stage
  <2>4. \A i \in 1..7 : i # 6 => Reached'[i] = Reached[i]
    BY <1>1, <1>5, SameStage
  <2> QED BY <2>2, <2>3, <2>4, OneStage
<1>6. CASE /\ UNCHANGED <<notifications, announced>>
           /\ \E n \in announced : pushed' = pushed \cup {n}
  <2>1. PICK n \in announced : pushed' = pushed \cup {n}
    BY <1>6
  <2>2. notifications[n].lead \in Leads /\ notifications[n].lead \in Reached[6]
    <3>1. n \in 1..Len(notifications) => notifications[n] \in [id : Ids, lead : Leads]
      BY <1>2, ElementOfSeq
    <3>2. notifications[n].lead \in Reached[6]
      BY Stage
    <3> QED BY <1>2, <3>1, <3>2
  <2>3. Reached'[7] = Reached[7] \cup {notifications[n].lead}
    BY <1>6, <2>1, Stage
  <2>4. \A i \in 1..7 : i # 7 => Reached'[i] = Reached[i]
    BY <1>1, <1>6, SameStage
  <2> QED BY <2>2, <2>3, <2>4, OneStage
<1> QED BY <1>3, <1>4, <1>5, <1>6, NotifierEffect

\* Over all retries, redeliveries, rebalances and crashes of the three services a lead
\* passes the stages in order: the joined services implement Crm.
THEOREM Implements == Spec => ImplementsCrm
<1>1. Init => Abstract!Init
  <2> SUFFICES ASSUME Init PROVE Abstract!Init
    OBVIOUS
  <2>1. /\ leads = [l \in Leads |-> "none"] /\ topic = <<>> /\ events = <<>>
        /\ notifications = <<>> /\ announced = {} /\ pushed = {}
    BY DEF Init, L!Init, CS!Init, NS!Init
  <2>2. /\ Reached[1] = {} /\ Reached[2] = {} /\ Reached[3] = {} /\ Reached[4] = {}
        /\ Reached[5] = {} /\ Reached[6] = {} /\ Reached[7] = {}
    BY <2>1, Stage
  <2>3. \A i \in 1..7 : Reached[i] = {}
    BY <2>2
  <2>4. Len(Abstract!Stages) = 7
    BY DEF Abstract!Stages
  <2> QED BY <2>3, <2>4, Stage DEF Abstract!Init
<1>2. IInv /\ [Next]_vars => [Abstract!Next]_Reached
  <2> SUFFICES ASSUME IInv, [Next]_vars PROVE [Abstract!Next]_Reached
    OBVIOUS
  <2>1. CASE UNCHANGED vars
    BY <2>1, NoStage DEF vars, notificationVars
  <2>2. CASE RebalanceConverters \/ RebalanceNotifiers
    <3>1. UNCHANGED <<leads, topic, events, notifications, announced, pushed>>
      BY <2>2 DEF RebalanceConverters, RebalanceNotifiers, notificationVars,
         CS!C!Assign, CS!C!Revoke, CS!C!Discard, NS!C!Assign, NS!C!Revoke, NS!C!Discard
    <3> QED BY <3>1, NoStage
  <2> QED BY <2>1, <2>2, LeadRefines, ConverterRefines, NotifierRefines DEF Next
<1> QED BY <1>1, <1>2, Inductive, PTL DEF Spec, ImplementsCrm, Abstract!Spec

-----------------------------------------------------------------------------
(* What lead-service assumes of the others *)

\* lead-service in the pipeline behaves as in its own module: the only thing that
\* happens to its rows from outside is the conversion of an announced lead, so all
\* that is proved of LeadService holds here.
THEOREM LeadServiceJoined == Spec => L!Spec
<1>1. Init => L!Init
  BY DEF Init
<1>2. IInv /\ [Next]_vars => [L!Next]_(L!vars)
  <2> SUFFICES ASSUME IInv, [Next]_vars PROVE [L!Next]_(L!vars)
    OBVIOUS
  <2> USE DEF L!vars, L!createVars, L!getVars, leadVars
  <2>1. CASE LeadService
    BY <2>1 DEF LeadService, L!Next
  <2>2. ASSUME NEW r \in Converters, Converter(r) PROVE [L!Next]_(L!vars)
    <3>1. UNCHANGED <<leadVars, topic>>
      BY <2>2, TopicKept DEF Converter
    <3>2. CASE leads' = leads
      BY <3>1, <3>2
    <3>3. CASE leads' # leads
      <4>1. PICK l \in L!Announced : leads[l] = "new" /\ leads' = [leads EXCEPT ![l] = "converted"]
        BY <2>2, <3>3, ConverterEffect
      <4>2. l \in Leads
        BY DEF L!Announced, IInv, L!IInv, L!TypeOK
      <4>3. L!Convert(l)
        BY <3>1, <4>1 DEF L!Convert
      <4> QED BY <4>2, <4>3 DEF L!Next
    <3> QED BY <3>2, <3>3
  <2>3. ASSUME NEW r \in Notifiers, Notifier(r) PROVE [L!Next]_(L!vars)
    BY <2>3 DEF Notifier
  <2>4. CASE RebalanceConverters \/ RebalanceNotifiers \/ UNCHANGED vars
    <3>1. UNCHANGED <<leadVars, leads, topic>>
      BY <2>4 DEF RebalanceConverters, RebalanceNotifiers, vars,
         CS!C!Assign, CS!C!Revoke, CS!C!Discard
    <3> QED BY <3>1
  <2> QED BY <2>1, <2>2, <2>3, <2>4 DEF Next
<1> QED BY <1>1, <1>2, Inductive, PTL DEF Spec, L!Spec

-----------------------------------------------------------------------------
(* What the consumers assume of the others *)

\* A topic with at most most records of each lead has at most most for each of them.
LEMMA Counting ==
  ASSUME NEW n \in Nat, NEW S, IsFiniteSet(S), NEW most \in Nat,
         NEW about, \A k \in 1..n : about[k] \in S,
         \A l \in S : Cardinality({k \in 1..n : about[k] = l}) <= most
  PROVE  n <= Cardinality(S) * most
<1> DEFINE Of(l) == {k \in 1..n : about[k] = l}
           UpTo(k) == {j \in 1..k : about[j] = about[k]}
           Place(k) == <<about[k], Cardinality(UpTo(k))>>
           place == [k \in 1..n |-> Place(k)]
           places == S \X (1..most)
<1>1. IsFiniteSet(1..n) /\ Cardinality(1..n) = n
  <2>1. IsFiniteSet(1..n) /\ Cardinality(1..n) = IF 1 > n THEN 0 ELSE n - 1 + 1
    BY FS_Interval
  <2>2. (IF 1 > n THEN 0 ELSE n - 1 + 1) = n
    OBVIOUS
  <2> QED BY <2>1, <2>2
<1>2. \A l \in S : IsFiniteSet(Of(l))
  BY <1>1, FS_Subset
<1>3. ASSUME NEW k \in 1..n
      PROVE  /\ UpTo(k) \subseteq Of(about[k]) /\ k \in UpTo(k)
             /\ IsFiniteSet(UpTo(k)) /\ Cardinality(UpTo(k)) \in 1..most
  <2>1. UpTo(k) \subseteq Of(about[k]) /\ k \in UpTo(k)
    OBVIOUS
  <2>2. IsFiniteSet(Of(about[k])) /\ Cardinality(Of(about[k])) <= most
    BY <1>2
  <2>3. PICK all : all = Of(about[k])
    OBVIOUS
  <2>4. PICK part : part = UpTo(k)
    OBVIOUS
  <2>5. part \subseteq all /\ k \in part /\ IsFiniteSet(all) /\ Cardinality(all) <= most
    BY <2>1, <2>2, <2>3, <2>4
  <2>6. IsFiniteSet(part) /\ Cardinality(part) <= Cardinality(all)
    BY <2>5, FS_Subset
  <2>7. Cardinality(part) \in Nat /\ Cardinality(all) \in Nat
    BY <2>5, <2>6, FS_CardinalityType
  <2>8. Cardinality(part) # 0
    BY <2>5, <2>6, FS_EmptySet
  <2>9. Cardinality(part) \in 1..most
    BY <2>5, <2>6, <2>7, <2>8
  <2> QED BY <2>1, <2>4, <2>6, <2>9
<1>4. ASSUME NEW j \in 1..n, NEW k \in 1..n, j < k, about[j] = about[k]
      PROVE  Cardinality(UpTo(j)) # Cardinality(UpTo(k))
  <2>1. PICK early : early = UpTo(j)
    OBVIOUS
  <2>2. PICK late : late = UpTo(k)
    OBVIOUS
  <2>3. early \subseteq late /\ k \notin early
    BY <1>4, <2>1, <2>2
  <2>4. k \in late /\ IsFiniteSet(late)
    BY <1>3, <2>2
  <2>5. Cardinality(early) = Cardinality(late) => early = late
    BY <2>3, <2>4, FS_Subset
  <2> QED BY <2>1, <2>2, <2>3, <2>4, <2>5
<1>5. place \in Injection(1..n, places)
  <2> HIDE DEF UpTo
  <2>1. place \in [1..n -> places]
    BY <1>3
  <2>2. ASSUME NEW j \in 1..n, NEW k \in 1..n, place[j] = place[k] PROVE j = k
    <3>1. about[j] = about[k] /\ Cardinality(UpTo(j)) = Cardinality(UpTo(k))
      BY <2>2
    <3>2. ~(j < k) /\ ~(k < j)
      BY <1>4, <3>1
    <3> QED BY <3>2
  <2> QED BY <2>1, <2>2 DEF Injection, IsInjective
<1>6. IsFiniteSet(places) /\ Cardinality(places) = Cardinality(S) * most
  <2>1. IsFiniteSet(1..most) /\ Cardinality(1..most) = IF 1 > most THEN 0 ELSE most - 1 + 1
    BY FS_Interval
  <2>2. (IF 1 > most THEN 0 ELSE most - 1 + 1) = most
    OBVIOUS
  <2> QED BY <2>1, <2>2, FS_Product
<1> HIDE DEF place, places
<1>7. Cardinality(1..n) <= Cardinality(places)
  BY <1>1, <1>5, <1>6, FS_Injection
<1> QED BY <1>1, <1>6, <1>7

\* The topics have room for the records every lead can be given.
Room == Len(topic) <= MaxTopic /\ Len(events) <= MaxTopic

\* A bound on the topics that all leads together cannot reach does not hold up the
\* services that publish.
LEMMA EnoughRoom ==
  ASSUME IInv, IsFiniteSet(Leads),
         Cardinality(Leads) * (PublishAttempts * WriterCopies) <= MaxTopic
  PROVE  Room
<1> DEFINE most == PublishAttempts * WriterCopies
           lead == [k \in 1..Len(events) |-> events[k].lead]
<1>1. topic \in Seq(Leads) /\ events \in Seq([id : Ids, lead : Leads])
  BY DEF IInv, L!IInv, L!TypeOK, CS!IInv, CS!HandlerTypeOK, CS!Customer
<1>2. most \in Nat /\ MaxTopic \in Nat /\ Cardinality(Leads) \in Nat
  BY ProducerAssumption, PipelineAssumption, FS_CardinalityType
<1>3. \A l \in Leads : Cardinality({k \in 1..Len(topic) : topic[k] = l}) <= most
  BY DEF IInv, L!IInv, L!OneAnnouncementPerLead, L!RecordsOf, L!Cardinality, Cardinality
<1>4. \A l \in Leads : Cardinality({k \in 1..Len(events) : lead[k] = l}) <= most
  <2>1. ASSUME NEW l \in Leads
        PROVE  {k \in 1..Len(events) : lead[k] = l} = {k \in 1..Len(events) : events[k].lead = l}
    OBVIOUS
  <2>2. \A l \in Leads : Cardinality({k \in 1..Len(events) : events[k].lead = l}) <= most
    BY DEF IInv, CS!IInv, CS!OneAnnouncementPerLead, CS!EventsOf, CS!Cardinality, Cardinality
  <2> HIDE DEF lead
  <2>3. ASSUME NEW l \in Leads
        PROVE  Cardinality({k \in 1..Len(events) : lead[k] = l}) <= most
    <3>1. PICK told : told = {k \in 1..Len(events) : events[k].lead = l}
      OBVIOUS
    <3>2. Cardinality(told) <= most
      BY <2>2, <3>1, Zenon
    <3>3. {k \in 1..Len(events) : lead[k] = l} = told
      BY <2>1, <3>1, Zenon
    <3> QED BY <3>2, <3>3, Zenon
  <2> QED BY <2>3
<1>5. \A k \in 1..Len(topic) : topic[k] \in Leads
  BY <1>1
<1>6. \A k \in 1..Len(events) : lead[k] \in Leads
  <2>1. ASSUME NEW k \in 1..Len(events) PROVE events[k] \in [id : Ids, lead : Leads]
    BY <1>1, ElementOfSeq
  <2> QED BY <2>1
<1>7. Len(topic) \in Nat /\ Len(events) \in Nat
  BY <1>1
<1> HIDE DEF most, lead
<1>8. Len(topic) <= Cardinality(Leads) * most
  BY <1>2, <1>3, <1>5, <1>7, Counting
<1>9. Len(events) <= Cardinality(Leads) * most
  BY <1>2, <1>4, <1>6, <1>7, Counting
<1>10. Cardinality(Leads) * most <= MaxTopic /\ Cardinality(Leads) * most \in Nat
  BY <1>2 DEF most
<1> QED BY <1>2, <1>7, <1>8, <1>9, <1>10 DEF Room

\* What a write leaves of a topic with room for it.
LEMMA WriteLength ==
  ASSUME NEW S, NEW log \in Seq(S), NEW e, NEW w \in WriteOutcomes
  PROVE  Len(Stored(log, e, w)) = Len(log) + w.copies
<1> DEFINE copies == [i \in 1..w.copies |-> e]
<1>1. w.copies \in Nat
  BY ProducerAssumption DEF WriteOutcomes
<1>2. copies \in Seq({e}) /\ Len(copies) = w.copies
  BY <1>1
<1>3. log \in Seq(S \cup {e}) /\ copies \in Seq(S \cup {e})
  BY <1>2
<1>4. Stored(log, e, w) = log \o copies
  BY DEF Stored
<1> HIDE DEF copies
<1> QED BY <1>2, <1>3, <1>4

\* Every step of the pipeline is one of customer-service, of its environment, or
\* none of its business.
LEMMA CustomerServiceStep ==
  ASSUME IInv, Room', [Next]_vars
  PROVE  [CS!Next]_(CS!vars)
<1> DEFINE Converted == {l \in Leads : leads[l] = "converted"}
<1> USE DEF CS!vars, CS!consumerVars, CS!handlerVars, CS!storeVars, customerVars
<1>1. CASE LeadService
  <2>1. PICK l \in Leads : L!Create(l) \/ L!Expire(l)
    BY <1>1 DEF LeadService
  <2>2. UNCHANGED <<customerVars, events>>
    BY <1>1 DEF LeadService
  <2>3. leads \in [Leads -> {"none", "new", "converted"}] /\ topic \in Seq(Leads)
    BY DEF IInv, L!IInv, L!TypeOK, L!Status
  <2>4. Converted' = Converted
    BY <2>1, <2>3, LeadEffect
  <2>5. CASE UNCHANGED topic
    BY <2>2, <2>4, <2>5
  <2>6. CASE \E w \in WriteOutcomes : topic' = Stored(topic, l, w)
    <3>1. PICK w \in WriteOutcomes : topic' = Stored(topic, l, w)
      BY <2>6
    <3>2. Len(topic) + w.copies <= MaxTopic
      BY <2>3, <3>1, WriteLength DEF Room
    <3>3. w \in CS!C!WriteOutcomes /\ topic' = CS!C!Stored(topic, l, w)
      BY <3>1 DEF WriteOutcomes, CS!C!WriteOutcomes, Stored, CS!C!Stored
    <3>4. CS!C!Produce(l)
      BY <2>2, <3>2, <3>3 DEF CS!C!Produce, CS!C!loopVars, CS!C!outcomeVars
    <3>5. CS!Environment
      BY <2>2, <2>4, <3>4 DEF CS!Environment
    <3> QED BY <3>5 DEF CS!Next
  <2> QED BY <2>1, <2>5, <2>6, LeadEffect
<1>2. ASSUME NEW r \in Converters, Converter(r) PROVE CS!Next
  BY <1>2 DEF Converter, CS!Next
<1>3. ASSUME NEW r \in Notifiers, Notifier(r) PROVE UNCHANGED CS!vars
  BY <1>3, EventsKept DEF Notifier
<1>4. CASE RebalanceConverters
  BY <1>4 DEF RebalanceConverters, CS!Next, CS!Environment
<1>5. CASE RebalanceNotifiers \/ UNCHANGED vars
  <2>1. UNCHANGED <<customerVars, events, leads, topic>>
    BY <1>5 DEF RebalanceNotifiers, vars, NS!C!Assign, NS!C!Revoke, NS!C!Discard
  <2> QED BY <2>1
<1> QED BY <1>1, <1>2, <1>3, <1>4, <1>5 DEF Next

\* As before, of notification-service.
LEMMA NotificationServiceStep ==
  ASSUME IInv, Room', [Next]_vars
  PROVE  [NS!Next]_(NS!vars)
<1> USE DEF NS!vars, NS!consumerVars, NS!handlerVars, NS!storeVars, notificationVars
<1>1. ASSUME NEW r \in Converters, Converter(r) PROVE [NS!Next]_(NS!vars)
  <2>1. UNCHANGED notificationVars
    BY <1>1 DEF Converter
  <2>2. CASE UNCHANGED events
    BY <2>1, <2>2
  <2>3. CASE \E c \in [id : Ids, lead : Leads], w \in WriteOutcomes : events' = Stored(events, c, w)
    <3>1. PICK c \in [id : Ids, lead : Leads], w \in WriteOutcomes : events' = Stored(events, c, w)
      BY <2>3
    <3>2. events \in Seq([id : Ids, lead : Leads])
      BY DEF IInv, CS!IInv, CS!HandlerTypeOK, CS!Customer
    <3>3. Len(events) + w.copies <= MaxTopic
      BY <3>1, <3>2, WriteLength DEF Room
    <3>4. w \in NS!C!WriteOutcomes /\ events' = NS!C!Stored(events, c, w)
      BY <3>1 DEF WriteOutcomes, NS!C!WriteOutcomes, Stored, NS!C!Stored
    <3>5. NS!C!Produce(c)
      BY <2>1, <3>3, <3>4 DEF NS!C!Produce, NS!C!loopVars, NS!C!outcomeVars
    <3>6. NS!Environment
      BY <2>1, <3>5 DEF NS!Environment
    <3> QED BY <3>6 DEF NS!Next
  <2> QED BY <1>1, <2>2, <2>3, ConverterEffect
<1>2. ASSUME NEW r \in Notifiers, Notifier(r) PROVE NS!Next
  BY <1>2 DEF Notifier, NS!Next
<1>3. CASE RebalanceNotifiers
  BY <1>3 DEF RebalanceNotifiers, NS!Next, NS!Environment
<1>4. CASE LeadService \/ RebalanceConverters \/ UNCHANGED vars
  <2>1. UNCHANGED <<notificationVars, events>>
    BY <1>4 DEF LeadService, RebalanceConverters, vars, CS!C!Assign, CS!C!Revoke, CS!C!Discard
  <2> QED BY <2>1
<1> QED BY <1>1, <1>2, <1>3, <1>4 DEF Next

\* Each service in the pipeline behaves as in its own module: what that module leaves
\* to an environment is what the other two do, so that all that is proved of the
\* services alone holds of them joined.  The bound on a topic only has to be as
\* large as what the leads can fill.
THEOREM Joined ==
  ASSUME IsFiniteSet(Leads), Cardinality(Leads) * (PublishAttempts * WriterCopies) <= MaxTopic
  PROVE  Spec => Composition
<1>1. IInv => Room
  BY EnoughRoom
<1>2. IInv /\ Room' /\ [Next]_vars => [CS!Next]_(CS!vars) /\ [NS!Next]_(NS!vars)
  BY CustomerServiceStep, NotificationServiceStep
<1>3. Init => CS!Init /\ NS!Init
  BY DEF Init
<1> QED BY <1>1, <1>2, <1>3, Inductive, LeadServiceJoined, PTL
        DEF Spec, Composition, CS!Spec, NS!Spec

-----------------------------------------------------------------------------
(* How many notifications a lead leaves *)

\* The rest of a step of notification-service: what others publish to its topic.
LEMMA StepOfNSNext == [NS!Next]_(NS!vars) => [NP!Next]_(NP!vars)
<1>1. ASSUME NEW m \in [id : Ids, lead : Leads] \cup {NotJson}, NS!C!Produce(m)
      PROVE  NP!C!Produce(m)
  BY <1>1 DEF NS!C!Produce, NP!C!Produce, NS!C!WriteOutcomes, NP!C!WriteOutcomes, NS!C!Stored,
              NP!C!Stored, NS!C!loopVars, NP!C!loopVars, NS!C!outcomeVars, NP!C!outcomeVars
<1>2. NS!Environment => NP!Environment
  BY <1>1, StepOfNC DEF NS!Environment, NP!Environment, NS!handlerVars, NP!handlerVars,
                        NS!storeVars, NP!storeVars
<1>3. UNCHANGED NS!vars => UNCHANGED NP!vars
  BY DEF NS!vars, NP!vars, NS!consumerVars, NP!consumerVars, NS!handlerVars, NP!handlerVars,
         NS!storeVars, NP!storeVars
<1> QED BY <1>2, <1>3, StepOfNS DEF NS!Next, NP!Next

\* notification-service begins as its own module says.
LEMMA InitOfNS == NS!Init => NP!Init
BY DEF NS!Init, NP!Init, NS!C!Init, NP!C!Init

\* The notifications of a lead are those of its one customer.
LEMMA OfOneCustomer ==
  ASSUME IInv, ForeignKeys, NP!BoundedDuplicates
  PROVE  BoundedForTheUser
<1> DEFINE Customers == [id : Ids, lead : Leads]
           most == PublishAttempts * WriterCopies
           passes == NotifierAttempts * (nChurn + 1)
<1> SUFFICES ASSUME NEW l \in Leads
             PROVE  Cardinality(NotificationsOf(l)) <= passes * most
  BY DEF BoundedForTheUser
<1>1. /\ customers \subseteq Customers /\ events \in Seq(Customers) /\ nChurn \in Nat
      /\ \A c, d \in customers : c.lead = d.lead => c = d
      /\ \A n \in 1..Len(notifications) : notifications[n] \in customers
  BY PipelineAssumption
  DEF IInv, CS!IInv, CS!HandlerTypeOK, CS!Customer, CS!OneCustomerPerLead, ForeignKeys,
      NS!HandlerInv, NS!TypeOK, NS!C!TypeOK
<1>2. passes \in Nat /\ most \in Nat
  BY <1>1, PipelineAssumption, ProducerAssumption
<1>3. CASE NotificationsOf(l) = {}
  <2>1. Cardinality(NotificationsOf(l)) = 0
    BY <1>3, FS_EmptySet, Zenon
  <2>2. passes * most \in Nat
    BY <1>2
  <2> QED BY <2>1, <2>2
<1>4. CASE NotificationsOf(l) # {}
  <2>1. PICK n \in 1..Len(notifications) : notifications[n].lead = l
    BY <1>4 DEF NotificationsOf
  <2>2. PICK c \in Customers : c = notifications[n]
    BY <1>1
  <2>3. c \in customers /\ c.lead = l
    BY <1>1, <2>1, <2>2
  <2>4. NotificationsOf(l) = NP!RowsOf(c)
    BY <1>1, <2>3 DEF NotificationsOf, NP!RowsOf
  <2>5. NP!RecordsOf(c) \subseteq CS!EventsOf(l)
    BY <2>3 DEF NP!RecordsOf, CS!EventsOf
  <2>6. IsFiniteSet(CS!EventsOf(l))
    <3>1. Len(events) \in Nat
      BY <1>1
    <3>2. IsFiniteSet(1..Len(events))
      BY <3>1, FS_Interval
    <3> QED BY <3>2, FS_Subset DEF CS!EventsOf
  <2>7. Cardinality(CS!EventsOf(l)) <= most
    BY DEF IInv, CS!IInv, CS!OneAnnouncementPerLead, CS!Cardinality, Cardinality
  <2> HIDE DEF Customers, most
  <2>8. PICK rows : rows = NP!RowsOf(c)
    OBVIOUS
  <2>9. PICK records : records = NP!RecordsOf(c)
    OBVIOUS
  <2>10. Cardinality(rows) <= passes * Cardinality(records)
    <3>1. NP!Cardinality(NP!RowsOf(c))
            <= NotifierAttempts * (nChurn + 1) * NP!Cardinality(NP!RecordsOf(c))
      BY DEF NP!BoundedDuplicates, Customers
    <3>2. /\ NP!Cardinality(NP!RowsOf(c)) = Cardinality(rows)
          /\ NP!Cardinality(NP!RecordsOf(c)) = Cardinality(records)
      BY <2>8, <2>9 DEF NP!Cardinality, Cardinality
    <3> QED BY <3>1, <3>2
  <2>11. /\ Cardinality(records) <= Cardinality(CS!EventsOf(l))
         /\ Cardinality(records) \in Nat /\ Cardinality(CS!EventsOf(l)) \in Nat
    BY <2>5, <2>6, <2>9, FS_Subset, FS_CardinalityType
  <2>12. Cardinality(records) <= most
    BY <1>2, <2>7, <2>11
  <2> HIDE DEF passes
  <2>13. passes * Cardinality(records) <= passes * most
    BY <1>2, <2>11, <2>12
  <2>14. Cardinality(NotificationsOf(l)) = Cardinality(rows)
    BY <2>4, <2>8, Zenon
  <2>15. NotificationsOf(l) \subseteq 1..Len(notifications)
    BY DEF NotificationsOf
  <2>16. Cardinality(NotificationsOf(l)) \in Nat
    <3>1. IsFiniteSet(1..Len(notifications))
      BY FS_Interval DEF IInv, NS!HandlerInv, NS!TypeOK
    <3> QED BY <2>15, <3>1, FS_Subset, FS_CardinalityType
  <2>17. passes * Cardinality(records) \in Nat /\ passes * most \in Nat
    BY <1>2, <2>11
  <2> QED BY <2>10, <2>13, <2>14, <2>16, <2>17
<1> QED BY <1>3, <1>4

\* Over all retries, redeliveries, rebalances and crashes of the three services a lead
\* leaves no more notifications than the last service alone can make of one event.
THEOREM TellsBounded ==
  ASSUME IsFiniteSet(Leads), Cardinality(Leads) * (PublishAttempts * WriterCopies) <= MaxTopic
  PROVE  Spec => []BoundedForTheUser
<1>1. IInv => Room
  BY EnoughRoom
<1>2. IInv /\ Room' /\ [Next]_vars => [NP!Next]_(NP!vars)
  BY NotificationServiceStep, StepOfNSNext
<1>3. Init => NP!Init
  BY InitOfNS DEF Init
<1>4. Spec => NP!Spec
  BY <1>1, <1>2, <1>3, Inductive, PTL DEF Spec, NP!Spec
<1>5. NP!Spec => []NP!BoundedDuplicates
  BY Assumptions, NP!DuplicatesBounded
<1>6. IInv /\ ForeignKeys /\ NP!BoundedDuplicates => BoundedForTheUser
  BY OfOneCustomer
<1> QED BY <1>4, <1>5, <1>6, Inductive, KeysHold, PTL

-----------------------------------------------------------------------------
(* How a lead's way ends *)

\* Two consumer groups that have caught up leave no announced lead half way: it is
\* pushed to the gateways, in a dead letter path, or converted and never told of.
THEOREM EndsSomewhere == Spec => []NobodyForgotten
<1>1. IInv => NobodyForgotten
  <2> SUFFICES ASSUME IInv, CaughtUp, NEW l \in L!Announced, ~DeadLettered(l), ~NeverTold(l)
               PROVE  l \in Notified(pushed)
    BY DEF NobodyForgotten
  <2>1. topic \in Seq(Leads) /\ events \in Seq([id : Ids, lead : Leads])
    BY DEF IInv, L!IInv, L!TypeOK, CS!IInv, CS!HandlerTypeOK, CS!Customer
  <2>2. PICK o \in 1..Len(topic) : topic[o] = l
    BY DEF L!Announced
  <2>3. o \in handled
    <3>1. 1..committed \subseteq handled \cup dlq \cup dropped
      BY DEF IInv, CS!IInv, CS!C!IInv, CS!C!NothingSkipped, CS!C!Settled
    <3>2. o \notin dlq \cup dropped
      BY <2>2 DEF DeadLettered
    <3> QED BY <2>2, <3>1, <3>2 DEF CaughtUp
  <2>4. l \in Leads /\ leads[l] = "converted"
    <3>1. l \in Leads
      BY <2>1, <2>2
    <3>2. l \in CS!LeadsOf(customers)
      BY <2>2, <2>3, <3>1 DEF IInv, CS!IInv, CS!HandledMeansCustomer
    <3> QED BY <3>1, <3>2 DEF IInv, CS!IInv, CS!ConvertedIffCustomer
  <2>5. PICK k \in 1..Len(events) : events[k].lead = l
    BY <2>4 DEF NeverTold, CaughtUp
  <2>6. k \in nHandled
    <3>1. 1..nCommitted \subseteq nHandled \cup nDlq \cup nDropped
      BY DEF IInv, NS!HandlerInv, NS!C!IInv, NS!C!NothingSkipped, NS!C!Settled
    <3>2. k \notin nDlq \cup nDropped
      BY <2>5 DEF DeadLettered
    <3> QED BY <2>5, <3>1, <3>2 DEF CaughtUp
  <2>7. events[k] \in [id : Ids, lead : Leads]
    BY <2>1, <2>5, ElementOfSeq
  <2>8. NS!RowsOf(events[k]) \cap pushed # {}
    BY <2>6, <2>7 DEF IInv, NS!HandlerInv, NS!HandledMeansPushed
  <2>9. PICK n \in pushed : notifications[n] = events[k]
    BY <2>8 DEF NS!RowsOf
  <2> QED BY <2>5, <2>9 DEF Notified
<1> QED BY <1>1, Inductive, PTL
=============================================================================
