------------------------------ MODULE Pipeline ------------------------------
(***************************************************************************)
(* The services of the CRM joined where the program joins them:            *)
(*   - the records lead-service publishes are the topic that               *)
(*     customer-service consumes, and customer.created, to which           *)
(*     customer-service publishes, is the topic of notification-service;   *)
(*   - the status of a lead, which lead-service reads and caches, is a     *)
(*     column that the transaction of customer-service updates.            *)
(*                                                                         *)
(* Each service is an instance of its module.  A step of the pipeline is a *)
(* step of one service, and what its module leaves to an environment (who  *)
(* produces a record, who converts a lead) is here the step of another.    *)
(* Requests that read leads are left to LeadService.                       *)
(***************************************************************************)
EXTENDS Producer, FiniteSets

CONSTANTS
  Leads,
  Converters, Notifiers,  (* replicas of customer- and notification-service *)
  Ids, NotJson, MaxTopic,
  HandlerAttempts, MaxChurn,           (* of the first consumer group      *)
  NotifierAttempts, MaxNotifierChurn   (* of the second                    *)

ASSUME PipelineAssumption ==
  /\ IsFiniteSet(Notifiers)
  /\ NotJson \notin Leads
  /\ NotJson \notin [id : Ids, lead : Leads]
  /\ HandlerAttempts \in Nat \ {0} /\ NotifierAttempts \in Nat \ {0}
  /\ MaxTopic \in Nat
  /\ MaxChurn \in Nat /\ MaxNotifierChurn \in Nat

VARIABLES
  \* lead-service, with the table leads and the topic lead.created
  create, sends, leads, cache, topic, get, target, found,
  \* the consumer group and the handlers of customer-service, with the table
  \* customers and the topic customer.created
  committed, reader, churn, position, pc, msg, attempt, tries, handled, dlq,
  dropped, stage, insert, cSends, customers, events,
  \* the consumer group and the handlers of notification-service, with the table
  \* notifications, the topic notification.created and the Redis channel
  nCommitted, nReader, nChurn, nPosition, nPc, nMsg, nAttempt, nTries,
  nHandled, nDlq, nDropped, nStage, row, nSends, notifications, announced,
  pushed

leadVars == <<create, sends, cache, get, target, found>>
customerVars == <<committed, reader, churn, position, pc, msg, attempt, tries,
                  handled, dlq, dropped, stage, insert, cSends, customers>>
notificationVars == <<nCommitted, nReader, nChurn, nPosition, nPc, nMsg, nAttempt,
                      nTries, nHandled, nDlq, nDropped, nStage, row, nSends,
                      notifications, announced, pushed>>
vars == <<leadVars, leads, topic, customerVars, events, notificationVars>>

L == INSTANCE LeadService WITH Readers <- {}

CS == INSTANCE CustomerService WITH
  Replicas  <- Converters,
  sends     <- cSends,
  converted <- {l \in Leads : leads[l] = "converted"}

NS == INSTANCE NotificationService WITH
  Replicas  <- Notifiers,
  HandlerAttempts <- NotifierAttempts,
  MaxChurn  <- MaxNotifierChurn,
  Customers <- [id : Ids, lead : Leads],
  topic     <- events,
  committed <- nCommitted, reader  <- nReader,  churn   <- nChurn,
  position  <- nPosition,  pc      <- nPc,      msg     <- nMsg,
  attempt   <- nAttempt,   tries   <- nTries,   handled <- nHandled,
  dlq       <- nDlq,       dropped <- nDropped, stage   <- nStage,
  sends     <- nSends

Init == L!Init /\ CS!Init /\ NS!Init

-----------------------------------------------------------------------------
(* Steps *)

LeadService ==
  /\ \E l \in Leads : L!Create(l) \/ L!Expire(l)
  /\ UNCHANGED <<customerVars, events, notificationVars>>

\* UPDATE leads SET status = 'converted', which takes effect with the COMMIT.
UpdateLeads == leads' \in {leads} \cup {[leads EXCEPT ![l] = "converted"] : l \in Leads}

Converter(r) ==
  /\ UpdateLeads
  /\ CS!Loop(r) \/ CS!Crash(r)
  /\ UNCHANGED <<leadVars, notificationVars>>

Notifier(r) ==
  /\ NS!Loop(r) \/ NS!Crash(r)
  /\ UNCHANGED <<leadVars, leads, topic, customerVars>>

\* The broker's part in the two consumer groups.
RebalanceConverters ==
  /\ \E r \in Converters : CS!C!Assign(r) \/ CS!C!Revoke(r) \/ CS!C!Discard(r)
  /\ UNCHANGED <<leadVars, leads, stage, insert, cSends, customers, events, notificationVars>>

RebalanceNotifiers ==
  /\ \E r \in Notifiers : NS!C!Assign(r) \/ NS!C!Revoke(r) \/ NS!C!Discard(r)
  /\ UNCHANGED <<leadVars, leads, topic, customerVars, nStage, row, nSends,
                 notifications, announced, pushed>>

Next ==
  \/ LeadService
  \/ \E r \in Converters : Converter(r)
  \/ \E r \in Notifiers : Notifier(r)
  \/ RebalanceConverters \/ RebalanceNotifiers

Spec == Init /\ [][Next]_vars

\* As in the services' own modules: replicas run, and a partition is assigned.
\* No client has to send or finish a request.
Fairness ==
  /\ \A r \in Converters :
       WF_vars(UpdateLeads /\ CS!Proceed(r) /\ UNCHANGED <<leadVars, notificationVars>>)
  /\ \A r \in Notifiers :
       WF_vars(NS!Loop(r) /\ UNCHANGED <<leadVars, leads, topic, customerVars>>)
  /\ WF_vars(RebalanceConverters /\ \E r \in Converters : reader'[r] = "assigned" /\ reader[r] # "assigned")
  /\ WF_vars(RebalanceNotifiers /\ \E r \in Notifiers : nReader'[r] = "assigned" /\ nReader[r] # "assigned")

LiveSpec == Spec /\ Fairness

-----------------------------------------------------------------------------
(* Properties *)

\* The foreign keys never refuse an INSERT: customer-service inserts a customer
\* only for a stored lead, and notification-service a notification only for a
\* committed customer, although each of them only knows the events it is sent.
ForeignKeys ==
  /\ \A r \in Converters : \A c \in insert[r] : leads[c.lead] # "none"
  /\ \A c \in customers : leads[c.lead] # "none"
  /\ \A n \in 1..Len(notifications) : notifications[n] \in customers

NotificationsOf(l) == {n \in 1..Len(notifications) : notifications[n].lead = l}

\* Nothing recognises a notification that was made before, and retries, redeliveries
\* and crashes of the three services multiply the notifications of a lead; yet without
\* rebalances of the last group its user lists at most one for each of its attempts at
\* each copy of a single event, however often the first group starts over.  (The
\* websocket events of a row are not counted: the Redis client may repeat a PUBLISH.)
BoundedForTheUser ==
  \A l \in Leads :
    Cardinality(NotificationsOf(l))
      <= NotifierAttempts * (nChurn + 1) * (PublishAttempts * WriterCopies)

\* What makes ForeignKeys and the refinement below inductive: each service keeps its own
\* invariant, and a notification is about a customer that was announced.
ToldBefore ==
  \A n \in 1..Len(notifications) :
    \E k \in 1..Len(events) : events[k] = notifications[n]

IInv == L!IInv /\ CS!IInv /\ NS!HandlerInv /\ ToldBefore

\* What each module assumes of its environment is what the others do, so that
\* its properties hold in the pipeline.
Composition == L!Spec /\ CS!Spec /\ NS!Spec

\* The leads at least as far as each stage of Crm.
Notified(rows) == {notifications[n].lead : n \in rows}

Reached == <<
  {l \in Leads : leads[l] # "none"},
  L!Announced,
  {l \in Leads : leads[l] = "converted"},
  {events[k].lead : k \in 1..Len(events)},
  Notified(1..Len(notifications)),
  Notified(announced),
  Notified(pushed)
>>

Abstract == INSTANCE Crm WITH reached <- Reached

\* Over all retries, redeliveries and crashes a lead passes the stages in order.
ImplementsCrm == Abstract!Spec

\* The ways a lead can end without a websocket message: a message about it took
\* the dead letter path of one of the services, or it has its customer, nobody is
\* about to publish customer.created, and there is no such record.
DeadLettered(l) ==
  \/ \E o \in dlq \cup dropped : topic[o] = l
  \/ \E o \in nDlq \cup nDropped : events[o].lead = l

NeverTold(l) ==
  /\ leads[l] = "converted"
  /\ \A k \in 1..Len(events) : events[k].lead # l
  /\ \A r \in Converters : stage[r] = "publish" => \A c \in insert[r] : c.lead # l

\* What the end of the way is, without fairness: when both groups have committed all
\* of their topics and no event is being published, nothing is left to be done for an
\* announced lead that has not ended in one of these ways.
CaughtUp ==
  /\ committed = Len(topic) /\ nCommitted = Len(events)
  /\ \A r \in Converters : stage[r] # "publish"

NobodyForgotten ==
  CaughtUp =>
    \A l \in L!Announced : l \in Notified(pushed) \/ DeadLettered(l) \/ NeverTold(l)

\* From the client's request to the websocket: an announced lead is pushed to
\* the gateways in the end, or ends in one of these ways.
ReachesTheUser ==
  \A l \in Leads :
    l \in L!Announced ~> l \in Notified(pushed) \/ DeadLettered(l) \/ NeverTold(l)
=============================================================================
