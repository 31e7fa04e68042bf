------------------------- MODULE NotificationService -------------------------
(***************************************************************************)
(* services/notification-service: the handler of customer.created inside   *)
(* the consumer loop.  CreateFromCustomer stores a notification under a    *)
(* new id, publishes notification.created, and publishes the websocket     *)
(* event on the Redis channel crm.notifications, in this order.            *)
(*                                                                         *)
(* Nothing recognises a customer that was notified before: every attempt   *)
(* that gets past the INSERT leaves a row, so a retry or a redelivery      *)
(* duplicates the notification.  The module bounds how often.              *)
(*                                                                         *)
(* A notification's id is its position in the table.  PostgreSQL and Redis *)
(* are external: a call may take effect although it returns an error, and  *)
(* the Redis client repeats a PUBLISH of its own accord, so that pushed    *)
(* says which events were sent, not how many times.                        *)
(***************************************************************************)
EXTENDS Producer, FiniteSets

CONSTANTS
  Replicas, HandlerAttempts, MaxTopic, MaxChurn,  (* as in Consumer        *)
  Customers,  (* customers named by customer.created events                *)
  NotJson     (* a record that is not JSON                                 *)

ASSUME NotificationAssumption ==
  /\ IsFiniteSet(Replicas)
  /\ NotJson \notin Customers
  /\ HandlerAttempts \in Nat \ {0}
  /\ MaxTopic \in Nat
  /\ MaxChurn \in Nat

VARIABLES
  topic, committed, reader, churn, position, pc, msg, attempt, tries,
  handled, dlq, dropped,
  stage,          (* how far the handler attempt of each replica is        *)
  row,            (* id of the notification in hand, or 0                  *)
  sends,          (* attempt of the notification.created PublishJSON, or 0 *)
  notifications,  (* the table: the customer of each row                   *)
  announced,      (* ids with a record in notification.created             *)
  pushed          (* ids published on the Redis channel                    *)

C == INSTANCE Consumer WITH Messages <- Customers \cup {NotJson}, Malformed <- {NotJson}

consumerVars == <<topic, committed, reader, churn, position, pc, msg, attempt,
                  tries, handled, dlq, dropped>>
handlerVars == <<stage, row, sends>>
storeVars == <<notifications, announced, pushed>>
vars == <<consumerVars, handlerVars, storeVars>>

Init ==
  /\ C!Init
  /\ stage = [r \in Replicas |-> "decode"]
  /\ row = [r \in Replicas |-> 0]
  /\ sends = [r \in Replicas |-> 0]
  /\ notifications = <<>>
  /\ announced = {} /\ pushed = {}

-----------------------------------------------------------------------------
(* HandleCustomerCreated and CreateFromCustomer *)

Handling(r, s, customer) ==
  /\ pc[r] = "handle"
  /\ stage[r] = s
  /\ customer = topic[msg[r]]

\* The handler returned: the next attempt starts over.
Return(r) ==
  /\ stage' = [stage EXCEPT ![r] = "decode"]
  /\ row' = [row EXCEPT ![r] = 0]
  /\ sends' = [sends EXCEPT ![r] = 0]

DecodeFail(r) ==
  /\ Handling(r, "decode", NotJson)
  /\ C!HandlerFail(r)
  /\ UNCHANGED <<handlerVars, storeVars>>

\* INSERT INTO notifications, in a transaction of its own.
Create(r) ==
  /\ \E c \in Customers :
       Handling(r, "decode", c) /\ notifications' = Append(notifications, c)
  /\ row' = [row EXCEPT ![r] = Len(notifications) + 1]
  /\ stage' = [stage EXCEPT ![r] = "publish"]
  /\ sends' = [sends EXCEPT ![r] = 1]
  /\ UNCHANGED <<consumerVars, announced, pushed>>

\* The INSERT returned an error, with or without effect.
CreateFail(r) ==
  /\ \E c \in Customers :
       /\ Handling(r, "decode", c)
       /\ notifications' \in {notifications, Append(notifications, c)}
  /\ C!HandlerFail(r)
  /\ UNCHANGED <<handlerVars, announced, pushed>>

\* Mutant of Publish: the error of the publisher is not returned.
PublishErrorIgnored(r) ==
  /\ \E c \in Customers : Handling(r, "publish", c)
  /\ \E w \in WriteOutcomes :
       /\ announced' = IF w.copies > 0 THEN announced \cup {row[r]} ELSE announced
       /\ \/ /\ w.acked \/ GivesUp(w, sends[r])
             /\ stage' = [stage EXCEPT ![r] = "push"]
             /\ sends' = [sends EXCEPT ![r] = 0]
             /\ UNCHANGED <<consumerVars, row>>
          \/ /\ TriesAgain(w, sends[r])
             /\ sends' = [sends EXCEPT ![r] = @ + 1]
             /\ UNCHANGED <<consumerVars, stage, row>>
  /\ UNCHANGED <<notifications, pushed>>

\* One attempt of PublishJSON to notification.created.
Publish(r) ==
  /\ \E c \in Customers : Handling(r, "publish", c)
  /\ \E w \in WriteOutcomes :
       /\ announced' = IF w.copies > 0 THEN announced \cup {row[r]} ELSE announced
       /\ \/ /\ w.acked
             /\ stage' = [stage EXCEPT ![r] = "push"]
             /\ sends' = [sends EXCEPT ![r] = 0]
             /\ UNCHANGED <<consumerVars, row>>
          \/ GivesUp(w, sends[r]) /\ C!HandlerFail(r) /\ Return(r)
          \/ /\ TriesAgain(w, sends[r])
             /\ sends' = [sends EXCEPT ![r] = @ + 1]
             /\ UNCHANGED <<consumerVars, stage, row>>
  /\ UNCHANGED <<notifications, pushed>>

\* PUBLISH on the Redis channel returned a count of receivers.
Push(r) ==
  /\ \E c \in Customers : Handling(r, "push", c)
  /\ pushed' = pushed \cup {row[r]}
  /\ C!HandlerOk(r)
  /\ Return(r)
  /\ UNCHANGED <<notifications, announced>>

\* Mutant of PushFail: Redis is treated as best effort.
PushErrorIgnored(r) ==
  /\ \E c \in Customers : Handling(r, "push", c)
  /\ pushed' \in {pushed, pushed \cup {row[r]}}
  /\ C!HandlerOk(r)
  /\ Return(r)
  /\ UNCHANGED <<notifications, announced>>

\* PUBLISH returned an error, with or without effect.
PushFail(r) ==
  /\ \E c \in Customers : Handling(r, "push", c)
  /\ pushed' \in {pushed, pushed \cup {row[r]}}
  /\ C!HandlerFail(r)
  /\ Return(r)
  /\ UNCHANGED <<notifications, announced>>

-----------------------------------------------------------------------------
(* The rest of the loop *)

Fetch(r) == C!Fetch(r) /\ UNCHANGED <<handlerVars, storeVars>>
DeadLetter(r) == C!DeadLetter(r) /\ UNCHANGED <<handlerVars, storeVars>>

Commit(r) == C!Commit(r) /\ UNCHANGED <<handlerVars, storeVars>>

\* The process dies; an INSERT it had sent may still take effect.
Crash(r) ==
  /\ C!Crash(r)
  /\ Return(r)
  /\ \/ UNCHANGED notifications
     \/ \E c \in Customers :
          Handling(r, "decode", c) /\ notifications' = Append(notifications, c)
  /\ UNCHANGED <<announced, pushed>>

Environment ==
  /\ \/ \E m \in Customers \cup {NotJson} : C!Produce(m)
     \/ \E r \in Replicas : C!Assign(r) \/ C!Revoke(r) \/ C!Discard(r)
  /\ UNCHANGED <<handlerVars, storeVars>>

Handler(r) ==
  \/ DecodeFail(r) \/ Create(r) \/ CreateFail(r)
  \/ Publish(r) \/ Push(r) \/ PushFail(r)

Loop(r) == Fetch(r) \/ Handler(r) \/ DeadLetter(r) \/ Commit(r)

Next ==
  \/ Environment
  \/ \E r \in Replicas : Loop(r) \/ Crash(r)

Spec == Init /\ [][Next]_vars

-----------------------------------------------------------------------------
(* Properties *)

RowsOf(c) == {n \in 1..Len(notifications) : notifications[n] = c}
RecordsOf(c) == {o \in 1..Len(topic) : topic[o] = c}

TypeOK ==
  /\ C!TypeOK
  /\ stage \in [Replicas -> {"decode", "publish", "push"}]
  /\ notifications \in Seq(Customers)
  /\ row \in [Replicas -> 0..Len(notifications)]
  /\ sends \in [Replicas -> 0..PublishAttempts]
  /\ announced \subseteq 1..Len(notifications)
  /\ pushed \subseteq 1..Len(notifications)

\* A websocket event is only pushed for a stored notification whose
\* notification.created event is in the topic.
PushedMeansAnnounced == pushed \subseteq announced

\* A committed customer.created event was pushed to the gateways at least once,
\* unless its message took the dead letter path.
CommittedMeansPushed ==
  \A o \in 1..committed :
    topic[o] \in Customers =>
      \/ o \in dlq \cup dropped
      \/ RowsOf(topic[o]) \cap pushed # {}

\* What makes these inductive: the row in hand is one for the message in hand, it
\* is announced before it is pushed, and a handled message has a pushed row.
InProgressAt(r) ==
  /\ stage[r] = "decode" => row[r] = 0 /\ sends[r] = 0
  /\ stage[r] # "decode" => pc[r] = "handle" /\ row[r] \in RowsOf(topic[msg[r]])
  /\ stage[r] = "push" => row[r] \in announced

InProgress == \A r \in Replicas : InProgressAt(r)

HandledMeansPushed ==
  \A o \in handled : topic[o] \in Customers => RowsOf(topic[o]) \cap pushed # {}

HandlerInv ==
  /\ TypeOK /\ C!IInv
  /\ InProgress /\ PushedMeansAnnounced /\ HandledMeansPushed

\* Duplicates are bounded: a record leaves at most one notification per attempt,
\* and it is handed out anew only after a rebalance or a crash.
BoundedDuplicates ==
  \A c \in Customers :
    Cardinality(RowsOf(c)) <= HandlerAttempts * (churn + 1) * Cardinality(RecordsOf(c))

\* What makes it inductive: the rows, the attempts a replica has left for the record
\* in hand, and those for the records its reader is still to hand out were all paid
\* for when the partition was given to it.
Held == {r \in Replicas : reader[r] # "none"}
Passes == churn + (IF \E r \in Replicas : reader[r] = "assigned" THEN 1 ELSE 0)

AttemptsLeft(c) ==
  {x \in Replicas \X (1..HandlerAttempts) :
     /\ pc[x[1]] = "handle" /\ topic[msg[x[1]]] = c
     /\ attempt[x[1]] < x[2] \/ (attempt[x[1]] = x[2] /\ stage[x[1]] = "decode")}

RecordsLeft(c) == {x \in Held \X RecordsOf(c) : position[x[1]] < x[2]}

Accounted ==
  /\ \A r \in Replicas : pc[r] = "handle" => attempt[r] # 0
  /\ Cardinality(Held) <= Passes
  /\ \A c \in Customers :
       Cardinality(RowsOf(c)) + Cardinality(AttemptsLeft(c))
         + HandlerAttempts * Cardinality(RecordsLeft(c))
       <= HandlerAttempts * (Passes * Cardinality(RecordsOf(c)))

IInv == HandlerInv /\ Accounted
=============================================================================
