--------------------------- MODULE CustomerService ---------------------------
(***************************************************************************)
(* services/customer-service: the handler of lead.created inside the       *)
(* consumer loop.  HandleLeadCreated decodes the event, CreateFromLead     *)
(* inserts the customer and marks the lead converted in one transaction,   *)
(* and, only if this call created the customer, publishes customer.created.*)
(*                                                                         *)
(* The loop is the module Consumer; this module says what happens between  *)
(* the start of a handler attempt and its result.  It is written on the    *)
(* actions of Consumer, with the same variables: every handler attempt     *)
(* ends in an action below.                                                *)
(*                                                                         *)
(* PostgreSQL is external: an INSERT ... ON CONFLICT DO NOTHING waits for  *)
(* another transaction that has inserted the same lead_id, a transaction   *)
(* whose client failed is rolled back, and a COMMIT may take effect        *)
(* although its client sees an error or is gone.                           *)
(***************************************************************************)
EXTENDS Producer, FiniteSets

CONSTANTS
  Replicas, HandlerAttempts, MaxTopic, MaxChurn,  (* as in Consumer        *)
  Leads,      (* leads with a row in the leads table                       *)
  NotJson,    (* a record of lead.created that is not JSON                 *)
  Ids         (* customer ids, one for each uuid.NewString() that matters  *)

ASSUME CustomerAssumption ==
  /\ NotJson \notin Leads
  /\ HandlerAttempts \in Nat \ {0}
  /\ MaxTopic \in Nat
  /\ MaxChurn \in Nat

VARIABLES
  topic, committed, reader, churn, position, pc, msg, attempt, tries,
  handled, dlq, dropped,
  stage,      (* how far the handler attempt of each replica is            *)
  insert,     (* the uncommitted row of each replica's transaction, or {}  *)
  sends,      (* attempt of the customer.created PublishJSON, or 0         *)
  customers,  (* committed rows of the customers table                     *)
  converted,  (* leads whose committed row has status 'converted'          *)
  events      (* the customer.created topic                                *)

C == INSTANCE Consumer WITH Messages <- Leads \cup {NotJson}, Malformed <- {NotJson}

consumerVars == <<topic, committed, reader, churn, position, pc, msg, attempt,
                  tries, handled, dlq, dropped>>
handlerVars == <<stage, insert, sends>>
storeVars == <<customers, converted, events>>
vars == <<consumerVars, handlerVars, storeVars>>

Customer == [id : Ids, lead : Leads]
LeadsOf(rows) == {c.lead : c \in rows}

Init ==
  /\ C!Init
  /\ stage = [r \in Replicas |-> "decode"]
  /\ insert = [r \in Replicas |-> {}]
  /\ sends = [r \in Replicas |-> 0]
  /\ customers = {} /\ converted = {}
  /\ events = <<>>

-----------------------------------------------------------------------------
(* HandleLeadCreated and CreateFromLead *)

\* The lead of the event in hand, while the handler is at the given stage.
Handling(r, s, lead) ==
  /\ pc[r] = "handle"
  /\ stage[r] = s
  /\ lead = topic[msg[r]]

\* The handler returned: the next attempt starts over.
Return(r) ==
  /\ stage' = [stage EXCEPT ![r] = "decode"]
  /\ insert' = [insert EXCEPT ![r] = {}]
  /\ sends' = [sends EXCEPT ![r] = 0]

DecodeFail(r) ==
  /\ Handling(r, "decode", NotJson)
  /\ C!HandlerFail(r)
  /\ UNCHANGED <<handlerVars, storeVars>>

\* A uuid no row has, committed or not.
FreshId(i) == i \notin {c.id : c \in customers \cup UNION {insert[r] : r \in Replicas}}

\* Another transaction holds the unique index entry of the lead.
Locked(lead) == \E q \in Replicas : lead \in LeadsOf(insert[q])

\* Mutants of Insert: no unique index on lead_id, so that nothing is waited
\* for; and an UPDATE leads run outside of the transaction.
InsertUnlocked(r) ==
  \E lead \in Leads \ LeadsOf(customers), i \in Ids :
    /\ Handling(r, "decode", lead)
    /\ FreshId(i)
    /\ insert' = [insert EXCEPT ![r] = {[id |-> i, lead |-> lead]}]
    /\ stage' = [stage EXCEPT ![r] = "commit"]
    /\ UNCHANGED <<consumerVars, sends, storeVars>>

InsertUpdateOutside(r) ==
  \E lead \in Leads \ LeadsOf(customers), i \in Ids :
    /\ Handling(r, "decode", lead)
    /\ ~Locked(lead)
    /\ FreshId(i)
    /\ insert' = [insert EXCEPT ![r] = {[id |-> i, lead |-> lead]}]
    /\ stage' = [stage EXCEPT ![r] = "commit"]
    /\ converted' = converted \cup {lead}
    /\ UNCHANGED <<consumerVars, sends, customers, events>>

\* INSERT stored a row and UPDATE leads ran: both wait for COMMIT.
Insert(r) ==
  \E lead \in Leads \ LeadsOf(customers), i \in Ids :
    /\ Handling(r, "decode", lead)
    /\ ~Locked(lead)
    /\ FreshId(i)
    /\ insert' = [insert EXCEPT ![r] = {[id |-> i, lead |-> lead]}]
    /\ stage' = [stage EXCEPT ![r] = "commit"]
    /\ UNCHANGED <<consumerVars, sends, storeVars>>

\* Mutant of AlreadyConverted: created is ignored and the event published anew.
AlreadyConvertedPublish(r) ==
  \E lead \in LeadsOf(customers) :
    /\ Handling(r, "decode", lead)
    /\ insert' = [insert EXCEPT ![r] = {c \in customers : c.lead = lead}]
    /\ stage' = [stage EXCEPT ![r] = "publish"]
    /\ sends' = [sends EXCEPT ![r] = 1]
    /\ UNCHANGED <<consumerVars, storeVars>>

\* The lead has a customer: the row is read back, the transaction committed,
\* and CreateFromLead returns without publishing.
AlreadyConverted(r) ==
  /\ \E lead \in LeadsOf(customers) : Handling(r, "decode", lead)
  /\ C!HandlerOk(r)
  /\ UNCHANGED <<handlerVars, storeVars>>

\* Mutants of DbFail: the error of the repository is not returned; and the
\* transaction is left open, without the deferred Rollback.
DbFailIgnored(r) ==
  /\ \E lead \in Leads, s \in {"decode", "commit"} : Handling(r, s, lead)
  /\ C!HandlerOk(r)
  /\ Return(r)
  /\ UNCHANGED storeVars

DbFailNoRollback(r) ==
  /\ \E lead \in Leads, s \in {"decode", "commit"} : Handling(r, s, lead)
  /\ C!HandlerFail(r)
  /\ stage' = [stage EXCEPT ![r] = "decode"]
  /\ UNCHANGED <<insert, sends, storeVars>>

\* Begin, a statement or COMMIT failed, and the transaction was rolled back.
DbFail(r) ==
  /\ \E lead \in Leads, s \in {"decode", "commit"} : Handling(r, s, lead)
  /\ C!HandlerFail(r)
  /\ Return(r)
  /\ UNCHANGED storeVars

CommitRow(r) ==
  /\ customers' = customers \cup insert[r]
  /\ converted' = converted \cup LeadsOf(insert[r])

\* Mutant of CommitTx: COMMIT is forgotten and the deferred Rollback undoes it all.
CommitForgotten(r) ==
  /\ \E lead \in Leads : Handling(r, "commit", lead)
  /\ stage' = [stage EXCEPT ![r] = "publish"]
  /\ sends' = [sends EXCEPT ![r] = 1]
  /\ UNCHANGED <<consumerVars, insert, storeVars>>

\* COMMIT succeeded: customer.created is next.  The row stays in insert as the
\* local variable customer.
CommitTx(r) ==
  /\ \E lead \in Leads : Handling(r, "commit", lead)
  /\ CommitRow(r)
  /\ stage' = [stage EXCEPT ![r] = "publish"]
  /\ sends' = [sends EXCEPT ![r] = 1]
  /\ UNCHANGED <<consumerVars, insert, events>>

\* COMMIT took effect, but its answer was lost.
CommitTxLost(r) ==
  /\ \E lead \in Leads : Handling(r, "commit", lead)
  /\ CommitRow(r)
  /\ C!HandlerFail(r)
  /\ Return(r)
  /\ UNCHANGED events

\* One attempt of PublishJSON to customer.created.
Publish(r) ==
  /\ \E lead \in Leads : Handling(r, "publish", lead)
  /\ \E w \in WriteOutcomes, c \in insert[r] :
       /\ events' = Stored(events, c, w)
       /\ \/ w.acked /\ C!HandlerOk(r) /\ Return(r)
          \/ GivesUp(w, sends[r]) /\ C!HandlerFail(r) /\ Return(r)
          \/ /\ TriesAgain(w, sends[r])
             /\ sends' = [sends EXCEPT ![r] = @ + 1]
             /\ UNCHANGED <<consumerVars, stage, insert>>
  /\ UNCHANGED <<customers, converted>>

-----------------------------------------------------------------------------
(* The rest of the loop *)

\* Mutant of Fetch: ReadMessage, which commits the offset it hands out.
ReadMessage(r) ==
  /\ pc[r] = "fetch"
  /\ reader[r] # "none"
  /\ position[r] < Len(topic)
  /\ position' = [position EXCEPT ![r] = @ + 1]
  /\ msg' = [msg EXCEPT ![r] = position[r] + 1]
  /\ committed' = position[r] + 1
  /\ attempt' = [attempt EXCEPT ![r] = 1]
  /\ pc' = [pc EXCEPT ![r] = "handle"]
  /\ UNCHANGED <<topic, reader, churn, tries, handled, dlq, dropped, handlerVars, storeVars>>

Fetch(r) == C!Fetch(r) /\ UNCHANGED <<handlerVars, storeVars>>
DeadLetter(r) == C!DeadLetter(r) /\ UNCHANGED <<handlerVars, storeVars>>
Commit(r) == C!Commit(r) /\ UNCHANGED <<handlerVars, storeVars>>

\* The process dies.  A COMMIT it had sent may still take effect.
Crash(r) ==
  /\ C!Crash(r)
  /\ Return(r)
  /\ \/ UNCHANGED <<customers, converted>>
     \/ stage[r] = "commit" /\ CommitRow(r)
  /\ UNCHANGED events

Environment ==
  /\ \/ \E m \in Leads \cup {NotJson} : C!Produce(m)
     \/ \E r \in Replicas : C!Assign(r) \/ C!Revoke(r) \/ C!Discard(r)
  /\ UNCHANGED <<handlerVars, storeVars>>

Handler(r) ==
  \/ DecodeFail(r)
  \/ Insert(r) \/ AlreadyConverted(r) \/ DbFail(r)
  \/ CommitTx(r) \/ CommitTxLost(r)
  \/ Publish(r)

Loop(r) == Fetch(r) \/ Handler(r) \/ DeadLetter(r) \/ Commit(r)

Next ==
  \/ Environment
  \/ \E r \in Replicas : Loop(r) \/ Crash(r)

Spec == Init /\ [][Next]_vars

\* What a replica does without an error of PostgreSQL; disabled while its INSERT
\* waits for a lock.
Proceed(r) ==
  \/ Fetch(r) \/ DeadLetter(r) \/ Commit(r)
  \/ DecodeFail(r) \/ Insert(r) \/ AlreadyConverted(r) \/ CommitTx(r) \/ Publish(r)

-----------------------------------------------------------------------------
(* Properties *)

HandlerTypeOK ==
  /\ stage \in [Replicas -> {"decode", "commit", "publish"}]
  /\ insert \in [Replicas -> SUBSET Customer]
  /\ sends \in [Replicas -> 0..PublishAttempts]
  /\ customers \subseteq Customer
  /\ converted \subseteq Leads
  /\ events \in Seq(Customer)

TypeOK == C!TypeOK /\ HandlerTypeOK

\* A lead becomes at most one customer, whatever is delivered twice, to whom.
OneCustomerPerLead ==
  \A c, d \in customers : c.lead = d.lead => c = d

\* The status of a lead and its customer row change together.
ConvertedIffCustomer == converted = LeadsOf(customers)

\* customer.created is published only for a committed row, under its id; a
\* consumer of the event finds the customer.
EventNamesCustomer ==
  \A k \in 1..Len(events) : events[k] \in customers

EventsOf(lead) == {k \in 1..Len(events) : events[k].lead = lead}

\* Over all deliveries, replicas and crashes a single handler call publishes
\* for a lead: the copies of its event are those of one PublishJSON.
OneAnnouncementPerLead ==
  \A lead \in Leads : Cardinality(EventsOf(lead)) <= PublishAttempts * WriterCopies

\* A committed offset of a lead means a customer, or the dead letter path.
CommittedMeansConverted ==
  \A o \in 1..committed :
    topic[o] \in Leads => topic[o] \in converted \/ o \in dlq \cup dropped

\* What makes these inductive: a transaction or a publish in progress is about
\* the lead in hand, an uncommitted row is the only one of its lead, and the row
\* whose event is being published is committed.
InProgressAt(r) ==
  /\ stage[r] = "decode" => insert[r] = {}
  /\ stage[r] # "decode" =>
       /\ pc[r] = "handle"
       /\ \E i \in Ids, lead \in Leads :
            lead = topic[msg[r]] /\ insert[r] = {[id |-> i, lead |-> lead]}
  /\ stage[r] = "commit" => topic[msg[r]] \notin LeadsOf(customers)
  /\ stage[r] = "publish" => insert[r] \subseteq customers

InProgress == \A r \in Replicas : InProgressAt(r)

OneInserter ==
  \A q, r \in Replicas :
    stage[q] = "commit" /\ stage[r] = "commit" /\ topic[msg[q]] = topic[msg[r]] => q = r

HandledMeansCustomer ==
  \A o \in handled : topic[o] \in Leads => topic[o] \in LeadsOf(customers)

\* One replica at most is publishing for a lead, and its lead has the events of
\* the attempts it has made.
OneAnnouncer ==
  \A r \in Replicas :
    stage[r] = "publish" =>
      /\ sends[r] > 0
      /\ Cardinality(EventsOf(topic[msg[r]])) <= (sends[r] - 1) * WriterCopies
      /\ \A q \in Replicas :
           stage[q] = "publish" /\ topic[msg[q]] = topic[msg[r]] => q = r

IInv ==
  /\ C!IInv /\ HandlerTypeOK
  /\ InProgress /\ OneInserter /\ HandledMeansCustomer
  /\ OneCustomerPerLead /\ ConvertedIffCustomer /\ EventNamesCustomer
  /\ OneAnnouncer /\ OneAnnouncementPerLead

\* README.md: "customer-service consumes `lead.created`, creates a customer, and
\* publishes `customer.created`", and docs/events.md: failures are "moved to a
\* DLQ topic".  A committed lead is announced, or took the dead letter path.
AnnouncedOrDeadLettered ==
  \A o \in 1..committed :
    topic[o] \in Leads =>
      \/ o \in dlq \cup dropped
      \/ \E k \in 1..Len(events) : events[k].lead = topic[o]
=============================================================================
