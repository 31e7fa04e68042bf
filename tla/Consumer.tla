------------------------------ MODULE Consumer ------------------------------
(***************************************************************************)
(* internal/kafka/consumer.go: a consumer group of replicas of one service *)
(* reading a topic of one partition.  Each replica runs Run: fetch a       *)
(* message, call the handler up to HandlerAttempts times, publish the      *)
(* message to the dead letter topic when every attempt failed, and commit  *)
(* its offset whatever the outcome was.                                    *)
(*                                                                         *)
(* The handler is opaque here: an attempt returns nil or an error.  The    *)
(* services compose this module with what their handlers do.               *)
(*                                                                         *)
(* The broker and the reader of the client library are external.  A        *)
(* rebalance takes the partition from its reader, but the replica goes on  *)
(* with the message in hand and may be handed further buffered messages,   *)
(* and a late commit of such a replica may be stored or refused.           *)
(*                                                                         *)
(* Offsets are positions in the topic, from 1; the committed offset is the *)
(* last position committed, 0 at first (StartOffset: FirstOffset).         *)
(***************************************************************************)
EXTENDS Producer

CONSTANTS
  Replicas,         (* processes of the service, one group member each     *)
  Messages,         (* values of the topic's records                       *)
  Malformed,        (* the values that are not JSON                        *)
  HandlerAttempts,  (* attempts of handleWithRetry; 3 in the code          *)
  MaxTopic,         (* bound: records ever produced to the topic           *)
  MaxChurn          (* bound: rebalances and crashes                       *)

ASSUME ConsumerAssumption ==
  /\ Malformed \subseteq Messages
  /\ HandlerAttempts \in Nat \ {0}
  /\ MaxTopic \in Nat
  /\ MaxChurn \in Nat

VARIABLES
  topic,      (* the records of the partition                              *)
  committed,  (* the group's committed offset                              *)
  reader,     (* each reader: has no partition, has it, or has lost it but *)
              (* still holds buffered messages                             *)
  position,   (* offset of the last message each reader handed out         *)
  pc,         (* where each replica is in Run                              *)
  msg,        (* offset of the message in hand, 0 when there is none       *)
  attempt,    (* attempt of handleWithRetry, 0 outside of it               *)
  tries,      (* attempt of the dead letter PublishJSON, 0 outside of it   *)
  handled,    (* history: offsets some handler call returned nil for       *)
  dlq,        (* offsets with a record in the dead letter topic            *)
  dropped,    (* history: offsets whose dead letter publish returned error *)
  churn       (* rebalances and crashes so far                             *)

brokerVars == <<topic, committed, reader, churn>>
loopVars == <<position, pc, msg, attempt, tries>>
outcomeVars == <<handled, dlq, dropped>>
vars == <<brokerVars, loopVars, outcomeVars>>

Offsets == 1..Len(topic)
Settled == handled \cup dlq \cup dropped

Init ==
  /\ topic = <<>>
  /\ committed = 0
  /\ reader = [r \in Replicas |-> "none"]
  /\ position = [r \in Replicas |-> 0]
  /\ pc = [r \in Replicas |-> "fetch"]
  /\ msg = [r \in Replicas |-> 0]
  /\ attempt = [r \in Replicas |-> 0]
  /\ tries = [r \in Replicas |-> 0]
  /\ handled = {} /\ dlq = {} /\ dropped = {}
  /\ churn = 0

-----------------------------------------------------------------------------
(* The broker *)

\* One write of the service that produces to the topic.
Produce(m) ==
  /\ \E w \in WriteOutcomes :
       /\ Len(topic) + w.copies <= MaxTopic
       /\ topic' = Stored(topic, m, w)
  /\ UNCHANGED <<committed, reader, churn, loopVars, outcomeVars>>

\* Mutants of Assign: a reader that starts at the end of the topic (LastOffset),
\* and a coordinator that lets two readers share the partition.
AssignFromEnd(r) ==
  /\ \A q \in Replicas : reader[q] # "assigned"
  /\ reader' = [reader EXCEPT ![r] = "assigned"]
  /\ position' = [position EXCEPT ![r] = IF committed = 0 THEN Len(topic) ELSE committed]
  /\ UNCHANGED <<topic, committed, churn, pc, msg, attempt, tries, outcomeVars>>

AssignShared(r) ==
  /\ reader[r] = "none"
  /\ reader' = [reader EXCEPT ![r] = "assigned"]
  /\ position' = [position EXCEPT ![r] = committed]
  /\ UNCHANGED <<topic, committed, churn, pc, msg, attempt, tries, outcomeVars>>

\* The partition is given to r, which reads on from the committed offset.
Assign(r) ==
  /\ \A q \in Replicas : reader[q] # "assigned"
  /\ reader' = [reader EXCEPT ![r] = "assigned"]
  /\ position' = [position EXCEPT ![r] = committed]
  /\ UNCHANGED <<topic, committed, churn, pc, msg, attempt, tries, outcomeVars>>

\* A rebalance takes the partition away; what the reader buffered stays.
Revoke(r) ==
  /\ churn < MaxChurn
  /\ reader[r] = "assigned"
  /\ reader' = [reader EXCEPT ![r] = "revoked"]
  /\ churn' = churn + 1
  /\ UNCHANGED <<topic, committed, loopVars, outcomeVars>>

\* The next generation reaches the reader, which skips what it had buffered.
Discard(r) ==
  /\ reader[r] = "revoked"
  /\ reader' = [reader EXCEPT ![r] = "none"]
  /\ UNCHANGED <<topic, committed, churn, loopVars, outcomeVars>>

-----------------------------------------------------------------------------
(* Run and handleWithRetry *)

Goto(r, label) == pc' = [pc EXCEPT ![r] = label]

Fetch(r) ==
  /\ pc[r] = "fetch"
  /\ reader[r] # "none"
  /\ position[r] < Len(topic)
  /\ position' = [position EXCEPT ![r] = @ + 1]
  /\ msg' = [msg EXCEPT ![r] = position[r] + 1]
  /\ attempt' = [attempt EXCEPT ![r] = 1]
  /\ Goto(r, "handle")
  /\ UNCHANGED <<brokerVars, tries, outcomeVars>>

HandlerOk(r) ==
  /\ pc[r] = "handle"
  /\ handled' = handled \cup {msg[r]}
  /\ Goto(r, "commit")
  /\ UNCHANGED <<brokerVars, position, msg, attempt, tries, dlq, dropped>>

\* Mutant of HandlerFail: one attempt too many.
HandlerFailOffByOne(r) ==
  /\ pc[r] = "handle"
  /\ \/ /\ attempt[r] <= HandlerAttempts
        /\ attempt' = [attempt EXCEPT ![r] = @ + 1]
        /\ UNCHANGED <<pc, tries>>
     \/ /\ attempt[r] > HandlerAttempts
        /\ Goto(r, "deadletter")
        /\ tries' = [tries EXCEPT ![r] = 1]
        /\ UNCHANGED attempt
  /\ UNCHANGED <<brokerVars, position, msg, outcomeVars>>

\* The handler returned an error: the next attempt follows after the wait, and
\* the dead letter publish after the last one.
HandlerFail(r) ==
  /\ pc[r] = "handle"
  /\ \/ /\ attempt[r] < HandlerAttempts
        /\ attempt' = [attempt EXCEPT ![r] = @ + 1]
        /\ UNCHANGED <<pc, tries>>
     \/ /\ attempt[r] >= HandlerAttempts
        /\ Goto(r, "deadletter")
        /\ tries' = [tries EXCEPT ![r] = 1]
        /\ UNCHANGED attempt
  /\ UNCHANGED <<brokerVars, position, msg, outcomeVars>>

\* json.Marshal of the dead letter record fails: its payload field is the raw
\* value of the message, which json.Marshal checks.
DlqMarshalFail(r) ==
  /\ pc[r] = "deadletter"
  /\ topic[msg[r]] \in Malformed
  /\ dropped' = dropped \cup {msg[r]}
  /\ Goto(r, "commit")
  /\ UNCHANGED <<brokerVars, position, msg, attempt, tries, handled, dlq>>

\* One attempt of PublishJSON to the dead letter topic.  When the last attempt
\* fails the error is logged and the message is given up.
DlqPublish(r) ==
  /\ pc[r] = "deadletter"
  /\ topic[msg[r]] \notin Malformed
  /\ \E w \in WriteOutcomes :
       /\ dlq' = IF w.copies > 0 THEN dlq \cup {msg[r]} ELSE dlq
       /\ dropped' = IF GivesUp(w, tries[r]) THEN dropped \cup {msg[r]} ELSE dropped
       /\ IF TriesAgain(w, tries[r])
          THEN tries' = [tries EXCEPT ![r] = @ + 1] /\ UNCHANGED pc
          ELSE Goto(r, "commit") /\ UNCHANGED tries
  /\ UNCHANGED <<brokerVars, position, msg, attempt, handled>>

\* Mutant of Commit: after a failed commit the message is fetched again.
CommitOrRefetch(r) ==
  /\ pc[r] = "commit"
  /\ \/ committed' = msg[r] /\ UNCHANGED position
     \/ UNCHANGED committed /\ position' = [position EXCEPT ![r] = msg[r] - 1]
  /\ Goto(r, "fetch")
  /\ msg' = [msg EXCEPT ![r] = 0]
  /\ attempt' = [attempt EXCEPT ![r] = 0]
  /\ tries' = [tries EXCEPT ![r] = 0]
  /\ UNCHANGED <<topic, reader, churn, outcomeVars>>

\* CommitMessages.  Its error is logged and the loop goes on to the next
\* message, so only whether the broker stored the offset matters.
Commit(r) ==
  /\ pc[r] = "commit"
  /\ committed' \in {committed, msg[r]}
  /\ Goto(r, "fetch")
  /\ msg' = [msg EXCEPT ![r] = 0]
  /\ attempt' = [attempt EXCEPT ![r] = 0]
  /\ tries' = [tries EXCEPT ![r] = 0]
  /\ UNCHANGED <<topic, reader, churn, position, outcomeVars>>

\* The process dies and is started again with no partition.
Crash(r) ==
  /\ churn < MaxChurn
  /\ churn' = churn + 1
  /\ reader' = [reader EXCEPT ![r] = "none"]
  /\ position' = [position EXCEPT ![r] = 0]
  /\ Goto(r, "fetch")
  /\ msg' = [msg EXCEPT ![r] = 0]
  /\ attempt' = [attempt EXCEPT ![r] = 0]
  /\ tries' = [tries EXCEPT ![r] = 0]
  /\ UNCHANGED <<topic, committed, outcomeVars>>

Handle(r) == HandlerOk(r) \/ HandlerFail(r)
DeadLetter(r) == DlqMarshalFail(r) \/ DlqPublish(r)
Loop(r) == Fetch(r) \/ Handle(r) \/ DeadLetter(r) \/ Commit(r)

Next ==
  \/ \E m \in Messages : Produce(m)
  \/ \E r \in Replicas :
       \/ Assign(r) \/ Revoke(r) \/ Discard(r)
       \/ Loop(r)
       \/ Crash(r)

Spec == Init /\ [][Next]_vars

-----------------------------------------------------------------------------
(* Properties *)

TypeOK ==
  /\ topic \in Seq(Messages)
  /\ committed \in 0..Len(topic)
  /\ reader \in [Replicas -> {"none", "assigned", "revoked"}]
  /\ position \in [Replicas -> 0..Len(topic)]
  /\ pc \in [Replicas -> {"fetch", "handle", "deadletter", "commit"}]
  /\ msg \in [Replicas -> 0..Len(topic)]
  /\ attempt \in [Replicas -> 0..HandlerAttempts]
  /\ tries \in [Replicas -> 0..PublishAttempts]
  /\ handled \subseteq Offsets /\ dlq \subseteq Offsets /\ dropped \subseteq Offsets
  /\ churn \in 0..MaxChurn

\* At least once: the committed offset never passes a message that no replica
\* has carried to the end of handleWithRetry, whatever crashes, rebalances,
\* lost commits and late commits of revoked replicas happen on the way.
NothingSkipped == \A o \in 1..committed : o \in Settled

\* What makes NothingSkipped inductive: a replica holds a message exactly while
\* it is inside the loop body, has carried everything it was handed before that
\* message to the end, and commits only what is settled.
InHand ==
  \A r \in Replicas : msg[r] # 0 <=> pc[r] # "fetch"

CarriedBy(r) ==
  /\ \A o \in 1..position[r] : o \in Settled \/ o = msg[r]
  /\ \A o \in 1..msg[r] : o \in Settled \/ o = msg[r]
  /\ pc[r] = "commit" => msg[r] \in Settled

Carried == \A r \in Replicas : CarriedBy(r)

\* Before the first rebalance or crash one reader does all the work, and what is
\* settled or committed lies behind its position.
Calm ==
  churn = 0 =>
    /\ \A r \in Replicas : reader[r] # "revoked"
    /\ \A q, r \in Replicas : reader[q] = "assigned" /\ reader[r] = "assigned" => q = r
    /\ \A r \in Replicas : reader[r] = "none" => pc[r] = "fetch"
    /\ \A r \in Replicas :
         reader[r] = "assigned" =>
           /\ committed <= position[r]
           /\ Settled \subseteq 1..position[r]
           /\ pc[r] # "fetch" => msg[r] = position[r]
    /\ (\A r \in Replicas : reader[r] = "none") => committed = 0 /\ Settled = {}

IInv == TypeOK /\ InHand /\ Carried /\ NothingSkipped /\ Calm

\* Lost commits alone never bring a message back: as long as there is no
\* rebalance and no crash, a replica only takes up messages that are not settled.
NoRedeliveryInCalm ==
  [][churn = 0 => \A r \in Replicas : msg'[r] # msg[r] => msg'[r] \notin Settled]_vars

\* Without a rebalance or a crash the committed offset only moves forward; a
\* late commit of a revoked replica is the only way to move it back.
CommitRegressesOnlyAfterChurn ==
  [][committed' < committed => churn > 0]_vars

\* docs/events.md: "Processing failures are retried three times and then moved
\* to a DLQ topic with the source payload and error metadata."  A message that
\* is committed was handled or is in the dead letter topic.
FailuresReachDlq ==
  \A o \in 1..committed : topic[o] \notin Malformed => o \in handled \cup dlq

\* The same sentence for a message that is not JSON.
MalformedReachDlq ==
  \A o \in 1..committed : topic[o] \in Malformed => o \in handled \cup dlq
=============================================================================
