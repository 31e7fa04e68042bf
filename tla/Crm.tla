--------------------------------- MODULE Crm ---------------------------------
(***************************************************************************)
(* What the services promise together, without topics, replicas, retries   *)
(* or crashes: a lead passes the stages below one after the other, skips   *)
(* none and never goes back.  Whether it reaches the last one is not       *)
(* promised here.                                                          *)
(***************************************************************************)
EXTENDS Naturals, Sequences

CONSTANT Leads

VARIABLE reached  (* for each stage, by its number, the leads that are past it *)

Stages == <<
  "stored",     \* a row in leads
  "announced",  \* a record in lead.created
  "converted",  \* a row in customers, and leads.status 'converted'
  "told",       \* a record in customer.created
  "notified",   \* a row in notifications
  "published",  \* a record in notification.created
  "pushed"      \* a message on the Redis channel of the gateways
>>

Init == reached = [s \in 1..Len(Stages) |-> {}]

Advance(s, l) ==
  /\ l \notin reached[s]
  /\ s > 1 => l \in reached[s - 1]
  /\ reached' = [reached EXCEPT ![s] = @ \cup {l}]

Next == \E s \in 1..Len(Stages), l \in Leads : Advance(s, l)

Spec == Init /\ [][Next]_reached
=============================================================================
