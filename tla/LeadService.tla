----------------------------- MODULE LeadService -----------------------------
(***************************************************************************)
(* services/lead-service: Create stores a lead, puts it in the Redis cache *)
(* and publishes lead.created; Get reads through the cache.  The requests  *)
(* run concurrently, in one process or in several, and each step of a      *)
(* request is one call to PostgreSQL, Redis or Kafka.                      *)
(*                                                                         *)
(* A lead is named by the request that creates it (uuid.NewString()); what *)
(* the properties tell apart of a lead is its status.  External: the       *)
(* conversion of the row by customer-service, the expiry of cache entries, *)
(* and calls that take effect although they return an error.               *)
(***************************************************************************)
EXTENDS Producer, FiniteSets

CONSTANTS
  Leads,    (* one for each Create request                                 *)
  Readers   (* each makes one Get request after the other                  *)

VARIABLES
  create,     (* where each Create request is, and how it was answered     *)
  sends,      (* attempt of the lead.created PublishJSON, or 0             *)
  leads,      (* status of each row of the leads table, "none" without one *)
  cache,      (* status in each cache entry, "none" without one            *)
  topic,      (* the records of lead.created: the lead each one names      *)
  get,        (* where each Get request is                                 *)
  target,     (* the lead each Get is, or was last, about                  *)
  found       (* status the Get has in hand, or last answered; "none" when *)
              (* it has not, and for 404 and 500                           *)

createVars == <<create, sends, topic>>
getVars == <<get, target, found>>
vars == <<createVars, getVars, leads, cache>>

Status == {"none", "new", "converted"}

\* The leads with a record in lead.created.
Announced == {topic[k] : k \in 1..Len(topic)}

Init ==
  /\ create = [l \in Leads |-> "start"]
  /\ sends = [l \in Leads |-> 0]
  /\ leads = [l \in Leads |-> "none"]
  /\ cache = [l \in Leads |-> "none"]
  /\ topic = <<>>
  /\ get = [g \in Readers |-> "idle"]
  /\ target \in [Readers -> Leads]
  /\ found = [g \in Readers |-> "none"]

\* SetLead: its error is ignored by both callers.
SetLead(l, status) == cache' \in {cache, [cache EXCEPT ![l] = status]}

-----------------------------------------------------------------------------
(* Create *)

Answer(l, result) == create' = [create EXCEPT ![l] = result]

\* No name or no email, or no X-User-ID header.
Reject(l) ==
  /\ create[l] = "start"
  /\ Answer(l, "rejected")
  /\ UNCHANGED <<sends, topic, leads, cache, getVars>>

Insert(l) ==
  /\ create[l] = "start"
  /\ leads' = [leads EXCEPT ![l] = "new"]
  /\ Answer(l, "cache")
  /\ UNCHANGED <<sends, topic, cache, getVars>>

\* Mutant of InsertFail: the error of the repository is not returned.
InsertErrorIgnored(l) ==
  /\ create[l] = "start"
  /\ leads' \in {leads, [leads EXCEPT ![l] = "new"]}
  /\ Answer(l, "cache")
  /\ UNCHANGED <<sends, topic, cache, getVars>>

InsertFail(l) ==
  /\ create[l] = "start"
  /\ leads' \in {leads, [leads EXCEPT ![l] = "new"]}
  /\ Answer(l, "error")
  /\ UNCHANGED <<sends, topic, cache, getVars>>

CacheNew(l) ==
  /\ create[l] = "cache"
  /\ SetLead(l, "new")
  /\ Answer(l, "publish")
  /\ sends' = [sends EXCEPT ![l] = 1]
  /\ UNCHANGED <<topic, leads, getVars>>

\* Mutant of Publish: the request is answered 201 whatever the publisher returned.
PublishErrorIgnored(l) ==
  /\ create[l] = "publish"
  /\ \E w \in WriteOutcomes :
       /\ topic' = Stored(topic, l, w)
       /\ \/ TriesAgain(w, sends[l]) /\ sends' = [sends EXCEPT ![l] = @ + 1] /\ UNCHANGED create
          \/ ~TriesAgain(w, sends[l]) /\ Answer(l, "created") /\ UNCHANGED sends
  /\ UNCHANGED <<leads, cache, getVars>>

\* One attempt of PublishJSON.  After a failed one the loop also ends when the
\* client is gone and the context of its request is done.
Publish(l) ==
  /\ create[l] = "publish"
  /\ \E w \in WriteOutcomes :
       /\ topic' = Stored(topic, l, w)
       /\ \/ w.acked /\ Answer(l, "created") /\ UNCHANGED sends
          \/ TriesAgain(w, sends[l]) /\ sends' = [sends EXCEPT ![l] = @ + 1] /\ UNCHANGED create
          \/ ~w.acked /\ Answer(l, "error") /\ UNCHANGED sends
  /\ UNCHANGED <<leads, cache, getVars>>

\* The process dies in the middle of the request.
AbortCreate(l) ==
  /\ create[l] \in {"cache", "publish"}
  /\ Answer(l, "error")
  /\ UNCHANGED <<sends, topic, leads, cache, getVars>>

-----------------------------------------------------------------------------
(* Get *)

\* A cache hit is answered at once.
Hit(g, l) ==
  /\ get[g] = "idle"
  /\ cache[l] # "none"
  /\ target' = [target EXCEPT ![g] = l]
  /\ found' = [found EXCEPT ![g] = cache[l]]
  /\ UNCHANGED <<get, createVars, leads, cache>>

\* No entry, or an error of the cache, which Get treats alike.
Miss(g, l) ==
  /\ get[g] = "idle"
  /\ get' = [get EXCEPT ![g] = "query"]
  /\ target' = [target EXCEPT ![g] = l]
  /\ found' = [found EXCEPT ![g] = "none"]
  /\ UNCHANGED <<createVars, leads, cache>>

\* The row is there: it is what Get will cache and answer.
Query(g) ==
  /\ get[g] = "query"
  /\ leads[target[g]] # "none"
  /\ found' = [found EXCEPT ![g] = leads[target[g]]]
  /\ get' = [get EXCEPT ![g] = "fill"]
  /\ UNCHANGED <<createVars, target, leads, cache>>

\* No row, or an error of PostgreSQL.
QueryFail(g) ==
  /\ get[g] = "query"
  /\ get' = [get EXCEPT ![g] = "idle"]
  /\ UNCHANGED <<createVars, target, found, leads, cache>>

\* SetLead with what the query returned, however old that is by now.
Fill(g) ==
  /\ get[g] = "fill"
  /\ SetLead(target[g], found[g])
  /\ get' = [get EXCEPT ![g] = "idle"]
  /\ UNCHANGED <<createVars, target, found, leads>>

AbortGet(g) ==
  /\ get[g] = "fill"
  /\ get' = [get EXCEPT ![g] = "idle"]
  /\ found' = [found EXCEPT ![g] = "none"]
  /\ UNCHANGED <<createVars, target, leads, cache>>

-----------------------------------------------------------------------------
(* Other components *)

\* customer-service has consumed lead.created; it does not know of the cache.
Convert(l) ==
  /\ l \in Announced
  /\ leads[l] = "new"
  /\ leads' = [leads EXCEPT ![l] = "converted"]
  /\ UNCHANGED <<createVars, getVars, cache>>

\* Mutant of Expire: SET without an expiration.
NeverExpire(l) == FALSE /\ UNCHANGED vars

\* The TTL given to Set has passed.
Expire(l) ==
  /\ cache[l] # "none"
  /\ cache' = [cache EXCEPT ![l] = "none"]
  /\ UNCHANGED <<createVars, getVars, leads>>

Create(l) ==
  \/ Reject(l) \/ Insert(l) \/ InsertFail(l)
  \/ CacheNew(l) \/ Publish(l) \/ AbortCreate(l)

Get(g) ==
  \/ \E l \in Leads : Hit(g, l) \/ Miss(g, l)
  \/ Query(g) \/ QueryFail(g) \/ Fill(g) \/ AbortGet(g)

Next ==
  \/ \E l \in Leads : Create(l) \/ Convert(l) \/ Expire(l)
  \/ \E g \in Readers : Get(g)

Spec == Init /\ [][Next]_vars

\* A Get in progress ends, and a cache entry expires.  No request need be made,
\* and neither a conversion nor a successful call is promised.
Fairness ==
  /\ \A g \in Readers : WF_vars(Query(g) \/ QueryFail(g) \/ Fill(g))
  /\ \A l \in Leads : WF_vars(Expire(l))

LiveSpec == Spec /\ Fairness

-----------------------------------------------------------------------------
(* Properties *)

TypeOK ==
  /\ create \in [Leads -> {"start", "cache", "publish", "created", "rejected", "error"}]
  /\ sends \in [Leads -> 0..PublishAttempts]
  /\ leads \in [Leads -> Status] /\ cache \in [Leads -> Status]
  /\ topic \in Seq(Leads)
  /\ get \in [Readers -> {"idle", "query", "fill"}]
  /\ target \in [Readers -> Leads]
  /\ found \in [Readers -> Status]

\* A client that is answered 201 has a lead that will be converted: the event is
\* in lead.created.  And an event always names a lead with a row; without one the
\* foreign key of customers.lead_id would refuse the customer on every attempt.
CreatedMeansAnnounced ==
  /\ \A l \in Leads : create[l] = "created" => l \in Announced
  /\ \A l \in Announced : leads[l] # "none"

\* The status a lead has had by now: a row only goes from none to new to converted.
HasBeen(l, status) ==
  /\ status = "new" => leads[l] # "none"
  /\ status = "converted" => leads[l] = "converted"

\* A cache entry and the answer of a Get may be old, but they are never ahead of
\* the table.
NeverAhead ==
  /\ \A l \in Leads : HasBeen(l, cache[l])
  /\ \A g \in Readers : HasBeen(target[g], found[g])

\* What makes these inductive: a request that has not begun has no row, and one
\* that is past its INSERT has one.
InProgress ==
  \A l \in Leads :
    /\ create[l] = "start" => leads[l] = "none"
    /\ create[l] \in {"cache", "publish"} => leads[l] # "none"

\* lead.created holds of a lead what its one request has written: as many copies
\* as the attempts of one PublishJSON can leave.
RecordsOf(l) == {k \in 1..Len(topic) : topic[k] = l}

OneAnnouncementPerLead ==
  \A l \in Leads :
    /\ Cardinality(RecordsOf(l)) <= PublishAttempts * WriterCopies
    /\ create[l] \in {"start", "cache"} => RecordsOf(l) = {}
    /\ create[l] = "publish" =>
         /\ sends[l] > 0
         /\ Cardinality(RecordsOf(l)) <= (sends[l] - 1) * WriterCopies

IInv == TypeOK /\ InProgress /\ CreatedMeansAnnounced /\ NeverAhead /\ OneAnnouncementPerLead

\* Nothing invalidates the cache when a lead is converted, and a Get that read
\* the row before may even put the old status back; yet from some time after the
\* conversion on, the cache never says new again.
EventuallyFresh ==
  \A l \in Leads : leads[l] = "converted" ~> [](cache[l] # "new")
=============================================================================
