# A verification project for event-driven-crm

TLA+ models of the CRM backend, the TLC runs that check them on small
instances, and theorems about them that the TLA+ proof system checks. The
reference is the code; every definition that stands for code is listed with its
lines in `PROJECT.json` under `map`.

## The system

Four Go services (`gateway`, `lead-service`, `customer-service`,
`notification-service`; two replicas each in `deployments/kubernetes/app.yaml`)
share one PostgreSQL database, one Redis and one Kafka broker.

    POST /leads -> lead-service: row leads, cache entry, lead.created
    lead.created -> customer-service: row customers + leads.status, customer.created
    customer.created -> notification-service: row notifications,
                        notification.created, Redis message on crm.notifications
    crm.notifications -> gateway: hub -> WebSocket clients

| Component | State | Operations | What is hard | What makes it correct |
|---|---|---|---|---|
| `internal/kafka/consumer.go` | group offset, reader position, message in hand, attempt | fetch, handler with three attempts, dead letter, commit | crash or rebalance at any point, lost and late commits, failing DLQ | no message is passed over, none blocks the partition, redelivery only after a rebalance or crash |
| `internal/kafka/producer.go` | attempt | `PublishJSON` with three attempts | an attempt that failed may have stored the record | callers tolerate duplicates |
| `services/customer-service` | tables `customers`, `leads.status`, topic | `HandleLeadCreated`, `CreateFromLead` | two replicas with one lead, a lost COMMIT answer, failure between COMMIT and publish | one customer per lead, row and status together, events only for rows, one announcing call |
| `services/notification-service` | table, topic, Redis channel | `HandleCustomerCreated`, `CreateFromCustomer` | three stores without a transaction, no deduplication | order row, event, push; a committed message was pushed; bounded duplicates |
| `services/lead-service` | table, cache with TTL, topic | `Create`, `Get` | concurrent fill and conversion, failure between the three writes | 201 means row and event, no event without row, the cache is never ahead and stops being stale |
| `internal/websocket` | client set, channels, connections | `Run`, `SubscribeRedis`, `ServeWS`, pumps | eviction against disconnection against shutdown, slow clients | no double close, no gap, nobody stalls the hub, broken clients leave |
| `services/gateway`, `internal/auth`, `internal/middleware` | table `users` | register, login, token check of `/api` and `/ws`, proxy | concurrent registrations, spellings of one address, expired tokens, a 502 for a call that was executed, a header that is removed on the way | one user per address, a registered user can log in, a service acts for nobody but the caller |
| `internal/httpx`, `cmd/*` | open resources, HTTP server | start with `Retry`, `Run`, deferred closes | loop and requests run on while main closes what they use | a stop by itself loses no message, waits for requests, and ends |
| `List` of the three services | a table, the client's place in the list | one page by LIMIT and OFFSET, newest first | rows inserted between two pages, late commits, equal timestamps, limits out of range | no row with a timestamp of its own is missed, few repeat |
| the services together | all of the above | a lead's way to the WebSocket | each service relies on what the others publish and store | foreign keys hold, stages in order, nothing gets stuck |
| configuration, metrics, tracing, logging, health, frontend | none or read-only | | | |

Components interact by Kafka records, by rows of the shared tables, by the Redis
channel, and inside the gateway by Go channels. `PROJECT.json` lists every
component with its status, and under `hazards` what is hard to test, each at its
line.

## Modules

| Module | Models | Main correspondences |
|---|---|---|
| `Producer` | `PublishJSON` | `WriteOutcomes`: what one `WriteMessages` call did and returned; `GivesUp`, `TriesAgain`: the loop. The attempt number lives in the caller's module |
| `Consumer` | `Consumer.Run`, `handleWithRetry`, and the broker seen by a consumer group | `pc`: place in `Run`; `msg`, `attempt`, `tries`: its locals; `reader`, `position`, `committed`: the group; the handler is opaque |
| `CustomerService` | handler of `lead.created` | `stage`, `insert`, `sends`: the handler attempt; `customers`, `converted`, `events`: tables and topic. `C == INSTANCE Consumer`; each end of an attempt is `C!HandlerOk` or `C!HandlerFail` |
| `NotificationService` | handler of `customer.created` | as above; `announced` and `pushed` are the notification.created topic and the Redis channel |
| `LeadService` | `Create` and `Get` over table, cache, topic | one step per call to a store; `topic` is lead.created; `Convert` is what customer-service does to the row |
| `Hub` | hub, subscription, pumps | an operation on an unbuffered channel is one step of both goroutines; the loop of `Run` is one step per client |
| `Gateway` | register, login, token check, forwarding | one step per database call; `Normal` is what `TrimSpace` and `ToLower` do; a token is the user it was issued for, `bearer` the request that was answered it, `userId` the header `X-User-ID` as it was set, then as the service received it; `served` are the calls a service executed, answered or not, `leads` what it stored for them |
| `Listing` | `List` of leads, customers and notifications, rows being inserted, a client that reads to the end | `user` is `X-User-ID`, `NoUser` if it is missing, `Visible` the condition of the query; `createdAt` is the start of the inserting transaction, `Page` the set of answers the query may give, `EffectiveLimit` and `EffectiveOffset` the clamping in the service |
| `Crm` | abstract: the flow of README.md lines 9-13 | `reached`: for each stage the leads past it |
| `Pipeline` | the three services joined at their topics and at `leads.status` | see below |
| `Lifecycle` | `main`, `Retry`, `httpx.Run`, deferred closes | `open` is the list of resources whose Close is deferred; loop and requests run beside `main` |
| `ConsumerProofs`, `CustomerServiceProofs`, `NotificationServiceProofs`, `LeadServiceProofs`, `GatewayProofs`, `HubProofs`, `LifecycleProofs`, `PipelineProofs` | proofs | extend the module they are about and `TLAPS`; the services' instantiate `ConsumerProofs`, that of the pipeline the services' |
| `MC*` | constants of the runs | model values, symmetry sets |

How they are composed: `Consumer` extends `Producer`; the two consuming services
instantiate `Consumer` with their own topic values and share all its variables.
`Environment`, `Fetch`, `DeadLetter`, `Commit` of a service are the actions of
`Consumer`, and each end of a handler attempt is `C!HandlerOk` or `C!HandlerFail`
with what it does to the stores. So a service does nothing to its partition that
`Consumer` does not do; that holds by the way the modules are written, is no check
of the code, and is used to carry the invariants of the loop over.

`Pipeline` instantiates `LeadService` (`L`), `CustomerService` (`CS`) and
`NotificationService` (`NS`). They share `topic` (what `L` publishes is what `CS`
consumes), `events` (what `CS` publishes is the `topic` of `NS`), and the column
`leads.status`: the `converted` of `CS` is the set of leads whose status is
"converted". All other variables of `NS` that would clash have the prefix `n`. A
step is a step of one service. What the modules leave to an environment (`Produce`
of the consumers, which is one write of the service that publishes, and `Convert`
of `LeadService`) is not a step of the pipeline: it must be what another service
does. `Composition`, which is `L!Spec /\ CS!Spec /\ NS!Spec`, states that, so that
the safety properties of each service's module hold in the composition as well.
`BoundedForTheUser` and `NobodyForgotten` are such properties of the whole: how
many notifications of a lead a user gets, and how a lead's way ends. `ImplementsCrm` maps the tables
and topics to the stages of `Crm` (`Reached`); `ReachesTheUser` is the liveness of
the whole way. The last leg, from the Redis channel to the client, is `Hub`.

Definitions before an action whose comment begins with "Mutant of" are
deliberately wrong variants of it. No specification uses them; each one shows
that a property of a run notices the bug it stands for (`mutants` in
`PROJECT.json`).

### Abstractions worth knowing

- Topics have one partition, as `admin.go` creates them. A record is the value
  the properties need (a lead, a customer, a message that is not JSON).
- A rebalance takes the partition from a reader in two steps (`Revoke`,
  `Discard`): in between the replica goes on with buffered messages and its late
  commits may be stored or refused.
- `CommitMessages` is one step that stores the offset or not; `Run` treats
  both alike. Likewise the three waits between attempts take no time.
- PostgreSQL: a transaction is `Insert` (both statements, uncommitted) and
  `CommitTx`; a conflicting INSERT waits (`Locked`); a failed client is rolled
  back; COMMIT may take effect although its answer is lost or the process dies.
- The Redis client repeats a command that failed, by default, within one call
  (internal/redis/client.go:15 leaves its options alone). `pushed` is the set of
  the notifications sent, and the bounds on duplicates count rows of
  `notifications`, not messages on the channel.
- A kafka-go reader that is closed may still hand out what it had read ahead;
  only its commits fail.
- An acknowledged record stays in its topic: the broker is not modelled as
  losing it, though `RequireOne` would allow that with more than one broker.
- The context of `Run` and of the hub is cancelled only by the last deferred
  call of `main`, so `ctx.Done` branches matter only in `Lifecycle` and in
  `Hub!Stop`.
- Time is left out. A TTL, a deadline, the expiry of a token or a timeout is an
  action that may happen. Only `Listing` has a clock, because it orders rows.
- `ReverseProxy` removes, after the Director, the headers the request names in
  `Connection` (`Received`): a service gets the `X-User-ID` of the token or none.
  `POST /leads` refuses a call without it, and the foreign key of `leads` one whose
  user is not stored (`Storable`). A list without it is the list of all users
  (`NoUser` in `Listing`), and `GET /leads/:id` never looks at it.
- `Listing`: rows with the same `created_at` may come in any order, another for
  each query; the client goes on after the rows it has received, and stops at an
  empty page.
- bcrypt and JWT are external: a hash matches its password, and a token no
  request was answered is not valid.

## Runs

| Run | Instance | Shows |
|---|---|---|
| `consumer` | 2 replicas, 2 records, 3 handler and 2 publish attempts, 3 rebalances or crashes | no offset is committed past a message that was not carried to the end; calm running does not redeliver even if commits are lost; the offset moves back only after a rebalance or crash; the inductive invariant of the proofs, types included |
| `customer` | 2 replicas, 2 leads and a bad record, 2 records, 2 attempts each, 1 rebalance or crash | one customer and one announcing call per lead, atomic conversion, no lead lost; the inductive invariant, with types and the truth of events |
| `notification` | 2 replicas, 1 record, 2 handler attempts, 2 rebalances or crashes | order of the three effects, a committed record was pushed, bounded duplicates with the account they rest on; the inductive invariant |
| `lead` | 2 creations, 2 readers, 2 publish attempts, without symmetry | what 201 promises, no event without row, the cache is never ahead of the table and in the end not behind it; the inductive invariant |
| `pipeline` | 1 lead, 2 replicas of customer-service with 2 attempts and 1 rebalance or crash, 1 of notification-service, every call may fail | foreign keys; each service keeps to what the others assume; the notification rows of a lead are bounded; a lead passes the stages of `Crm` in order; an announced lead is pushed, is dead-lettered, or ends in finding 1, both when the groups have caught up (`NobodyForgotten`) and in the end (`ReachesTheUser`) |
| `hub` | 2 clients, send channels of 2, broadcast channel of 1, 3 messages, without symmetry | no panic; a client gets messages without gap, repetition or reordering; broken clients leave, dropped clients are disconnected, the feed drains; the inductive invariant |
| `gateway` | 3 requests and 1 API call, an address in 2 spellings, 3 passwords | one user per address, registered users can log in; whether the header survives or not, a service is called for no user but the owner of the account the token was answered for, and stores a lead for no other; the inductive invariant |
| `listing` | 4 rows of 2 users, a client that is one of them or has no id, limits -1 to 3 with 2 as the largest, 4 instants | a client that reads to the end misses no row visible to it with a timestamp of its own; repetitions come only from inserts |
| `lifecycle` | 2 requests, pool of 2, 3 attempts, 3 messages | a stop by itself loses no message (a message whose handler and dead letter publish fail is lost with or without one, finding 2), waits for requests, ends; a start ends unless one attempt for PostgreSQL or Kafka never returns; the inductive invariant |
| `consumer_dlq`, `consumer_malformed`, `customer_announced` | smallest instances with the attempts of the code | violations, see Findings |

### Why the bounds are enough

Two replicas are what is deployed, and every interaction in `Consumer` is between
an old and a new owner of the partition. Two records give a message before and one
after the one in hand; three churn events allow a takeover, a takeover back and a
crash in between. Fewer attempts than the three of the code still have a first, a
repeated and a last attempt (two) and every module takes the number as a constant;
the proofs hold for any. `notification` has one record because its handler never
looks at another, and the run asks about repetitions of it. The hub's properties
need a full channel (capacity 1 or 2), a message waiting behind it, and one
healthy client beside the slow one. In `lifecycle` the pool of 2 is smaller than
its possible users (loop and two requests). `pipeline` has one lead because
`customer` and `lead` have shown that leads do not disturb each other, and two
replicas of the one service whose transactions wait for each other. `WriterCopies
= 1` stores each record at most once per attempt, three attempts still leave up to
three copies; the proofs hold for any number. In `listing` four rows are one to be
pushed down, one before and one after it on a page of two, and one of another
user; the limits lie on both sides of both bounds. `MaxTopic`, `MaxChurn`,
`MaxNotifierChurn`, `MaxMessages`, `MaxFetches` and `MaxClock` bound counters and
stand for nothing in the code.

Deadlock is not checked where the system may stop: all records consumed, all
requests answered, all connections closed, the process gone. `lead` checks it.

### Fairness

`Pipeline`: weak fairness of each replica of the two consumers (`Proceed`,
`Loop`: a goroutine that can run does; every call it waits for has a timeout or
returns) and of the coordinator's assignment of a free partition. Success of a
handler, a publish or a commit is never assumed, and `Proceed` contains no
database error, so a wait for a lock ends only if the lock is released. No client
has to send or finish a request. `LeadService`: a `Get` in
progress ends and a cache entry expires. `Hub`: goroutines that are not
blocked run; strong fairness for `TakeBroadcast` and `Unregister` because Go's
`select` chooses among ready cases at random; a read from a broken connection
fails; nothing is assumed of peers. `Lifecycle`: `main` goes on and PostgreSQL
answers calls in progress; no signal and no success is assumed. While `main`
connects PostgreSQL or creates the topics nothing is assumed at all: `Retry` gives
an attempt no deadline, and neither `Ping` (internal/database/postgres.go:26) nor
`Controller` and `CreateTopics` (internal/kafka/admin.go:25,46) have one of their
own, so an attempt may hang; `StartsUnlessHung` names that case. The ping of Redis
ends after three seconds.

## Findings

1. `customer_announced` (services/customer-service/service.go:68). If COMMIT took
   effect but the call failed afterwards (lost answer, crash, three failed
   publishes, or a producer that `main` has closed for a stop), every later
   delivery finds the row, returns nil and is committed: `customer.created` is
   never published and nothing is in the DLQ. README.md:11 and docs/events.md:15
   promise one or the other. `OneAnnouncementPerLead` and
   `CommittedMeansConverted` show what does hold.
2. `consumer_dlq` (internal/kafka/consumer.go:84). When the dead letter publish
   fails as well, the message is logged as "moved to dlq" and committed.
3. `consumer_malformed` (internal/kafka/consumer.go:80). A message that is not
   JSON cannot be embedded as `json.RawMessage`: its dead letter record never
   leaves the process, and its offset is committed.

## What is proved

For all values of the constants: any number of replicas, requests, clients,
messages and attempts, any capacity and any bound. The named assumptions of the
modules are all that is used. They say that counts are natural and attempts,
copies and capacities positive, that a bad record is no lead or customer, that
normalising an address twice is normalising it once, that `"loop"` and `Nobody`
are not requests and `NoUser` is no user, that the default limit of a list is
positive and no more than the largest, and that notification-service has finitely
many replicas (needed only to count). TLC evaluates them in the runs. Two theorems
of `Pipeline` (`Joined`, `TellsBounded`) assume besides that the leads are
finitely many and that `MaxTopic`, which stands for nothing in the code, is at
least the number of records they can leave.

Every safety property of every run is proved: the invariants, the action
properties, `Composition` and the refinement of `Crm`. Only liveness is not. In
each module `Inductive` states that `IInv` holds in every reachable state, and the
other theorems are consequences of it. The services' runs check the same `IInv`;
that of `Pipeline` joins three of these by `ToldBefore`, and `ListInv`, which
stands for it in `Listing`, contains the two invariants of its run.

| Module | Theorems |
|---|---|
| `ConsumerProofs` | `AtLeastOnce` (`NothingSkipped`), `CommitForward`, `NoRedelivery` |
| `CustomerServiceProofs` | `UniqueCustomer`, `AtomicConversion`, `EventsAreTrue`, `NoLeadLost`, `AnnouncedOnce` |
| `NotificationServiceProofs` | `PushComesLast`, `NoNotificationLost`, `AccountsBalance`, `DuplicatesBounded` |
| `LeadServiceProofs` | `CreatedIsAnnounced`, `CacheNeverAhead`, `OneAnnouncement` |
| `GatewayProofs` | `UniqueUser`, `LoginWorks`, `ServedForOwner`; of `Listing`: `ListInvariant`, `NothingMissed` (`NoRowMissed`), `RepeatsAreBounded` (`RepeatsBounded`) |
| `HubProofs` | `ChannelsClosedOnce` (`NoPanic`), `ClientsMissNothing` (`NoGap`) |
| `LifecycleProofs` | `StopKeepsMessages`, `RequestsDrained` |
| `PipelineProofs` | `KeysHold` (`ForeignKeys`), `Implements` (refinement of `Crm`), `LeadServiceJoined`, `Joined` (`Composition`), `TellsBounded` (`BoundedForTheUser`), `EndsSomewhere` (`NobodyForgotten`) |

**Consumer.** `NothingSkipped` is not inductive, since a replica commits what it
has in hand, not what is next in order. `Carried` says of every replica that all
messages up to its position, except the one in hand, are settled, and that a
replica about to commit has settled that one too; with `InHand` this survives
takeovers because an assigned reader starts at the committed offset, below which
everything is settled by `NothingSkipped` itself. `Calm` describes the time
before the first rebalance or crash: a single reader, nothing settled or
committed beyond its position; the two action properties follow from it.

**CustomerService.** The invariant adds `InProgress` (what a handler attempt has
in hand is the lead of its message, and the row whose event is being published
is committed), `OneInserter` (at most one open transaction per lead) and
`HandledMeansCustomer`. `OneAnnouncementPerLead` counts records, and needs
`OneAnnouncer`: a publish begins with a COMMIT, before which the lead has no
customer, hence by `EventNamesCustomer` no event; so at most one replica is ever
publishing for a lead, and the lead has no more events than its attempts so far
can have stored. The facts about the loop come from `ConsumerProofs!Inductive`,
since every step is one of `Consumer` or leaves its variables alone (the lemma
`Implements`), here and in `NotificationService`.

**NotificationService.** The invariant says that the row in hand is one for the
message in hand and is announced before it is pushed. That duplicates are bounded
is no local fact: how often a record is handled follows from who was given the
partition when. `Accounted` is the conjunct of `IInv` behind it (the others are
`HandlerInv`, all that the pipeline uses). `Passes` is the number of
times the partition can have been given away, the rebalances and crashes so far
and one for a present owner; for every customer the rows it has, the attempts
replicas have left for the record in hand (`AttemptsLeft`), and all attempts for
the records their readers are still to hand out (`RecordsLeft`) do not exceed the
attempts per record and pass. An INSERT exchanges an attempt for a row, a fetch a
record for its attempts, an assignment adds a pass, and a new record is no more
than the readers can owe for, since their number is bounded by the passes too.

**LeadService.** A request that has not begun has no row, and one past its INSERT
has one; a status in the cache, or in the hands of a reader about to cache it, is
one the row has had (`HasBeen`), and rows never go back. `OneAnnouncementPerLead`
counts the records of a lead as in `CustomerService`; here a lead has a single
request, whose attempt number is the account.

**Gateway.** What each request in progress has read or hashed belongs to the
address and password it was sent with, users are only added, and the `X-User-ID`
of a call, as long as it has one, is the account of the request whose token it
bears. A call that has lost the header is for nobody, and `Nobody` is no stored
user, so no lead is stored for it (`Storable`); a stored lead belongs to a call
that was served and is not authorized again, so its owner stays the bearer. For
`RegisteredCanLogin` the invariant follows the accounts known when a login began:
each keeps its row (`RowsStay`), so a login for one of them has that row in hand
by the time it compares.

**Listing.** The invariant (`ListInv`) reads the list by timestamps: in every
answer the visible rows before a row w without a tie are those newer than w
(`Newer`). A row that was there at the beginning and that the client lacks is
therefore not before its offset (`StillAhead`): an insert can only push it further
down, and a page that does not hold it ends before it. At an empty page nothing is
left behind the offset, which is `NoRowMissed`. A row the client has can come
behind its offset again only when a late row is sorted in before it;
`RepeatsPaidFor` charges each row moved back, and each repetition received, to a
late row of its own. The answers of a query are permutations of the rows, so the
positions in a page are counted with bijections and cardinalities.

**Hub.** `NoGap` needs the order of the whole way (`FeedInOrder`: what is behind
is younger, from the subscription over the broadcast channel to the loop) and
that a client that is not registered yet has received nothing.

**Lifecycle.** What is open follows from the place `main` is at (`InStep`), and a
request is in flight only while `main` serves or drains, unless the drain was cut
short. A message is given up as lost only with the reader closed, so that its
commit fails. That the connections of the pool are finitely many is part of the
invariant, since the bound of the pool is a cardinality.

**Pipeline.** The proofs of the services are used again: each is instantiated
with the variables of the pipeline. A step of one service is a step of its module
(`StepOfL`, `StepOfCS`, `StepOfNS`); for its neighbours it changes only what they
share, and each of the services' proof modules has a lemma that its invariant
survives a topic that grows (`TopicExtended`) by whatever a write left behind, or
a conversion. So the invariants of the services hold in the pipeline for every
number of copies a write may leave. `ToldBefore` joins them, and `ForeignKeys`
follows. For the refinement, `LeadEffect`, `ConverterEffect` and `NotifierEffect`
reduce the steps of a service to what they do to the seven stages, and `OneStage`
turns each into a step of `Crm` or, when the lead is past the stage, a stutter.
`Joined` needs that no write is held up by `MaxTopic`. lead-service and
customer-service leave at most `PublishAttempts * WriterCopies` records of a lead,
so a topic is no longer than the leads times that (`Counting`: a record is known by
its lead and its rank among those of that lead, an injection into a product). With
room for the write, what a service publishes is the `Produce` of its consumer, and
every other step is one of the consumer or changes nothing of it. From `Joined`
the theorems of a service hold in the pipeline; `TellsBounded` takes
`DuplicatesBounded` of notification-service and the single customer and the bounded
events of a lead from customer-service. `EndsSomewhere` is the part of
`ReachesTheUser` that needs no fairness.

Only model-checked:

- liveness (`EventuallyFresh`, `BrokenIsRemoved`, `DroppedIsClosed`, `FeedDrains`,
  `StartsUnlessHung`, `StopsInTheEnd`, `ReachesTheUser`): TLAPS does not reason about
  `ENABLED`, and fairness is stated with it.

## Plan

Every component that keeps state of the CRM is modelled, the services are composed,
and their safety is proved, alone and composed. What would extend the project:

1. The liveness properties rest on TLC alone, on the instances of the runs. A
   proof would need an account of `ENABLED` for each fair action.
2. `Hub` and `Gateway` joined with `Pipeline` at `crm.notifications` and at
   `X-User-ID`: the message a lead ends in would be followed to the socket, and
   the lead back to its owner.

## Not modelled

- Configuration, logging, metrics, tracing and health endpoints read or write
  nothing of the CRM.
- The rewriting of paths by the reverse proxy is a pure function of the
  configured URL; which calls it forwards, with or without `X-User-ID`, and that a
  call answered 502 may have been executed, is in `Gateway`. Of the hop-by-hop
  headers only that one matters to a model.
- `Get` of customers and notifications is one query that changes nothing.
- The frontend: two overtakings in it are listed as hazards, both wrong only
  until the next refresh.
- ON DELETE CASCADE of the schema never fires, nothing deletes.
- The deployment files, of which the models take the number of replicas.
