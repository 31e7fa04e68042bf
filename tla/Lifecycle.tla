------------------------------ MODULE Lifecycle ------------------------------
(***************************************************************************)
(* One process of customer-service or notification-service from start to   *)
(* exit: main connects its dependencies with httpx.Retry, starts the       *)
(* consumer loop and the HTTP server, waits for a signal in httpx.Run,     *)
(* shuts the server down, and runs its deferred calls in reverse order:    *)
(* reader, producer, Redis client, database pool, cancel.  lead-service is *)
(* the same without the loop, the gateway without loop and Kafka.          *)
(*                                                                         *)
(* The consumer loop and the requests run on while main closes what they   *)
(* use.  A handler attempt is a database call followed by a publish; the   *)
(* modules of the services say what the calls do.                          *)
(*                                                                         *)
(* External: db.Close refuses new connections and waits for those in use;  *)
(* a closed writer returns an error, a closed reader commits nothing;      *)
(* CommitMessages may still store the offset when the context is done.  A  *)
(* process that is killed is the action Crash of Consumer.                 *)
(***************************************************************************)
EXTENDS Naturals, Sequences, FiniteSets

CONSTANTS
  Requests,         (* one for each HTTP request ever received             *)
  StartAttempts,    (* attempts of httpx.Retry; 30 in the code             *)
  HandlerAttempts,  (* attempts of handleWithRetry; 3 in the code          *)
  MaxConns,         (* size of the database pool; 10 in the code           *)
  MaxFetches        (* bound: messages the loop takes up                   *)

ASSUME LifecycleAssumption ==
  /\ StartAttempts \in Nat \ {0}
  /\ HandlerAttempts \in Nat \ {0}
  /\ MaxConns \in Nat \ {0}
  /\ MaxFetches \in Nat
  /\ "loop" \notin Requests

VARIABLES
  main,      (* where main is                                              *)
  tries,     (* attempt of the Retry main is in                            *)
  open,      (* what is open, in the order of its deferred Close           *)
  done,      (* the context is cancelled                                   *)
  cut,       (* the server stopped without waiting for its requests        *)
  requests,  (* where each HTTP request is                                 *)
  conns,     (* who holds a connection of the pool                         *)
  loop,      (* where Consumer.Run is                                      *)
  attempt,   (* handler attempt for the message in hand                    *)
  outcome,   (* what became of the message in hand                         *)
  commits,   (* history: the outcomes whose offset was committed           *)
  fetched    (* messages taken up so far                                   *)

mainVars == <<main, tries, open, done, cut>>
loopVars == <<loop, attempt, outcome, commits, fetched>>
vars == <<mainVars, requests, conns, loopVars>>

IsOpen(resource) == \E k \in DOMAIN open : open[k] = resource

Init ==
  /\ main = "db" /\ tries = 1 /\ open = <<>> /\ done = FALSE /\ cut = FALSE
  /\ requests = [q \in Requests |-> "none"]
  /\ conns = {}
  /\ loop = "none" /\ attempt = 0 /\ outcome = "pending" /\ commits = {} /\ fetched = 0

-----------------------------------------------------------------------------
(* Start *)

\* mustConnectPostgres or mustConnectRedis returned, and its Close is deferred.
Connected ==
  /\ \/ main = "db" /\ main' = "redis"
     \/ main = "redis" /\ main' = "topics"
  /\ open' = Append(open, main)
  /\ tries' = 1
  /\ UNCHANGED <<done, cut, requests, conns, loopVars>>

\* The topics were created, or were there.
TopicsReady ==
  /\ main = "topics"
  /\ main' = "start"
  /\ tries' = 1
  /\ UNCHANGED <<open, done, cut, requests, conns, loopVars>>

\* Mutant of StartFail: a Retry that never gives up.
StartFailForever ==
  /\ main \in {"db", "redis", "topics"}
  /\ tries' = (tries % StartAttempts) + 1
  /\ UNCHANGED <<main, open, done, cut, requests, conns, loopVars>>

\* An attempt of Retry failed.  After the last one main panics, which runs what
\* it has deferred so far.
StartFail ==
  /\ main \in {"db", "redis", "topics"}
  /\ \/ tries < StartAttempts /\ tries' = tries + 1 /\ UNCHANGED main
     \/ tries >= StartAttempts /\ main' = "closing" /\ UNCHANGED tries
  /\ UNCHANGED <<open, done, cut, requests, conns, loopVars>>

\* Producer, consumer and its goroutine, and the HTTP server.
Start ==
  /\ main = "start"
  /\ main' = "serving"
  /\ open' = open \o <<"producer", "reader">>
  /\ loop' = "fetch"
  /\ UNCHANGED <<tries, done, cut, requests, conns, attempt, outcome, commits, fetched>>

-----------------------------------------------------------------------------
(* httpx.Run and the deferred calls *)

\* Mutants of Signal: httpx.Run returns without Shutdown; and the context of the
\* process is that of signal.NotifyContext.
SignalNoShutdown ==
  /\ main = "serving"
  /\ main' = "closing"
  /\ UNCHANGED <<tries, open, done, cut, requests, conns, loopVars>>

SignalCancels ==
  /\ main = "serving"
  /\ main' = "draining" /\ done' = TRUE
  /\ UNCHANGED <<tries, open, cut, requests, conns, loopVars>>

\* SIGINT or SIGTERM: Shutdown refuses new requests and waits for the others.
Signal ==
  /\ main = "serving"
  /\ main' = "draining"
  /\ UNCHANGED <<tries, open, done, cut, requests, conns, loopVars>>

\* ListenAndServe failed: Run returns at once.
ListenError ==
  /\ main = "serving"
  /\ main' = "closing"
  /\ cut' = TRUE
  /\ UNCHANGED <<tries, open, done, requests, conns, loopVars>>

InFlight(q) == requests[q] \in {"active", "query"}

Drained ==
  /\ main = "draining"
  /\ \A q \in Requests : ~InFlight(q)
  /\ main' = "closing"
  /\ UNCHANGED <<tries, open, done, cut, requests, conns, loopVars>>

\* The ten seconds of the shutdown context have passed.
DrainTimeout ==
  /\ main = "draining"
  /\ main' = "closing"
  /\ cut' = TRUE
  /\ UNCHANGED <<tries, open, done, requests, conns, loopVars>>

\* Mutant of CloseLast: everything is closed in the order in which it was opened.
CloseFirst ==
  /\ main = "closing"
  /\ open # <<>>
  /\ open' = Tail(open)
  /\ main' = IF Head(open) = "db" THEN "waiting" ELSE "closing"
  /\ UNCHANGED <<tries, done, cut, requests, conns, loopVars>>

\* The next deferred Close; that of the pool waits for its connections.
CloseLast ==
  /\ main = "closing"
  /\ open # <<>>
  /\ open' = SubSeq(open, 1, Len(open) - 1)
  /\ main' = IF open[Len(open)] = "db" THEN "waiting" ELSE "closing"
  /\ UNCHANGED <<tries, done, cut, requests, conns, loopVars>>

PoolClosed ==
  /\ main = "waiting"
  /\ conns = {}
  /\ main' = "closing"
  /\ UNCHANGED <<tries, open, done, cut, requests, conns, loopVars>>

Cancel ==
  /\ main = "closing"
  /\ open = <<>>
  /\ done' = TRUE
  /\ main' = "cancelled"
  /\ UNCHANGED <<tries, open, cut, requests, conns, loopVars>>

Exit ==
  /\ main = "cancelled"
  /\ main' = "exited"
  /\ UNCHANGED <<tries, open, done, cut, requests, conns, loopVars>>

-----------------------------------------------------------------------------
(* HTTP requests *)

Running == main # "exited"
Free == IsOpen("db") /\ Cardinality(conns) < MaxConns

Arrive(q) ==
  /\ main = "serving"
  /\ requests[q] = "none"
  /\ requests' = [requests EXCEPT ![q] = "active"]
  /\ UNCHANGED <<mainVars, conns, loopVars>>

Query(q) ==
  /\ Running /\ Free
  /\ requests[q] = "active"
  /\ requests' = [requests EXCEPT ![q] = "query"]
  /\ conns' = conns \cup {q}
  /\ UNCHANGED <<mainVars, loopVars>>

\* The request is answered, with what the query returned or with an error.
Answered(q) ==
  /\ Running
  /\ InFlight(q)
  /\ requests' = [requests EXCEPT ![q] = "answered"]
  /\ conns' = conns \ {q}
  /\ UNCHANGED <<mainVars, loopVars>>

-----------------------------------------------------------------------------
(* Consumer.Run *)

\* A reader that is closed may still hand out a message it had read ahead.
Fetch ==
  /\ Running /\ loop = "fetch"
  /\ fetched < MaxFetches
  /\ loop' = "handle" /\ attempt' = 1 /\ outcome' = "pending"
  /\ fetched' = fetched + 1
  /\ UNCHANGED <<mainVars, requests, conns, commits>>

\* FetchMessage fails and the context is done.
Return ==
  /\ Running /\ loop = "fetch"
  /\ done
  /\ loop' = "returned"
  /\ UNCHANGED <<mainVars, requests, conns, attempt, outcome, commits, fetched>>

\* The handler returned an error: next attempt, or dead letter, or, when the
\* context is done, neither.
AttemptFails ==
  /\ \/ ~done /\ attempt < HandlerAttempts /\ loop' = "handle" /\ attempt' = attempt + 1
        /\ UNCHANGED outcome
     \/ ~done /\ attempt >= HandlerAttempts /\ loop' = "deadletter"
        /\ UNCHANGED <<attempt, outcome>>
     \/ done /\ loop' = "commit" /\ outcome' = "lost"
        /\ UNCHANGED attempt
  /\ UNCHANGED <<commits, fetched>>

Begin ==
  /\ Running /\ loop = "handle"
  /\ Free
  /\ conns' = conns \cup {"loop"}
  /\ loop' = "tx"
  /\ UNCHANGED <<mainVars, requests, attempt, outcome, commits, fetched>>

BeginFail ==
  /\ Running /\ loop = "handle"
  /\ AttemptFails
  /\ UNCHANGED <<mainVars, requests, conns>>

\* The database call succeeded: an event is to be published, or, for a lead that
\* had a customer before, the handler returns.
TxOk ==
  /\ Running /\ loop = "tx"
  /\ conns' = conns \ {"loop"}
  /\ \/ loop' = "publish" /\ UNCHANGED outcome
     \/ loop' = "commit" /\ outcome' = "handled"
  /\ UNCHANGED <<mainVars, requests, attempt, commits, fetched>>

\* Mutant of TxFail: no deferred Rollback, so that the connection is never returned.
TxFailLeaks ==
  /\ Running /\ loop = "tx"
  /\ AttemptFails
  /\ UNCHANGED <<mainVars, requests, conns>>

TxFail ==
  /\ Running /\ loop = "tx"
  /\ conns' = conns \ {"loop"}
  /\ AttemptFails
  /\ UNCHANGED <<mainVars, requests>>

PublishOk ==
  /\ Running /\ loop = "publish"
  /\ IsOpen("producer")
  /\ loop' = "commit" /\ outcome' = "handled"
  /\ UNCHANGED <<mainVars, requests, conns, attempt, commits, fetched>>

PublishFail ==
  /\ Running /\ loop = "publish"
  /\ AttemptFails
  /\ UNCHANGED <<mainVars, requests, conns>>

\* The dead letter publish: a failure of a producer that is open loses the message
\* as Consumer describes; any other is owed to the stop.
DeadLetter ==
  /\ Running /\ loop = "deadletter"
  /\ loop' = "commit"
  /\ \/ IsOpen("producer") /\ outcome' \in {"dead", "dropped"}
     \/ ~IsOpen("producer") /\ outcome' = "lost"
  /\ UNCHANGED <<mainVars, requests, conns, attempt, commits, fetched>>

Commit ==
  /\ Running /\ loop = "commit"
  /\ loop' = "fetch"
  /\ \/ IsOpen("reader") /\ commits' = commits \cup {outcome}
     \/ UNCHANGED commits
  /\ UNCHANGED <<mainVars, requests, conns, attempt, outcome, fetched>>

-----------------------------------------------------------------------------

Main ==
  \/ Connected \/ TopicsReady \/ StartFail \/ Start
  \/ Drained \/ DrainTimeout
  \/ CloseLast \/ PoolClosed \/ Cancel \/ Exit

Handler == Begin \/ BeginFail \/ TxOk \/ TxFail \/ PublishOk \/ PublishFail

Next ==
  \/ Main \/ Signal \/ ListenError
  \/ \E q \in Requests : Arrive(q) \/ Query(q) \/ Answered(q)
  \/ Fetch \/ Return \/ Handler \/ DeadLetter \/ Commit

Spec == Init /\ [][Next]_vars

\* main goes on, and PostgreSQL answers the calls that hold a connection.  Neither
\* a signal nor a successful call is promised, nor that an attempt to connect
\* PostgreSQL or to create the topics returns: only the PING of Redis has a time
\* limit.
Fairness ==
  /\ WF_vars(main \notin {"db", "topics"} /\ Main)
  /\ WF_vars(TxOk \/ TxFail)
  /\ \A q \in Requests : WF_vars(requests[q] = "query" /\ Answered(q))

LiveSpec == Spec /\ Fairness

-----------------------------------------------------------------------------
(* Properties *)

TypeOK ==
  /\ main \in {"db", "redis", "topics", "start", "serving", "draining", "closing",
               "waiting", "cancelled", "exited"}
  /\ tries \in 1..StartAttempts
  /\ open \in {<<>>, <<"db">>, <<"db", "redis">>, <<"db", "redis", "producer">>,
               <<"db", "redis", "producer", "reader">>}
  /\ done \in BOOLEAN /\ cut \in BOOLEAN
  /\ requests \in [Requests -> {"none", "active", "query", "answered"}]
  /\ conns \subseteq Requests \cup {"loop"} /\ Cardinality(conns) <= MaxConns
  /\ loop \in {"none", "fetch", "handle", "tx", "publish", "deadletter", "commit", "returned"}
  /\ attempt \in 0..HandlerAttempts
  /\ outcome \in {"pending", "handled", "dead", "dropped", "lost"}
  /\ commits \subseteq {"pending", "handled", "dead", "dropped", "lost"}
  /\ fetched \in 0..MaxFetches

\* A stop by itself loses no message: one whose handler or dead letter publish failed
\* because the producer is closed or the context is done is not committed, and comes
\* again after the restart.  (dropped is lost as well, with or without a stop.)
StoppingLosesNothing == commits \cap {"pending", "lost"} = {}

\* What a request uses is closed under it only after the ten seconds, or when the
\* listener broke.
DrainedBeforeClose ==
  \A q \in Requests :
    InFlight(q) => cut \/ \A x \in {"db", "redis", "producer"} : IsOpen(x)

\* What makes these inductive.  Where main is tells what is open, and everything
\* is until no request it waits for is left; a message in the hands of the loop is
\* given up only when the reader can no longer commit it.
InStep ==
  /\ main = "db" => open = <<>>
  /\ main = "redis" => open = <<"db">>
  /\ main \in {"topics", "start"} => open = <<"db", "redis">>
  /\ main \in {"serving", "draining"} => open = <<"db", "redis", "producer", "reader">>
  /\ main \in {"waiting", "cancelled", "exited"} => open = <<>>
  /\ done => main \in {"cancelled", "exited"}
  /\ loop # "none" => main \notin {"db", "redis", "topics", "start"}
  /\ loop = "commit" => outcome # "pending" /\ (outcome = "lost" => ~IsOpen("reader"))
  /\ \A q \in Requests : InFlight(q) => cut \/ main \in {"serving", "draining"}

IInv ==
  TypeOK /\ IsFiniteSet(conns) /\ InStep /\ StoppingLosesNothing /\ DrainedBeforeClose

\* A process gets through its start or gives up, whichever attempts fail, unless one
\* attempt for PostgreSQL or for the topics never returns.
HangsIn(m) == \E n \in 1..StartAttempts : <>[](main = m /\ tries = n)

StartsUnlessHung ==
  \/ main \in {"db", "redis", "topics"} ~> main \in {"serving", "exited"}
  \/ HangsIn("db") \/ HangsIn("topics")

\* A stop that has begun ends, whatever the loop and the requests are doing: the
\* pool gets its connections back.
StopsInTheEnd ==
  main \in {"draining", "closing", "waiting"} ~> main = "exited"
=============================================================================
