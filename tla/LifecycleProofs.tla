--------------------------- MODULE LifecycleProofs ---------------------------
(***************************************************************************)
(* Proofs about Lifecycle: a stop commits nothing it gave up, and closes   *)
(* nothing under a request it should wait for, for any number of requests, *)
(* attempts and connections.                                               *)
(***************************************************************************)
EXTENDS Lifecycle, Integers, SequenceTheorems, FiniteSetTheorems, TLAPS

\* Everything is open.
Full == <<"db", "redis", "producer", "reader">>

\* The types, by the part of the process they belong to.
MainTypeOK ==
  /\ main \in {"db", "redis", "topics", "start", "serving", "draining", "closing",
               "waiting", "cancelled", "exited"}
  /\ tries \in 1..StartAttempts
  /\ open \in {<<>>, <<"db">>, <<"db", "redis">>, <<"db", "redis", "producer">>, Full}
  /\ done \in BOOLEAN /\ cut \in BOOLEAN

\* See MainTypeOK.
LoopTypeOK ==
  /\ loop \in {"none", "fetch", "handle", "tx", "publish", "deadletter", "commit", "returned"}
  /\ attempt \in 0..HandlerAttempts
  /\ outcome \in {"pending", "handled", "dead", "dropped", "lost"}
  /\ commits \subseteq {"pending", "handled", "dead", "dropped", "lost"}
  /\ fetched \in 0..MaxFetches

\* The pool; its set of users is finite, so that it has a size.
PoolOK ==
  /\ conns \subseteq Requests \cup {"loop"}
  /\ IsFiniteSet(conns) /\ Cardinality(conns) <= MaxConns

\* See MainTypeOK.
RequestsTypeOK == requests \in [Requests -> {"none", "active", "query", "answered"}]

\* What is in the stack of deferred closes is open.
LEMMA Opened ==
  /\ ~\E k \in DOMAIN <<>> : <<>>[k] = "reader"
  /\ \A x \in {"db", "redis", "producer", "reader"} : \E k \in DOMAIN Full : Full[k] = x
<1>1. DOMAIN Full = 1..4 /\ Full[1] = "db" /\ Full[2] = "redis" /\ Full[3] = "producer"
      /\ Full[4] = "reader"
  BY DEF Full
<1>2. 1 \in 1..4 /\ 2 \in 1..4 /\ 3 \in 1..4 /\ 4 \in 1..4
  OBVIOUS
<1> HIDE DEF Full
<1>3. \A x \in {"db", "redis", "producer", "reader"} : \E k \in DOMAIN Full : Full[k] = x
  BY <1>1, <1>2
<1>4. DOMAIN <<>> = {}
  OBVIOUS
<1> QED BY <1>3, <1>4

\* The reader is the first to be closed: while it is open everything is.
LEMMA ReaderOpen ==
  ASSUME MainTypeOK
  PROVE  IsOpen("reader") <=> open = Full
<1>1. CASE open = Full
  BY <1>1, Opened DEF IsOpen
<1>2. CASE open = <<>>
  BY <1>2, Opened DEF IsOpen, Full
<1>3. CASE open = <<"db">>
  BY <1>3 DEF IsOpen, Full
<1>4. CASE open = <<"db", "redis">>
  BY <1>4 DEF IsOpen, Full
<1>5. CASE open = <<"db", "redis", "producer">>
  BY <1>5 DEF IsOpen, Full
<1> QED BY <1>1, <1>2, <1>3, <1>4, <1>5 DEF MainTypeOK

\* What main opens.
Resources == {"db", "redis", "producer", "reader"}

\* A sequence with the elements of one of the stacks is this stack.
LEMMA Stack ==
  ASSUME NEW s \in Seq(Resources)
  PROVE  /\ Len(s) = 0 => s = <<>>
         /\ Len(s) = 1 /\ s[1] = "db" => s = <<"db">>
         /\ Len(s) = 2 /\ s[1] = "db" /\ s[2] = "redis" => s = <<"db", "redis">>
         /\ Len(s) = 3 /\ s[1] = "db" /\ s[2] = "redis" /\ s[3] = "producer"
              => s = <<"db", "redis", "producer">>
         /\ Len(s) = 4 /\ s[1] = "db" /\ s[2] = "redis" /\ s[3] = "producer" /\ s[4] = "reader"
              => s = Full
BY DEF Full

\* The stacks are built one from the other.
LEMMA StackGrows ==
  /\ Append(<<>>, "db") = <<"db">>
  /\ Append(<<"db">>, "redis") = <<"db", "redis">>
  /\ <<"db", "redis">> \o <<"producer", "reader">> = Full
<1>1. /\ <<"db">> \in Seq(Resources) /\ "redis" \in Resources
      /\ <<"db", "redis">> \in Seq(Resources) /\ <<"producer", "reader">> \in Seq(Resources)
  BY DEF Resources
<1>2. Append(<<"db">>, "redis") = <<"db", "redis">>
  <2> DEFINE s == Append(<<"db">>, "redis")
  <2>1. s \in Seq(Resources) /\ Len(s) = 2 /\ s[1] = "db" /\ s[2] = "redis"
    BY <1>1, AppendProperties
  <2> HIDE DEF s
  <2>2. s = <<"db", "redis">>
    BY <2>1, Stack
  <2> QED BY <2>2 DEF s
<1>3. <<"db", "redis">> \o <<"producer", "reader">> = Full
  <2> DEFINE s == <<"db", "redis">> \o <<"producer", "reader">>
  <2>1. /\ s \in Seq(Resources) /\ Len(s) = 4
        /\ \A i \in 1..4 : s[i] = IF i <= 2 THEN <<"db", "redis">>[i] ELSE <<"producer", "reader">>[i - 2]
    BY <1>1, ConcatProperties
  <2>2. s[1] = "db" /\ s[2] = "redis" /\ s[3] = "producer" /\ s[4] = "reader"
    BY <2>1
  <2> HIDE DEF s
  <2>3. s = Full
    BY <2>1, <2>2, Stack
  <2> QED BY <2>3 DEF s
<1> QED BY <1>2, <1>3

\* The stack without its last element.
LEMMA StackShrinks ==
  ASSUME NEW s \in Seq(Resources), s # <<>>, NEW t, t = SubSeq(s, 1, Len(s) - 1)
  PROVE  t \in Seq(Resources) /\ Len(t) = Len(s) - 1 /\ \A i \in 1..Len(t) : t[i] = s[i]
<1> DEFINE n == Len(s) - 1
<1>1. n \in Nat /\ \A i \in 1..n : s[i] \in Resources
  BY EmptySeq, ElementOfSeq
<1> HIDE DEF n
<1>2. /\ SubSeq(s, 1, n) \in Seq(Resources)
      /\ Len(SubSeq(s, 1, n)) = (IF 1 <= n THEN n - 1 + 1 ELSE 0)
      /\ \A i \in 1..n - 1 + 1 : SubSeq(s, 1, n)[i] = s[1 + i - 1]
  BY <1>1, SubSeqProperties
<1>3. t = SubSeq(s, 1, n)
  BY DEF n
<1>4. t \in Seq(Resources) /\ Len(t) = n
  BY <1>1, <1>2, <1>3
<1>5. ASSUME NEW i \in 1..n PROVE t[i] = s[i]
  <2>1. i \in 1..n - 1 + 1 /\ 1 + i - 1 = i
    BY <1>1
  <2> QED BY <1>2, <1>3, <2>1
<1> QED BY <1>4, <1>5 DEF n

\* What the next deferred Close leaves open.
LEMMA CloseLastOpen ==
  ASSUME MainTypeOK, CloseLast
  PROVE  /\ open' \in {<<>>, <<"db">>, <<"db", "redis">>, <<"db", "redis", "producer">>}
         /\ main' \in {"waiting", "closing"} /\ (main' = "waiting" => open' = <<>>)
<1>1. /\ open # <<>> /\ open' = SubSeq(open, 1, Len(open) - 1)
      /\ main' = (IF open[Len(open)] = "db" THEN "waiting" ELSE "closing")
  BY DEF CloseLast
<1>2. open \in Seq(Resources)
  <2>1. <<>> \in Seq(Resources) /\ <<"db">> \in Seq(Resources) /\ <<"db", "redis">> \in Seq(Resources)
    BY DEF Resources
  <2>2. <<"db", "redis", "producer">> \in Seq(Resources) /\ Full \in Seq(Resources)
    BY DEF Full, Resources
  <2> QED BY <2>1, <2>2 DEF MainTypeOK
<1>3. open' \in Seq(Resources) /\ Len(open') = Len(open) - 1 /\ \A i \in 1..Len(open') : open'[i] = open[i]
  BY <1>1, <1>2, StackShrinks
<1>4. CASE open = <<"db">>
  <2>1. Len(open') = 0 /\ open[Len(open)] = "db"
    BY <1>3, <1>4
  <2>2. open' = <<>>
    BY <1>3, <2>1, Stack
  <2> QED BY <1>1, <2>1, <2>2
<1>5. CASE open = <<"db", "redis">>
  <2>1. Len(open') = 1 /\ open'[1] = "db" /\ open[Len(open)] = "redis"
    BY <1>3, <1>5
  <2>2. open' = <<"db">>
    BY <1>3, <2>1, Stack
  <2> QED BY <1>1, <2>1, <2>2
<1>6. CASE open = <<"db", "redis", "producer">>
  <2>1. Len(open') = 2 /\ open'[1] = "db" /\ open'[2] = "redis" /\ open[Len(open)] = "producer"
    BY <1>3, <1>6
  <2>2. open' = <<"db", "redis">>
    BY <1>3, <2>1, Stack
  <2> QED BY <1>1, <2>1, <2>2
<1>7. CASE open = Full
  <2>1. /\ Len(open') = 3 /\ open'[1] = "db" /\ open'[2] = "redis" /\ open'[3] = "producer"
        /\ open[Len(open)] = "reader"
    BY <1>3, <1>7 DEF Full
  <2>2. open' = <<"db", "redis", "producer">>
    BY <1>3, <2>1, Stack
  <2> QED BY <1>1, <2>1, <2>2
<1> QED BY <1>1, <1>4, <1>5, <1>6, <1>7 DEF MainTypeOK

\* The invariant, cut the way the proofs below need it: what is closed under a
\* request follows from where main is.
LEMMA Parts ==
  /\ IInv => MainTypeOK /\ LoopTypeOK /\ PoolOK /\ RequestsTypeOK
  /\ MainTypeOK' /\ LoopTypeOK' /\ PoolOK' /\ RequestsTypeOK' /\ InStep' /\ StoppingLosesNothing'
       => IInv'
<1>1. IInv => MainTypeOK /\ LoopTypeOK /\ PoolOK /\ RequestsTypeOK
  BY DEF IInv, TypeOK, MainTypeOK, LoopTypeOK, PoolOK, RequestsTypeOK, Full
<1>2. ASSUME InStep' PROVE DrainedBeforeClose'
  <2> SUFFICES ASSUME NEW q \in Requests, InFlight(q)', ~cut',
                      NEW x \in {"db", "redis", "producer"}
               PROVE  IsOpen(x)'
    BY DEF DrainedBeforeClose
  <2>1. open' = Full
    BY <1>2 DEF InStep, Full
  <2> QED BY <2>1, Opened DEF IsOpen
<1>3. MainTypeOK' /\ LoopTypeOK' /\ PoolOK' /\ RequestsTypeOK' => TypeOK' /\ IsFiniteSet(conns)'
  BY DEF TypeOK, MainTypeOK, LoopTypeOK, PoolOK, RequestsTypeOK, Full
<1> QED BY <1>1, <1>2, <1>3 DEF IInv

\* main connects its dependencies and starts the loop and the server.
LEMMA StartStep ==
  ASSUME IInv, Connected \/ TopicsReady \/ StartFail \/ Start
  PROVE  IInv'
<1>1. /\ UNCHANGED <<done, cut, requests, conns, attempt, outcome, commits, fetched>>
      /\ main \in {"db", "redis", "topics", "start"} /\ ~done /\ loop = "none"
  BY DEF Connected, TopicsReady, StartFail, Start, loopVars, IInv, TypeOK, InStep
<1>2. \/ Connected /\ main = "db" /\ main' = "redis" /\ open' = <<"db">>
      \/ Connected /\ main = "redis" /\ main' = "topics" /\ open' = <<"db", "redis">>
      \/ (TopicsReady \/ StartFail) /\ open' = open
      \/ Start /\ main' = "serving" /\ open' = Full
  <2>1. CASE Connected /\ main = "db"
    <3>1. main' = "redis" /\ open' = Append(<<>>, "db")
      BY <2>1 DEF Connected, IInv, InStep
    <3> QED BY <2>1, <3>1, StackGrows
  <2>2. CASE Connected /\ main = "redis"
    <3>1. main' = "topics" /\ open' = Append(<<"db">>, "redis")
      BY <2>2 DEF Connected, IInv, InStep
    <3> QED BY <2>2, <3>1, StackGrows
  <2>3. CASE Start
    <3>1. main' = "serving" /\ open' = <<"db", "redis">> \o <<"producer", "reader">>
      BY <2>3 DEF Start, IInv, InStep
    <3> QED BY <2>3, <3>1, StackGrows
  <2>4. Connected => main \in {"db", "redis"}
    BY DEF Connected
  <2>5. TopicsReady \/ StartFail => open' = open
    BY DEF TopicsReady, StartFail
  <2> QED BY <2>1, <2>2, <2>3, <2>4, <2>5
<1>3. \A q \in Requests : InFlight(q) => cut
  BY <1>1 DEF IInv, InStep
<1>4. LoopTypeOK' /\ PoolOK' /\ RequestsTypeOK' /\ StoppingLosesNothing'
  <2>1. loop' \in {loop, "fetch"}
    BY DEF Connected, TopicsReady, StartFail, Start, loopVars
  <2> QED BY <1>1, <2>1, Parts DEF LoopTypeOK, PoolOK, RequestsTypeOK, IInv, StoppingLosesNothing
<1>5. MainTypeOK'
  <2>1. tries' \in 1..StartAttempts
    BY LifecycleAssumption DEF Connected, TopicsReady, StartFail, Start, IInv, TypeOK
  <2>2. /\ main' \in {"redis", "topics", "start", "serving", "closing", main}
        /\ open' \in {open, <<"db">>, <<"db", "redis">>, Full}
    BY <1>2 DEF TopicsReady, StartFail
  <2> QED BY <1>1, <2>1, <2>2, Parts DEF MainTypeOK
<1>6. InStep'
  <2>1. CASE Connected
    BY <1>1, <1>2, <1>3, <2>1 DEF Connected, loopVars, InStep, InFlight
  <2>2. CASE TopicsReady \/ StartFail
    BY <1>1, <1>3, <2>2 DEF TopicsReady, StartFail, loopVars, IInv, InStep, InFlight
  <2>3. CASE Start
    BY <1>1, <1>2, <1>3, <2>3 DEF Start, InStep, InFlight, Full
  <2> QED BY <2>1, <2>2, <2>3
<1> QED BY <1>4, <1>5, <1>6, Parts

\* httpx.Run ends, main closes what is open, cancels the context and returns.
LEMMA StopStep ==
  ASSUME IInv, \/ Signal \/ ListenError \/ Drained \/ DrainTimeout
               \/ CloseLast \/ PoolClosed \/ Cancel \/ Exit
  PROVE  IInv'
<1>1. /\ UNCHANGED <<tries, requests, conns, loopVars>>
      /\ main \in {"serving", "draining", "closing", "waiting", "cancelled"}
  BY DEF Signal, ListenError, Drained, DrainTimeout, CloseLast, PoolClosed, Cancel, Exit
<1>2. LoopTypeOK' /\ PoolOK' /\ RequestsTypeOK' /\ StoppingLosesNothing'
  BY <1>1, Parts DEF loopVars, LoopTypeOK, PoolOK, RequestsTypeOK, IInv, StoppingLosesNothing
<1>3. CASE CloseLast
  <2>1. MainTypeOK /\ InStep
    BY Parts DEF IInv
  <2>2. /\ open' \in {<<>>, <<"db">>, <<"db", "redis">>, <<"db", "redis", "producer">>}
        /\ main' \in {"waiting", "closing"} /\ (main' = "waiting" => open' = <<>>)
    BY <1>3, <2>1, CloseLastOpen
  <2>3. MainTypeOK'
    BY <1>1, <1>3, <2>1, <2>2 DEF CloseLast, MainTypeOK
  <2>4. open' # Full
    BY <2>2 DEF Full
  <2>5. ~IsOpen("reader")'
    <3>1. MainTypeOK' => (IsOpen("reader")' <=> open' = Full)
      <4>1. CASE open' = <<>>
        BY <4>1, Opened DEF IsOpen, Full
      <4>2. CASE open' = <<"db">>
        BY <4>2 DEF IsOpen, Full
      <4>3. CASE open' = <<"db", "redis">>
        BY <4>3 DEF IsOpen, Full
      <4>4. CASE open' = <<"db", "redis", "producer">>
        BY <4>4 DEF IsOpen, Full
      <4> QED BY <2>2, <4>1, <4>2, <4>3, <4>4
    <3> QED BY <2>3, <2>4, <3>1
  <2>6. InStep'
    BY <1>1, <1>3, <2>1, <2>2, <2>5 DEF CloseLast, loopVars, InStep, InFlight
  <2> QED BY <1>2, <2>3, <2>6, Parts
<1>4. CASE Signal \/ ListenError \/ Drained \/ DrainTimeout \/ PoolClosed \/ Cancel \/ Exit
  <2>1. /\ open' = open /\ done' \in BOOLEAN /\ cut' \in {cut, TRUE}
        /\ main' \in {"draining", "closing", "cancelled", "exited"}
        /\ main' \in {"cancelled", "exited"} => open = <<>>
        /\ done' => main' \in {"cancelled", "exited"}
        /\ main' = "draining" => main = "serving"
    <3>1. MainTypeOK /\ InStep
      BY Parts DEF IInv
    <3>2. CASE Signal \/ ListenError \/ Drained \/ DrainTimeout
      <4>1. /\ open' = open /\ done' = done /\ cut' \in {cut, TRUE} /\ main \in {"serving", "draining"}
            /\ main' \in {"draining", "closing"} /\ (main' = "draining" => main = "serving")
        BY <3>2 DEF Signal, ListenError, Drained, DrainTimeout
      <4>2. done = FALSE
        BY <3>1, <4>1 DEF MainTypeOK, InStep
      <4> QED BY <4>1, <4>2
    <3>3. CASE PoolClosed
      BY <3>1, <3>3 DEF PoolClosed, MainTypeOK, InStep
    <3>4. CASE Cancel \/ Exit
      BY <3>1, <3>4 DEF Cancel, Exit, MainTypeOK, InStep
    <3> QED BY <1>4, <3>2, <3>3, <3>4
  <2>2. MainTypeOK'
    BY <1>1, <2>1, Parts DEF MainTypeOK
  <2>3. IsOpen("reader")' <=> IsOpen("reader")
    BY <2>1 DEF IsOpen
  <2>4. ASSUME NEW q \in Requests, InFlight(q)' PROVE cut' \/ main' \in {"serving", "draining"}
    BY <1>1, <1>4, <2>4 DEF Signal, ListenError, Drained, DrainTimeout, PoolClosed, Cancel, Exit,
                            InFlight, IInv, InStep
  <2>5. InStep'
    BY <1>1, <2>1, <2>3, <2>4 DEF loopVars, IInv, InStep
  <2> QED BY <1>2, <2>2, <2>5, Parts
<1> QED BY <1>3, <1>4

\* A user of the pool comes or goes.
LEMMA PoolStep ==
  ASSUME PoolOK, NEW x \in Requests \cup {"loop"}
  PROVE  /\ Free /\ conns' = conns \cup {x} => PoolOK'
         /\ conns' = conns \ {x} => PoolOK'
         /\ conns' = conns => PoolOK'
<1>1. Cardinality(conns) \in Nat /\ MaxConns \in Nat
  BY FS_CardinalityType, LifecycleAssumption DEF PoolOK
<1>2. /\ IsFiniteSet(conns \cup {x})
      /\ Cardinality(conns \cup {x}) = IF x \in conns THEN Cardinality(conns) ELSE Cardinality(conns) + 1
  BY FS_AddElement DEF PoolOK
<1>3. /\ IsFiniteSet(conns \ {x})
      /\ Cardinality(conns \ {x}) = IF x \in conns THEN Cardinality(conns) - 1 ELSE Cardinality(conns)
  BY FS_RemoveElement DEF PoolOK
<1>4. ASSUME Free, conns' = conns \cup {x} PROVE PoolOK'
  BY <1>1, <1>2, <1>4 DEF Free, PoolOK
<1>5. ASSUME conns' = conns \ {x} PROVE PoolOK'
  BY <1>1, <1>3, <1>5 DEF PoolOK
<1>6. ASSUME conns' = conns PROVE PoolOK'
  BY <1>6 DEF PoolOK
<1> QED BY <1>4, <1>5, <1>6

\* Steps of a request.
LEMMA RequestStep ==
  ASSUME IInv, NEW q \in Requests, Arrive(q) \/ Query(q) \/ Answered(q)
  PROVE  IInv'
<1>1. UNCHANGED <<mainVars, loopVars>>
  BY DEF Arrive, Query, Answered
<1>2. MainTypeOK' /\ LoopTypeOK' /\ StoppingLosesNothing'
  BY <1>1, Parts DEF mainVars, loopVars, MainTypeOK, LoopTypeOK, IInv, StoppingLosesNothing
<1>3. PoolOK'
  <2>1. PoolOK
    BY Parts
  <2>2. \/ Free /\ conns' = conns \cup {q}
        \/ conns' = conns \ {q}
        \/ conns' = conns
    BY DEF Arrive, Query, Answered
  <2> QED BY <2>1, <2>2, PoolStep
<1>4. RequestsTypeOK'
  BY Parts DEF Arrive, Query, Answered, RequestsTypeOK
<1>5. InStep'
  <2>1. ASSUME NEW p \in Requests, InFlight(p)' PROVE InFlight(p) \/ main = "serving"
    BY <2>1 DEF Arrive, Query, Answered, InFlight, IInv, TypeOK
  <2>2. IsOpen("reader")' <=> IsOpen("reader")
    BY <1>1 DEF IsOpen, mainVars
  <2> QED BY <1>1, <2>1, <2>2 DEF mainVars, loopVars, IInv, InStep
<1> QED BY <1>2, <1>3, <1>4, <1>5, Parts

\* Without producer there is no reader.
LEMMA ProducerClosed ==
  ASSUME MainTypeOK, ~IsOpen("producer")
  PROVE  ~IsOpen("reader")
<1>1. open # Full
  BY Opened DEF IsOpen
<1> QED BY <1>1, ReaderOpen

\* A failed attempt: only when the context is done, which is after the reader was
\* closed, the message is given up.
LEMMA AttemptFailsStep ==
  ASSUME IInv, AttemptFails, loop # "none"
  PROVE  /\ loop' \in {"handle", "deadletter", "commit"} /\ attempt' \in 0..HandlerAttempts
         /\ outcome' \in {outcome, "lost"} /\ UNCHANGED <<commits, fetched>>
         /\ loop' = "commit" => outcome' = "lost" /\ ~IsOpen("reader")
<1>1. MainTypeOK /\ LoopTypeOK /\ InStep
  BY Parts DEF IInv
<1>2. attempt < HandlerAttempts => attempt + 1 \in 0..HandlerAttempts
  BY <1>1, LifecycleAssumption DEF LoopTypeOK
<1>3. done => ~IsOpen("reader")
  BY <1>1, ReaderOpen DEF InStep, Full
<1> QED BY <1>1, <1>2, <1>3 DEF AttemptFails, LoopTypeOK

\* Steps of the consumer loop.
LEMMA LoopStep ==
  ASSUME IInv, Fetch \/ Return \/ Handler \/ DeadLetter \/ Commit
  PROVE  IInv'
<1> DEFINE Settled == /\ loop' = "commit" => outcome' # "pending"
                      /\ loop' = "commit" /\ outcome' = "lost" => ~IsOpen("reader")
                      /\ {"pending", "lost"} \cap commits' = {}
<1>1. UNCHANGED <<mainVars, requests>> /\ loop # "none"
  BY DEF Fetch, Return, Handler, DeadLetter, Commit, Begin, BeginFail, TxOk, TxFail, PublishOk, PublishFail
<1>2. MainTypeOK /\ LoopTypeOK /\ PoolOK /\ InStep /\ {"pending", "lost"} \cap commits = {}
  BY Parts DEF IInv, StoppingLosesNothing
<1>3. LoopTypeOK' /\ loop' # "none" /\ Settled
  <2>1. CASE Fetch
    <3>1. fetched' \in 0..MaxFetches /\ attempt' \in 0..HandlerAttempts
      BY <1>2, <2>1, LifecycleAssumption DEF Fetch, LoopTypeOK
    <3> QED BY <1>2, <2>1, <3>1 DEF Fetch, LoopTypeOK
  <2>2. CASE Return \/ Begin
    BY <1>2, <2>2 DEF Return, Begin, LoopTypeOK
  <2>3. CASE BeginFail \/ TxFail \/ PublishFail
    <3>1. AttemptFails
      BY <2>3 DEF BeginFail, TxFail, PublishFail
    <3> QED BY <1>1, <1>2, <3>1, AttemptFailsStep DEF LoopTypeOK
  <2>4. CASE TxOk \/ PublishOk
    <3>1. /\ loop' \in {"publish", "commit"} /\ (loop' = "commit" => outcome' = "handled")
          /\ outcome' \in {outcome, "handled"} /\ UNCHANGED <<attempt, commits, fetched>>
      BY <2>4 DEF TxOk, PublishOk
    <3> QED BY <1>2, <3>1 DEF LoopTypeOK
  <2>5. CASE DeadLetter
    <3>1. /\ loop' = "commit" /\ outcome' \in {"dead", "dropped", "lost"}
          /\ outcome' = "lost" => ~IsOpen("reader")
          /\ UNCHANGED <<attempt, commits, fetched>>
      BY <1>2, <2>5, ProducerClosed DEF DeadLetter
    <3> QED BY <1>2, <3>1 DEF LoopTypeOK
  <2>6. CASE Commit
    <3>1. /\ loop = "commit" /\ loop' = "fetch" /\ UNCHANGED <<attempt, outcome, fetched>>
          /\ commits' = commits \/ (IsOpen("reader") /\ commits' = commits \cup {outcome})
      BY <2>6 DEF Commit
    <3>2. IsOpen("reader") => outcome \notin {"pending", "lost"}
      BY <1>2, <3>1 DEF InStep
    <3> QED BY <1>2, <3>1, <3>2 DEF LoopTypeOK
  <2> QED BY <2>1, <2>2, <2>3, <2>4, <2>5, <2>6 DEF Handler
<1>4. PoolOK'
  <2>1. \/ Free /\ conns' = conns \cup {"loop"}
        \/ conns' = conns \ {"loop"}
        \/ conns' = conns
    BY DEF Fetch, Return, Handler, DeadLetter, Commit, Begin, BeginFail, TxOk, TxFail, PublishOk, PublishFail
  <2> QED BY <1>2, <2>1, PoolStep
<1>5. MainTypeOK' /\ RequestsTypeOK'
  BY <1>1, Parts DEF mainVars, MainTypeOK, RequestsTypeOK
<1>6. InStep'
  <2>1. IsOpen("reader")' <=> IsOpen("reader")
    BY <1>1 DEF IsOpen, mainVars
  <2>2. \A q \in Requests : InFlight(q)' <=> InFlight(q)
    BY <1>1 DEF InFlight
  <2>3. main \notin {"db", "redis", "topics", "start"}
    BY <1>1, <1>2 DEF InStep
  <2> QED BY <1>1, <1>2, <1>3, <2>1, <2>2, <2>3 DEF mainVars, InStep
<1>7. StoppingLosesNothing'
  BY <1>3 DEF StoppingLosesNothing
<1> QED BY <1>3, <1>4, <1>5, <1>6, <1>7, Parts

\* Every step preserves the invariant.
LEMMA IInvStep == IInv /\ [Next]_vars => IInv'
<1> SUFFICES ASSUME IInv, [Next]_vars PROVE IInv'
  OBVIOUS
<1>1. CASE UNCHANGED vars
  <2>1. MainTypeOK' /\ LoopTypeOK' /\ PoolOK' /\ RequestsTypeOK' /\ StoppingLosesNothing'
    BY <1>1, Parts DEF vars, mainVars, loopVars, MainTypeOK, LoopTypeOK, PoolOK, RequestsTypeOK,
                       IInv, StoppingLosesNothing
  <2>2. InStep'
    BY <1>1 DEF vars, mainVars, loopVars, IInv, InStep, InFlight, IsOpen
  <2> QED BY <2>1, <2>2, Parts
<1> QED BY <1>1, StartStep, StopStep, RequestStep, LoopStep DEF Next, Main

\* The invariant holds in the initial state.
LEMMA InitIInv == Init => IInv
<1> SUFFICES ASSUME Init PROVE IInv
  OBVIOUS
<1>1. conns = {} /\ IsFiniteSet(conns) /\ Cardinality(conns) = 0
  BY FS_EmptySet DEF Init
<1>2. TypeOK
  <2>1. /\ tries \in 1..StartAttempts /\ attempt \in 0..HandlerAttempts /\ fetched \in 0..MaxFetches
        /\ Cardinality(conns) <= MaxConns
    BY <1>1, LifecycleAssumption DEF Init
  <2>2. /\ requests \in [Requests -> {"none", "active", "query", "answered"}]
        /\ conns \subseteq Requests \cup {"loop"}
        /\ commits \subseteq {"pending", "handled", "dead", "dropped", "lost"}
    BY DEF Init
  <2>3. /\ main \in {"db", "redis", "topics", "start", "serving", "draining", "closing",
                      "waiting", "cancelled", "exited"}
        /\ done \in BOOLEAN /\ cut \in BOOLEAN
        /\ outcome \in {"pending", "handled", "dead", "dropped", "lost"}
    BY DEF Init
  <2>4. loop \in {"none", "fetch", "handle", "tx", "publish", "deadletter", "commit", "returned"}
    BY DEF Init
  <2>5. open \in {<<>>, <<"db">>, <<"db", "redis">>, <<"db", "redis", "producer">>,
                   <<"db", "redis", "producer", "reader">>}
    BY DEF Init
  <2> QED BY <2>1, <2>2, <2>3, <2>4, <2>5 DEF TypeOK
<1>3. InStep /\ DrainedBeforeClose
  BY DEF Init, InStep, DrainedBeforeClose, InFlight
<1> QED BY <1>1, <1>2, <1>3 DEF Init, IInv, StoppingLosesNothing

\* The invariant holds in every reachable state; the theorems below are its parts.
THEOREM Inductive == Spec => []IInv
BY InitIInv, IInvStep, PTL DEF Spec

-----------------------------------------------------------------------------

\* A message whose processing failed because the process stops is not committed
\* (main.go, the order of the deferred calls; consumer.go, handleWithRetry).
THEOREM StopKeepsMessages == Spec => []StoppingLosesNothing
<1>1. IInv => StoppingLosesNothing
  BY DEF IInv
<1> QED BY <1>1, Inductive, PTL

\* Database, Redis and producer stay open under a request in flight, unless the
\* shutdown timed out or the listener broke (httpx/server.go, Run).
THEOREM RequestsDrained == Spec => []DrainedBeforeClose
<1>1. IInv => DrainedBeforeClose
  BY DEF IInv
<1> QED BY <1>1, Inductive, PTL
=============================================================================
