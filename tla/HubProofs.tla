------------------------------ MODULE HubProofs ------------------------------
(***************************************************************************)
(* Proofs about Hub: no channel is closed twice or written after its       *)
(* close, and what a client receives has neither gap nor repetition, for   *)
(* any number of connections, messages and capacities.                     *)
(***************************************************************************)
EXTENDS Hub, Integers, SequenceTheorems, TLAPS

\* Moving the head of a queue to the end of another.
LEMMA HeadMoves ==
  ASSUME NEW S, NEW s \in Seq(S), NEW t \in Seq(S), t # <<>>
  PROVE  Append(s, Head(t)) \o Tail(t) = s \o t
<1> DEFINE u == Append(s, Head(t))
           v == Tail(t)
<1>1. /\ u \in Seq(S) /\ Len(u) = Len(s) + 1
      /\ \A i \in 1..Len(s) : u[i] = s[i]
      /\ u[Len(s) + 1] = Head(t)
  BY HeadTailProperties, AppendProperties
<1>2. v \in Seq(S) /\ Len(v) = Len(t) - 1 /\ \A i \in 1..Len(v) : v[i] = t[i + 1]
  BY HeadTailProperties
<1>3. Head(t) = t[1] /\ Len(t) \in Nat \ {0} /\ Len(s) \in Nat
  BY EmptySeq
<1> HIDE DEF u, v
<1>4. /\ u \o v \in Seq(S) /\ Len(u \o v) = Len(u) + Len(v)
      /\ \A i \in 1..Len(u) + Len(v) : (u \o v)[i] = IF i <= Len(u) THEN u[i] ELSE v[i - Len(u)]
  BY <1>1, <1>2, ConcatProperties
<1>5. /\ s \o t \in Seq(S) /\ Len(s \o t) = Len(s) + Len(t)
      /\ \A i \in 1..Len(s) + Len(t) : (s \o t)[i] = IF i <= Len(s) THEN s[i] ELSE t[i - Len(s)]
  BY ConcatProperties
<1> DEFINE a == u \o v
           b == s \o t
<1> HIDE DEF a, b
<1>6. ASSUME NEW i \in 1..Len(b) PROVE a[i] = b[i]
  <2> USE DEF a, b
  <2>1. i \in Int /\ Len(u) = Len(s) + 1 /\ Len(u) + Len(v) = Len(s) + Len(t)
    BY <1>1, <1>2, <1>3, <1>5
  <2>2. CASE i <= Len(s)
    BY <1>1, <1>3, <1>4, <1>5, <2>1, <2>2
  <2>3. CASE i = Len(s) + 1
    BY <1>1, <1>3, <1>4, <1>5, <2>1, <2>3
  <2>4. CASE i > Len(s) + 1
    <3>1. i - Len(u) \in 1..Len(v) /\ i - Len(u) + 1 = i - Len(s)
      BY <1>1, <1>2, <1>3, <1>5, <2>1, <2>4
    <3>2. a[i] = v[i - Len(u)]
      BY <1>1, <1>2, <1>3, <1>4, <1>5, <2>1, <2>4
    <3>3. b[i] = t[i - Len(s)]
      BY <1>3, <1>5, <2>1, <2>4
    <3> HIDE DEF a, b
    <3> QED BY <1>2, <3>1, <3>2, <3>3
  <2> HIDE DEF a, b
  <2> QED BY <1>3, <2>1, <2>2, <2>3, <2>4
<1>7. a = b
  <2>1. a \in Seq(S) /\ b \in Seq(S) /\ Len(a) = Len(b)
    BY <1>1, <1>2, <1>3, <1>4, <1>5 DEF a, b
  <2> QED BY <1>6, <2>1, SeqEqual
<1> QED BY <1>7 DEF a, b, u, v

\* Appending to the second of two concatenated sequences.
LEMMA AppendRight ==
  ASSUME NEW S, NEW s \in Seq(S), NEW t \in Seq(S), NEW e \in S
  PROVE  s \o Append(t, e) = Append(s \o t, e)
<1>1. Append(t, e) = t \o <<e>> /\ <<e>> \in Seq(S) /\ s \o t \in Seq(S)
  BY AppendIsConcat, ConcatProperties
<1>2. (s \o t) \o <<e>> = Append(s \o t, e)
  BY <1>1, AppendIsConcat
<1> QED BY <1>1, <1>2, ConcatAssociative

\* A queue in order stays in order when its head moves on to the queue before it.
LEMMA OrderMoves ==
  ASSUME NEW s \in Seq(Nat), NEW t \in Seq(Nat), t # <<>>,
         Ascending(s), Ascending(t), Before(s, t)
  PROVE  /\ Ascending(Append(s, Head(t))) /\ Ascending(Tail(t))
         /\ Before(Append(s, Head(t)), Tail(t))
<1> DEFINE u == Append(s, Head(t))
           v == Tail(t)
<1>1. /\ u \in Seq(Nat) /\ Len(u) = Len(s) + 1
      /\ \A i \in 1..Len(s) : u[i] = s[i] /\ u[i] \in Nat
      /\ u[Len(s) + 1] = t[1]
  BY HeadTailProperties, AppendProperties, ElementOfSeq
<1>2. v \in Seq(Nat) /\ Len(v) = Len(t) - 1 /\ \A i \in 1..Len(v) : v[i] = t[i + 1]
  BY HeadTailProperties
<1>3. Len(t) \in Nat \ {0} /\ Len(s) \in Nat /\ \A i \in 1..Len(t) : t[i] \in Nat
  BY EmptySeq, ElementOfSeq
<1> HIDE DEF u, v
<1>4. Ascending(u)
  <2> SUFFICES ASSUME NEW j \in 1..Len(u), NEW k \in 1..Len(u), j < k PROVE u[j] < u[k]
    BY DEF Ascending
  <2>1. j \in 1..Len(s) /\ 1 \in 1..Len(t)
    BY <1>1, <1>3
  <2>2. CASE k \in 1..Len(s)
    BY <1>1, <2>1, <2>2 DEF Ascending
  <2>3. CASE k = Len(s) + 1
    BY <1>1, <2>1, <2>3 DEF Before
  <2>4. Len(u) = Len(s) + 1 /\ Len(s) \in Nat
    BY <1>1, <1>3
  <2> QED BY <2>2, <2>3, <2>4
<1>5. Ascending(v)
  <2> SUFFICES ASSUME NEW j \in 1..Len(v), NEW k \in 1..Len(v), j < k PROVE v[j] < v[k]
    BY DEF Ascending
  <2>1. j + 1 \in 1..Len(t) /\ k + 1 \in 1..Len(t) /\ j + 1 < k + 1
    BY <1>2, <1>3
  <2> QED BY <1>2, <2>1 DEF Ascending
<1>6. Before(u, v)
  <2> SUFFICES ASSUME NEW j \in 1..Len(u), NEW k \in 1..Len(v) PROVE u[j] < v[k]
    BY DEF Before
  <2>1. k + 1 \in 1..Len(t) /\ v[k] = t[k + 1] /\ 1 \in 1..Len(t)
    BY <1>2, <1>3
  <2>2. CASE j <= Len(s)
    BY <1>1, <1>3, <2>1, <2>2 DEF Before
  <2>3. CASE j = Len(s) + 1
    BY <1>1, <1>3, <2>1, <2>3 DEF Ascending
  <2> QED BY <1>1, <1>3, <2>2, <2>3
<1> QED BY <1>4, <1>5, <1>6 DEF u, v

\* What lies behind or ahead of both queues does so after the move.
LEMMA OutsideMoves ==
  ASSUME NEW s \in Seq(Nat), NEW t \in Seq(Nat), NEW r \in Seq(Nat), NEW n \in Nat, t # <<>>
  PROVE  /\ Before(s, r) /\ Before(t, r) => Before(Append(s, Head(t)), r) /\ Before(Tail(t), r)
         /\ Before(r, s) /\ Before(r, t) => Before(r, Append(s, Head(t))) /\ Before(r, Tail(t))
         /\ UpTo(s, n) /\ UpTo(t, n) => UpTo(Append(s, Head(t)), n) /\ UpTo(Tail(t), n)
<1> DEFINE u == Append(s, Head(t))
           v == Tail(t)
<1>1. /\ u \in Seq(Nat) /\ Len(u) = Len(s) + 1
      /\ \A i \in 1..Len(s) : u[i] = s[i] /\ u[i] \in Nat
      /\ u[Len(s) + 1] = t[1]
  BY HeadTailProperties, AppendProperties, ElementOfSeq
<1>2. v \in Seq(Nat) /\ Len(v) = Len(t) - 1 /\ \A i \in 1..Len(v) : v[i] = t[i + 1]
  BY HeadTailProperties
<1>3. Len(t) \in Nat \ {0} /\ Len(s) \in Nat /\ 1 \in 1..Len(t)
  BY EmptySeq
<1>4. \A i \in 1..Len(u) : i \in 1..Len(s) \/ i = Len(s) + 1
  <2>1. Len(u) = Len(s) + 1 /\ Len(s) \in Nat
    BY <1>1, <1>3
  <2> HIDE DEF u
  <2> QED BY <2>1
<1>5. \A i \in 1..Len(v) : i + 1 \in 1..Len(t)
  BY <1>2, <1>3
<1> HIDE DEF u, v
<1>6. Before(s, r) /\ Before(t, r) => Before(u, r) /\ Before(v, r)
  BY <1>1, <1>2, <1>3, <1>4, <1>5 DEF Before
<1>7. Before(r, s) /\ Before(r, t) => Before(r, u) /\ Before(r, v)
  BY <1>1, <1>2, <1>3, <1>4, <1>5 DEF Before
<1>8. UpTo(s, n) /\ UpTo(t, n) => UpTo(u, n) /\ UpTo(v, n)
  BY <1>1, <1>2, <1>3, <1>4, <1>5 DEF UpTo
<1> QED BY <1>6, <1>7, <1>8 DEF u, v

\* The next message at the end of the last queue.
LEMMA OrderGrows ==
  ASSUME NEW s \in Seq(Nat), NEW r \in Seq(Nat), NEW n \in Nat,
         UpTo(s, n), UpTo(r, n), Ascending(s), Before(r, s)
  PROVE  /\ Ascending(Append(s, n + 1)) /\ UpTo(Append(s, n + 1), n + 1) /\ UpTo(r, n + 1)
         /\ Before(r, Append(s, n + 1))
<1> DEFINE u == Append(s, n + 1)
<1>1. /\ u \in Seq(Nat) /\ Len(u) = Len(s) + 1
      /\ \A i \in 1..Len(s) : u[i] = s[i] /\ s[i] \in Nat
      /\ u[Len(s) + 1] = n + 1
  BY AppendProperties, ElementOfSeq
<1>2. \A i \in 1..Len(r) : r[i] \in Nat
  BY ElementOfSeq
<1> HIDE DEF u
<1>3. \A i \in 1..Len(u) : i \in 1..Len(s) \/ i = Len(s) + 1
  <2>1. Len(u) = Len(s) + 1 /\ Len(s) \in Nat
    BY <1>1
  <2> QED BY <2>1
<1>4. Ascending(u)
  <2> SUFFICES ASSUME NEW j \in 1..Len(u), NEW k \in 1..Len(u), j < k PROVE u[j] < u[k]
    BY DEF Ascending
  <2>1. j \in 1..Len(s)
    <3>1. Len(u) = Len(s) + 1 /\ Len(s) \in Nat
      BY <1>1
    <3> QED BY <3>1
  <2>2. CASE k \in 1..Len(s)
    BY <1>1, <2>1, <2>2 DEF Ascending
  <2>3. CASE k = Len(s) + 1
    BY <1>1, <2>1, <2>3 DEF UpTo
  <2> QED BY <1>3, <2>2, <2>3
<1>5. UpTo(u, n + 1)
  <2> SUFFICES ASSUME NEW k \in 1..Len(u) PROVE u[k] <= n + 1
    BY DEF UpTo
  <2>1. CASE k \in 1..Len(s)
    <3>1. u[k] = s[k] /\ s[k] \in Nat /\ s[k] <= n
      BY <1>1, <2>1 DEF UpTo
    <3> QED BY <3>1
  <2>2. CASE k = Len(s) + 1
    BY <1>1, <2>2
  <2> QED BY <1>3, <2>1, <2>2
<1>6. UpTo(r, n + 1)
  BY <1>2 DEF UpTo
<1>7. Before(r, u)
  <2> SUFFICES ASSUME NEW j \in 1..Len(r), NEW k \in 1..Len(u) PROVE r[j] < u[k]
    BY DEF Before
  <2>1. CASE k \in 1..Len(s)
    BY <1>1, <2>1 DEF Before
  <2>2. CASE k = Len(s) + 1
    <3>1. r[j] \in Nat /\ r[j] <= n /\ u[k] = n + 1
      BY <1>1, <1>2, <2>2 DEF UpTo
    <3> QED BY <3>1
  <2> QED BY <1>3, <2>1, <2>2
<1> QED BY <1>4, <1>5, <1>6, <1>7 DEF u

-----------------------------------------------------------------------------

\* The types of the feed and of the hub.
FeedTypeOK ==
  /\ published \in 0..MaxMessages
  /\ sub \in Seq(1..MaxMessages) /\ log \in Seq(1..MaxMessages)
  /\ broadcast \in Seq(1..MaxMessages) /\ Len(broadcast) <= BroadcastCap
  /\ clients \subseteq Clients /\ todo \subseteq clients
  /\ current \in 0..MaxMessages /\ (current = 0 <=> todo = {})
  /\ stopped \in BOOLEAN

\* The types of what belongs to the clients.
ClientTypeOK ==
  /\ send \in [Clients -> Seq(1..MaxMessages)] /\ \A c \in Clients : Len(send[c]) <= SendCap
  /\ taken \in [Clients -> Seq(1..MaxMessages)]
  /\ closes \in [Clients -> Nat] /\ open \in [Clients -> BOOLEAN]
  /\ reader \in [Clients -> {"none", "registering", "reading", "unregistering", "done"}]
  /\ writer \in [Clients -> {"none", "waiting", "writing", "done"}]
  /\ joined \in [Clients -> Nat] /\ \A c \in Clients : joined[c] <= Len(log)

\* The part of NoGap that is about one client.
NoGapAt(c) ==
  /\ Len(Received(c)) <= Len(log) - joined[c]
  /\ \A k \in 1..Len(Received(c)) : Received(c)[k] = log[joined[c] + k]
  /\ c \in clients =>
       Len(Received(c)) = Len(log) - joined[c] - (IF c \in todo THEN 1 ELSE 0)

\* The part of NoPanic and NotYetRegistered that is about one client.
ClosedAt(c) ==
  /\ closes[c] <= 1 /\ (c \in clients => closes[c] = 0)
  /\ reader[c] \in {"none", "registering"} =>
       c \notin clients /\ closes[c] = 0 /\ send[c] = <<>> /\ taken[c] = <<>> /\ writer[c] = "none"

\* The invariant, cut the way the proofs below need it.
LEMMA Parts ==
  /\ IInv => FeedTypeOK /\ ClientTypeOK /\ FeedInOrder /\ \A c \in Clients : NoGapAt(c) /\ ClosedAt(c)
  /\ FeedTypeOK' /\ ClientTypeOK' /\ FeedInOrder' /\ (\A c \in Clients : NoGapAt(c)' /\ ClosedAt(c)')
       => IInv'
<1> USE DEF IInv, TypeOK, FeedTypeOK, ClientTypeOK, NotYetRegistered, NoPanic, NoGap, NoGapAt, ClosedAt
<1>1. IInv => FeedTypeOK /\ ClientTypeOK /\ FeedInOrder /\ \A c \in Clients : NoGapAt(c) /\ ClosedAt(c)
  OBVIOUS
<1>2. FeedTypeOK' /\ ClientTypeOK' /\ FeedInOrder' /\ (\A c \in Clients : NoGapAt(c)' /\ ClosedAt(c)')
        => IInv'
  <2>1. FeedInOrder' => \A j, k \in 1..Len(log') : j < k => log'[j] < log'[k]
    BY DEF FeedInOrder, Ascending
  <2> QED BY <2>1
<1> QED BY <1>1, <1>2

\* What was received are messages.
LEMMA ReceivedType ==
  ASSUME IInv, NEW c \in Clients
  PROVE  /\ send[c] \in Seq(1..MaxMessages) /\ taken[c] \in Seq(1..MaxMessages)
         /\ Received(c) \in Seq(1..MaxMessages) /\ Len(Received(c)) \in Nat
BY ConcatProperties DEF IInv, TypeOK, Received

\* The queues of the feed hold numbers.
LEMMA FeedNumbers ==
  ASSUME IInv
  PROVE  /\ published \in Nat /\ MaxMessages \in Nat /\ 1..MaxMessages \subseteq Nat
         /\ sub \in Seq(Nat) /\ broadcast \in Seq(Nat) /\ log \in Seq(Nat)
<1>1. published \in Nat /\ MaxMessages \in Nat /\ 1..MaxMessages \subseteq Nat
  BY HubAssumption DEF IInv, TypeOK
<1> QED BY <1>1, SeqMonotonic DEF IInv, TypeOK

\* A client to which nothing happens while log and the offers stand still.
LEMMA ClientFrame ==
  ASSUME IInv, NEW c \in Clients, UNCHANGED log,
         send'[c] = send[c], taken'[c] = taken[c], joined'[c] = joined[c],
         c \in clients' => c \in clients, c \in clients' => (c \in todo' <=> c \in todo)
  PROVE  NoGapAt(c)'
<1>1. Received(c)' = Received(c)
  BY DEF Received
<1> QED BY <1>1, Parts DEF NoGapAt

\* SubscribeRedis: a message arrives, or moves on to the broadcast channel.
LEMMA SubscribeStep ==
  ASSUME IInv, RedisPublish \/ Forward
  PROVE  IInv'
<1> USE DEF hubVars, pumpVars
<1>1. UNCHANGED <<hubVars, send, closes, joined, pumpVars>>
  BY DEF RedisPublish, Forward
<1>2. ASSUME NEW c \in Clients PROVE NoGapAt(c)' /\ ClosedAt(c)'
  BY <1>1, ClientFrame, Parts DEF ClosedAt
<1>3. ClientTypeOK'
  BY <1>1, Parts DEF ClientTypeOK
<1>4. CASE RedisPublish
  <2>1. published + 1 \in 1..MaxMessages
    BY <1>4, FeedNumbers DEF RedisPublish
  <2>2. /\ sub' \in {sub, Append(sub, published + 1)} /\ published' = published + 1
        /\ UNCHANGED broadcast
    BY <1>4 DEF RedisPublish
  <2>3. FeedTypeOK'
    <3>1. sub' \in Seq(1..MaxMessages)
      <4>1. sub \in Seq(1..MaxMessages)
        BY DEF IInv, TypeOK
      <4>2. Append(sub, published + 1) \in Seq(1..MaxMessages)
        BY <2>1, <4>1, AppendProperties
      <4> QED BY <2>2, <4>1, <4>2
    <3> QED BY <1>1, <2>1, <2>2, <3>1, Parts DEF FeedTypeOK
  <2>4. FeedInOrder'
    <3>1. FeedInOrder
      BY DEF IInv
    <3> DEFINE u == Append(sub, published + 1)
    <3>2. Ascending(u) /\ UpTo(u, published + 1) /\ Before(log, u) /\ Before(broadcast, u)
      BY <3>1, FeedNumbers, OrderGrows DEF FeedInOrder
    <3>3. UpTo(log, published + 1) /\ UpTo(broadcast, published + 1) /\ UpTo(sub, published + 1)
      <4>1. ASSUME NEW s \in Seq(Nat), UpTo(s, published) PROVE UpTo(s, published + 1)
        <5>1. ASSUME NEW k \in 1..Len(s) PROVE s[k] <= published + 1
          <6>1. s[k] \in Nat /\ s[k] <= published /\ published \in Nat
            BY <4>1, ElementOfSeq, FeedNumbers DEF UpTo
          <6> QED BY <6>1
        <5> QED BY <5>1 DEF UpTo
      <4> QED BY <3>1, <4>1, FeedNumbers DEF FeedInOrder
    <3> HIDE DEF u
    <3>4. sub' \in {sub, u}
      BY <2>2 DEF u
    <3> QED BY <1>1, <2>2, <3>1, <3>2, <3>3, <3>4 DEF FeedInOrder
  <2> QED BY <1>2, <1>3, <2>3, <2>4, Parts
<1>5. CASE Forward
  <2>1. /\ sub # <<>> /\ Len(broadcast) < BroadcastCap /\ UNCHANGED published
        /\ broadcast' = Append(broadcast, Head(sub)) /\ sub' = Tail(sub)
    BY <1>5 DEF Forward
  <2>2. /\ broadcast' \in Seq(1..MaxMessages) /\ sub' \in Seq(1..MaxMessages)
        /\ Len(broadcast') = Len(broadcast) + 1
    <3>1. sub \in Seq(1..MaxMessages) /\ broadcast \in Seq(1..MaxMessages)
      BY DEF IInv, TypeOK
    <3>2. Head(sub) \in 1..MaxMessages /\ Tail(sub) \in Seq(1..MaxMessages)
      BY <2>1, <3>1, HeadTailProperties
    <3>3. Append(broadcast, Head(sub)) \in Seq(1..MaxMessages)
          /\ Len(Append(broadcast, Head(sub))) = Len(broadcast) + 1
      BY <3>1, <3>2, AppendProperties
    <3> QED BY <2>1, <3>2, <3>3
  <2>3. FeedTypeOK'
    BY <1>1, <2>1, <2>2, HubAssumption, Parts DEF FeedTypeOK
  <2>4. FeedInOrder'
    <3>1. FeedInOrder
      BY DEF IInv
    <3>2. Ascending(broadcast') /\ Ascending(sub') /\ Before(broadcast', sub')
      BY <2>1, <3>1, FeedNumbers, OrderMoves DEF FeedInOrder
    <3>3. Before(log, broadcast') /\ Before(log, sub')
          /\ UpTo(broadcast', published) /\ UpTo(sub', published)
      BY <2>1, <3>1, FeedNumbers, OutsideMoves DEF FeedInOrder
    <3> QED BY <1>1, <2>1, <3>1, <3>2, <3>3 DEF FeedInOrder
  <2> QED BY <1>2, <1>3, <2>3, <2>4, Parts
<1> QED BY <1>4, <1>5

\* Run takes a message and is to offer it to every client.
LEMMA TakeBroadcastStep ==
  ASSUME IInv, TakeBroadcast
  PROVE  IInv'
<1> DEFINE m == Head(broadcast)
<1>1. /\ current = 0 /\ broadcast # <<>> /\ broadcast' = Tail(broadcast) /\ log' = Append(log, m)
      /\ todo' = clients /\ current' = (IF clients = {} THEN 0 ELSE m)
      /\ UNCHANGED <<feedVars, clients, stopped, send, closes, joined, pumpVars>>
  BY DEF TakeBroadcast, Selecting
<1>2. /\ m \in 1..MaxMessages /\ broadcast' \in Seq(1..MaxMessages)
      /\ Len(broadcast') = Len(broadcast) - 1 /\ Len(broadcast) \in Nat
  <2>1. broadcast \in Seq(1..MaxMessages)
    BY DEF IInv, TypeOK
  <2> QED BY <1>1, <2>1, HeadTailProperties, LenProperties
<1>3. /\ log' \in Seq(1..MaxMessages) /\ Len(log') = Len(log) + 1 /\ Len(log) \in Nat
      /\ \A k \in 1..Len(log) : log'[k] = log[k]
      /\ log' # <<>> /\ log'[Len(log')] = m
  BY <1>1, <1>2, AppendProperties DEF IInv, TypeOK
<1>4. FeedInOrder'
  <2>1. FeedInOrder
    BY DEF IInv
  <2>2. Ascending(log') /\ Ascending(broadcast') /\ Before(log', broadcast')
    BY <1>1, <2>1, FeedNumbers, OrderMoves DEF FeedInOrder
  <2>3. Before(log', sub) /\ Before(broadcast', sub)
        /\ UpTo(log', published) /\ UpTo(broadcast', published)
    BY <1>1, <2>1, FeedNumbers, OutsideMoves DEF FeedInOrder
  <2>4. current' # 0 => log' # <<>> /\ current' = log'[Len(log')]
    BY <1>1, <1>3
  <2> QED BY <1>1, <2>1, <2>2, <2>3, <2>4 DEF FeedInOrder, feedVars
<1> HIDE DEF m
<1>5. FeedTypeOK'
  <2>1. current' \in 0..MaxMessages /\ (current' = 0 <=> todo' = {})
    BY <1>1, <1>2, FeedNumbers
  <2>2. Len(broadcast') <= BroadcastCap
    BY <1>2, HubAssumption DEF IInv, TypeOK
  <2> QED BY <1>1, <1>2, <1>3, <2>1, <2>2, Parts DEF FeedTypeOK, feedVars
<1>6. ClientTypeOK'
  <2>1. ASSUME NEW c \in Clients PROVE joined[c] <= Len(log')
    BY <1>3 DEF IInv, TypeOK
  <2> QED BY <1>1, <2>1, Parts DEF ClientTypeOK, pumpVars
<1>7. ASSUME NEW c \in Clients PROVE NoGapAt(c)' /\ ClosedAt(c)'
  <2>1. Received(c)' = Received(c)
    BY <1>1 DEF Received, pumpVars
  <2>2. joined[c] \in Nat /\ c \notin todo /\ joined'[c] = joined[c]
    BY <1>1 DEF IInv, TypeOK
  <2>3. NoGapAt(c) /\ ClosedAt(c)
    BY Parts
  <2>4. Len(Received(c)) \in Nat
    BY ReceivedType
  <2>5. ASSUME NEW k \in 1..Len(Received(c)) PROVE Received(c)[k] = log'[joined[c] + k]
    <3>1. joined[c] + k \in 1..Len(log)
      BY <1>3, <2>2, <2>3, <2>4 DEF NoGapAt
    <3> QED BY <1>3, <2>3, <3>1 DEF NoGapAt
  <2>6. Len(Received(c)) <= Len(log') - joined[c]
        /\ (c \in clients => Len(Received(c)) = Len(log') - joined[c] - 1)
    BY <1>3, <2>2, <2>3, <2>4 DEF NoGapAt
  <2>7. NoGapAt(c)'
    BY <1>1, <2>1, <2>2, <2>5, <2>6 DEF NoGapAt
  <2> QED BY <1>1, <2>3, <2>7 DEF ClosedAt, pumpVars
<1> QED BY <1>4, <1>5, <1>6, <1>7, Parts

\* Steps that move no message of the feed.
LEMMA FeedFrame ==
  ASSUME IInv, UNCHANGED <<published, sub, broadcast, log>>, current' \in {0, current},
         clients' \subseteq Clients, todo' \subseteq clients', current' = 0 <=> todo' = {},
         stopped' \in BOOLEAN
  PROVE  FeedTypeOK' /\ FeedInOrder'
<1>1. FeedInOrder'
  BY DEF IInv, FeedInOrder
<1>2. current' \in 0..MaxMessages
  BY FeedNumbers DEF IInv, TypeOK
<1> QED BY <1>1, <1>2, Parts DEF FeedTypeOK

\* Run lets a client in or out, or ends: no message is in its hands.
LEMMA SelectStep ==
  ASSUME IInv, Stop \/ \E c \in Clients : Register(c) \/ Unregister(c)
  PROVE  IInv'
<1> USE DEF feedVars, pumpVars
<1>1. /\ current = 0 /\ todo = {} /\ UNCHANGED <<feedVars, broadcast, current, todo, log, send, taken>>
      /\ clients \subseteq Clients
  BY DEF Stop, Register, Unregister, Selecting, IInv, TypeOK
<1>2. closes \in [Clients -> Nat] /\ joined \in [Clients -> Nat]
  BY DEF IInv, TypeOK
<1>3. CASE Stop
  <2>1. /\ clients' = {} /\ stopped' = TRUE /\ UNCHANGED <<joined, open, reader, writer>>
        /\ closes' = [c \in Clients |-> IF c \in clients THEN closes[c] + 1 ELSE closes[c]]
    BY <1>3 DEF Stop, Close
  <2>2. FeedTypeOK' /\ FeedInOrder'
    BY <1>1, <2>1, FeedFrame
  <2>3. closes' \in [Clients -> Nat]
    BY <1>2, <2>1
  <2>4. ClientTypeOK'
    BY <1>1, <2>1, <2>3, Parts DEF ClientTypeOK
  <2>5. ASSUME NEW c \in Clients PROVE NoGapAt(c)' /\ ClosedAt(c)'
    <3>1. NoGapAt(c)'
      BY <1>1, <2>1, ClientFrame
    <3>2. closes'[c] = (IF c \in clients THEN closes[c] + 1 ELSE closes[c]) /\ closes[c] \in Nat
      BY <1>2, <2>1
    <3>3. ClosedAt(c)'
      BY <1>1, <2>1, <3>2, Parts DEF ClosedAt
    <3> QED BY <3>1, <3>3
  <2> QED BY <2>2, <2>4, <2>5, Parts
<1>4. CASE \E c \in Clients : Register(c)
  <2>1. PICK c \in Clients : Register(c)
    BY <1>4
  <2>2. /\ reader[c] = "registering" /\ clients' = clients \cup {c}
        /\ reader' = [reader EXCEPT ![c] = "reading"]
        /\ writer' = [writer EXCEPT ![c] = "waiting"]
        /\ joined' = [joined EXCEPT ![c] = Len(log)]
        /\ UNCHANGED <<stopped, closes, open>>
    BY <2>1 DEF Register
  <2>3. FeedTypeOK' /\ FeedInOrder'
    <3>1. clients' \subseteq Clients /\ stopped' \in BOOLEAN
      BY <1>1, <2>2 DEF IInv, TypeOK
    <3> QED BY <1>1, <2>2, <3>1, FeedFrame
  <2>4. Len(log) \in Nat
    BY DEF IInv, TypeOK
  <2>5. joined' \in [Clients -> Nat] /\ \A d \in Clients : joined'[d] <= Len(log)
    BY <1>2, <2>2, <2>4 DEF IInv, TypeOK
  <2>6. ClientTypeOK'
    BY <1>1, <2>2, <2>5, Parts DEF ClientTypeOK
  <2>7. NoGapAt(c)' /\ ClosedAt(c)'
    <3>1. closes[c] = 0 /\ send[c] = <<>> /\ taken[c] = <<>>
      BY <2>2, Parts DEF ClosedAt
    <3>2. Received(c)' = <<>> /\ joined'[c] = Len(log) /\ reader'[c] = "reading"
      BY <1>1, <1>2, <2>2, <3>1 DEF Received, IInv, TypeOK
    <3>3. NoGapAt(c)'
      <4>1. /\ Len(Received(c)') = 0 /\ 1..Len(Received(c)') = {}
            /\ c \notin todo' /\ Len(log') = Len(log)
        BY <1>1, <3>2
      <4>2. Len(log') - joined'[c] = 0
        BY <2>4, <3>2, <4>1
      <4> QED BY <4>1, <4>2 DEF NoGapAt
    <3> QED BY <2>2, <3>1, <3>2, <3>3 DEF ClosedAt
  <2>8. ASSUME NEW d \in Clients, d # c PROVE NoGapAt(d)' /\ ClosedAt(d)'
    <3>1. reader'[d] = reader[d] /\ writer'[d] = writer[d] /\ joined'[d] = joined[d]
          /\ (d \in clients' <=> d \in clients)
      BY <2>2, <2>8, <1>2 DEF IInv, TypeOK
    <3>2. NoGapAt(d)'
      BY <1>1, <2>2, <3>1, ClientFrame
    <3> QED BY <1>1, <2>2, <3>1, <3>2, Parts DEF ClosedAt
  <2> QED BY <2>3, <2>6, <2>7, <2>8, Parts
<1>5. CASE \E c \in Clients : Unregister(c)
  <2>1. PICK c \in Clients : Unregister(c)
    BY <1>5
  <2>2. /\ reader[c] = "unregistering" /\ clients' = clients \ {c}
        /\ closes' = [d \in Clients |-> IF d \in {c} \cap clients THEN closes[d] + 1 ELSE closes[d]]
        /\ reader' = [reader EXCEPT ![c] = "done"]
        /\ open' = [open EXCEPT ![c] = FALSE]
        /\ UNCHANGED <<stopped, joined, writer>>
    BY <2>1 DEF Unregister, Close
  <2>3. FeedTypeOK' /\ FeedInOrder'
    <3>1. clients' \subseteq Clients /\ stopped' \in BOOLEAN
      BY <1>1, <2>2 DEF IInv, TypeOK
    <3> QED BY <1>1, <2>2, <3>1, FeedFrame
  <2>4. closes' \in [Clients -> Nat]
    BY <1>2, <2>2
  <2>5. ClientTypeOK'
    BY <1>1, <2>2, <2>4, Parts DEF ClientTypeOK
  <2>6. ASSUME NEW d \in Clients PROVE NoGapAt(d)' /\ ClosedAt(d)'
    <3>1. NoGapAt(d)'
      BY <1>1, <2>2, ClientFrame
    <3>2. closes'[d] = (IF d \in {c} \cap clients THEN closes[d] + 1 ELSE closes[d])
          /\ closes[d] \in Nat
      BY <1>2, <2>2
    <3>3. reader'[d] = (IF d = c THEN "done" ELSE reader[d])
      BY <2>2 DEF IInv, TypeOK
    <3>4. ClosedAt(d)'
      BY <1>1, <2>2, <3>2, <3>3, Parts DEF ClosedAt
    <3> QED BY <3>1, <3>4
  <2> QED BY <2>3, <2>5, <2>6, Parts
<1> QED BY <1>3, <1>4, <1>5

\* The loop of Run over the clients: the message goes into the channel of a client,
\* or the client is dropped because it is full.
LEMMA OfferStep ==
  ASSUME IInv, NEW c \in Clients, Deliver(c) \/ Evict(c)
  PROVE  IInv'
<1>1. /\ c \in todo /\ todo' = todo \ {c} /\ current' = (IF todo = {c} THEN 0 ELSE current)
      /\ UNCHANGED <<feedVars, broadcast, stopped, log, joined, pumpVars>>
  BY DEF Deliver, Evict, Offered
<1>2. /\ clients \subseteq Clients /\ todo \subseteq clients /\ current # 0
      /\ current \in 1..MaxMessages /\ log # <<>> /\ current = log[Len(log)]
  BY <1>1, FeedNumbers DEF IInv, TypeOK, FeedInOrder
<1>3. (current' = 0 <=> todo' = {}) /\ current' \in {0, current}
  BY <1>1, <1>2
<1>4. /\ closes \in [Clients -> Nat] /\ joined[c] \in Nat /\ Len(log) \in Nat
      /\ send \in [Clients -> Seq(1..MaxMessages)]
  BY DEF IInv, TypeOK
<1>5. CASE Deliver(c)
  <2>1. /\ Len(send[c]) < SendCap /\ send' = [send EXCEPT ![c] = Append(@, current)]
        /\ UNCHANGED <<clients, closes>>
    BY <1>5 DEF Deliver
  <2>2. FeedTypeOK' /\ FeedInOrder'
    <3>1. todo' \subseteq clients' /\ stopped' \in BOOLEAN
      BY <1>1, <1>2, <2>1 DEF IInv, TypeOK
    <3> QED BY <1>1, <1>2, <1>3, <2>1, <3>1, FeedFrame DEF feedVars
  <2>3. send'[c] = Append(send[c], current) /\ \A d \in Clients : d # c => send'[d] = send[d]
    BY <1>4, <2>1
  <2>4. /\ Append(send[c], current) \in Seq(1..MaxMessages)
        /\ Len(Append(send[c], current)) = Len(send[c]) + 1 /\ Len(send[c]) \in Nat
    <3>1. send[c] \in Seq(1..MaxMessages)
      BY <1>4
    <3> QED BY <1>2, <3>1, AppendProperties, LenProperties
  <2>5. ClientTypeOK'
    <3>1. send' \in [Clients -> Seq(1..MaxMessages)]
      BY <1>4, <2>1, <2>4
    <3>2. \A d \in Clients : Len(send'[d]) <= SendCap
      BY <2>1, <2>3, <2>4, HubAssumption DEF IInv, TypeOK
    <3> QED BY <1>1, <2>1, <3>1, <3>2, Parts DEF ClientTypeOK, pumpVars
  <2>6. NoGapAt(c)'
    <3>1. Received(c)' = Append(Received(c), current)
      <4>1. Received(c)' = taken[c] \o Append(send[c], current)
        BY <1>1, <2>3 DEF Received, pumpVars
      <4>2. /\ taken[c] \in Seq(1..MaxMessages) /\ send[c] \in Seq(1..MaxMessages)
            /\ current \in 1..MaxMessages
        BY <1>2, ReceivedType
      <4>3. \A s, t \in Seq(1..MaxMessages), e \in 1..MaxMessages :
              s \o Append(t, e) = Append(s \o t, e)
        BY AppendRight
      <4>4. taken[c] \o Append(send[c], current) = Append(taken[c] \o send[c], current)
        BY <4>2, <4>3
      <4> QED BY <4>1, <4>4 DEF Received
    <3>2. /\ Len(Received(c)') = Len(Received(c)) + 1 /\ Len(Received(c)) \in Nat
          /\ \A k \in 1..Len(Received(c)) : Received(c)'[k] = Received(c)[k]
          /\ Received(c)'[Len(Received(c)) + 1] = current
      BY <1>2, <3>1, ReceivedType, AppendProperties
    <3>3. c \in clients /\ Len(Received(c)) = Len(log) - joined[c] - 1
          /\ \A k \in 1..Len(Received(c)) : Received(c)[k] = log[joined[c] + k]
      BY <1>1, <1>2, Parts DEF NoGapAt
    <3>4. Len(Received(c)') = Len(log) - joined[c]
      BY <1>4, <3>2, <3>3
    <3>5. ASSUME NEW k \in 1..Len(Received(c)') PROVE Received(c)'[k] = log[joined[c] + k]
      <4>1. CASE k \in 1..Len(Received(c))
        BY <3>2, <3>3, <4>1
      <4>2. CASE k = Len(Received(c)) + 1
        <5>1. joined[c] + k = Len(log)
          BY <1>4, <3>2, <3>3, <4>2
        <5> QED BY <1>2, <3>2, <4>2, <5>1
      <4>3. Len(Received(c)') = Len(Received(c)) + 1 /\ Len(Received(c)) \in Nat
        BY <3>2
      <4> QED BY <4>1, <4>2, <4>3
    <3>6. log' = log /\ joined' = joined /\ c \notin todo'
      BY <1>1
    <3> QED BY <1>4, <3>4, <3>5, <3>6 DEF NoGapAt
  <2>7. ASSUME NEW d \in Clients, d # c PROVE NoGapAt(d)'
    BY <1>1, <2>1, <2>3, <2>7, ClientFrame DEF pumpVars
  <2>8. ASSUME NEW d \in Clients PROVE ClosedAt(d)'
    <3>1. ClosedAt(d) /\ c \in clients
      BY <1>1, <1>2, Parts
    <3> QED BY <1>1, <2>1, <2>3, <3>1 DEF ClosedAt, pumpVars
  <2> QED BY <2>2, <2>5, <2>6, <2>7, <2>8, Parts
<1>6. CASE Evict(c)
  <2>1. /\ clients' = clients \ {c} /\ send' = send
        /\ closes' = [d \in Clients |-> IF d \in {c} THEN closes[d] + 1 ELSE closes[d]]
    BY <1>6 DEF Evict, Close
  <2>2. FeedTypeOK' /\ FeedInOrder'
    <3>1. todo' \subseteq clients' /\ clients' \subseteq Clients /\ stopped' \in BOOLEAN
      BY <1>1, <1>2, <2>1 DEF IInv, TypeOK
    <3> QED BY <1>1, <1>3, <3>1, FeedFrame DEF feedVars
  <2>3. closes' \in [Clients -> Nat]
    BY <1>4, <2>1
  <2>4. ClientTypeOK'
    BY <1>1, <2>1, <2>3, Parts DEF ClientTypeOK, pumpVars
  <2>5. ASSUME NEW d \in Clients PROVE NoGapAt(d)'
    BY <1>1, <2>1, ClientFrame DEF pumpVars
  <2>6. ASSUME NEW d \in Clients PROVE ClosedAt(d)'
    <3>1. closes'[d] = (IF d = c THEN closes[d] + 1 ELSE closes[d]) /\ closes[d] \in Nat
      BY <1>4, <2>1
    <3>2. ClosedAt(d) /\ c \in clients
      BY <1>1, <1>2, Parts
    <3> QED BY <1>1, <2>1, <3>1, <3>2 DEF ClosedAt, pumpVars
  <2> QED BY <2>2, <2>4, <2>5, <2>6, Parts
<1> QED BY <1>5, <1>6

\* Connect, the pumps and the peer: the hub does not take part.
LEMMA PumpStep ==
  ASSUME IInv, NEW c \in Clients, Connect(c) \/ PeerGone(c) \/ ReadError(c) \/ Writer(c)
  PROVE  IInv'
<1> USE DEF feedVars, hubVars
<1>1. UNCHANGED <<feedVars, broadcast, hubVars, closes, joined>>
  BY DEF Connect, PeerGone, ReadError, Writer, TakeMessage, Written, WriteError, PingError,
         SendClosed, WriterEnds
<1>2. FeedTypeOK' /\ FeedInOrder'
  <2>1. clients \subseteq Clients /\ todo \subseteq clients /\ (current = 0 <=> todo = {}) /\ stopped \in BOOLEAN
    BY DEF IInv, TypeOK
  <2> QED BY <1>1, <2>1, FeedFrame
<1>3. CASE TakeMessage(c)
  <2>1. /\ writer[c] = "waiting" /\ send[c] # <<>>
        /\ send' = [send EXCEPT ![c] = Tail(@)]
        /\ taken' = [taken EXCEPT ![c] = Append(@, Head(send[c]))]
        /\ writer' = [writer EXCEPT ![c] = "writing"] /\ UNCHANGED <<open, reader>>
    BY <1>3 DEF TakeMessage
  <2>2. /\ send[c] \in Seq(1..MaxMessages) /\ taken[c] \in Seq(1..MaxMessages)
    BY ReceivedType
  <2>3. /\ Tail(send[c]) \in Seq(1..MaxMessages) /\ Len(Tail(send[c])) = Len(send[c]) - 1
        /\ Head(send[c]) \in 1..MaxMessages /\ Len(send[c]) \in Nat
    BY <2>1, <2>2, HeadTailProperties, LenProperties
  <2>4. Append(taken[c], Head(send[c])) \in Seq(1..MaxMessages)
    BY <2>2, <2>3, AppendProperties
  <2>5. /\ send'[c] = Tail(send[c]) /\ taken'[c] = Append(taken[c], Head(send[c]))
        /\ \A d \in Clients : d # c => /\ send'[d] = send[d] /\ taken'[d] = taken[d]
                                       /\ writer'[d] = writer[d]
    BY <2>1 DEF IInv, TypeOK
  <2>6. ClientTypeOK'
    <3>1. send' \in [Clients -> Seq(1..MaxMessages)] /\ taken' \in [Clients -> Seq(1..MaxMessages)]
      BY <2>1, <2>3, <2>4 DEF IInv, TypeOK
    <3>2. \A d \in Clients : Len(send'[d]) <= SendCap
      <4>1. \A d \in Clients : Len(send[d]) <= SendCap
        BY DEF IInv, TypeOK
      <4>2. Len(send[c]) - 1 <= SendCap
        BY <2>3, <4>1, HubAssumption
      <4> QED BY <2>3, <2>5, <4>1, <4>2
    <3>3. writer' \in [Clients -> {"none", "waiting", "writing", "done"}]
      BY <2>1 DEF IInv, TypeOK
    <3> QED BY <1>1, <2>1, <3>1, <3>2, <3>3, Parts DEF ClientTypeOK
  <2>7. ASSUME NEW d \in Clients PROVE NoGapAt(d)'
    <3>1. CASE d = c
      <4>1. Received(c)' = Received(c)
        <5>1. Append(taken[c], Head(send[c])) \o Tail(send[c]) = taken[c] \o send[c]
          BY <2>1, <2>2, HeadMoves
        <5> QED BY <2>5, <5>1 DEF Received
      <4> QED BY <1>1, <3>1, <4>1, Parts DEF NoGapAt
    <3>2. CASE d # c
      BY <1>1, <2>5, <3>2, ClientFrame
    <3> QED BY <3>1, <3>2
  <2>8. ASSUME NEW d \in Clients PROVE ClosedAt(d)'
    BY <1>1, <2>1, <2>5, Parts DEF ClosedAt
  <2> QED BY <1>2, <2>6, <2>7, <2>8, Parts
<1>4. CASE \/ Connect(c) \/ PeerGone(c) \/ ReadError(c)
           \/ Written(c) \/ WriteError(c) \/ PingError(c) \/ SendClosed(c)
  <2>1. /\ UNCHANGED <<send, taken>>
        /\ open' \in {open, [open EXCEPT ![c] = TRUE], [open EXCEPT ![c] = FALSE]}
    BY <1>4 DEF Connect, PeerGone, ReadError, Written, WriteError, PingError, SendClosed, WriterEnds
  <2>2. \/ UNCHANGED <<reader, writer>>
        \/ reader[c] = "none" /\ reader' = [reader EXCEPT ![c] = "registering"] /\ UNCHANGED writer
        \/ reader[c] = "reading" /\ reader' = [reader EXCEPT ![c] = "unregistering"] /\ UNCHANGED writer
        \/ /\ writer[c] \in {"waiting", "writing"} /\ UNCHANGED reader
           /\ writer' \in {[writer EXCEPT ![c] = "waiting"], [writer EXCEPT ![c] = "done"]}
    BY <1>4 DEF Connect, PeerGone, ReadError, Written, WriteError, PingError, SendClosed, WriterEnds
  <2>3. ClientTypeOK'
    <3>1. open' \in [Clients -> BOOLEAN]
      BY <2>1 DEF IInv, TypeOK
    <3>2. /\ reader' \in [Clients -> {"none", "registering", "reading", "unregistering", "done"}]
          /\ writer' \in [Clients -> {"none", "waiting", "writing", "done"}]
      BY <2>2 DEF IInv, TypeOK
    <3> QED BY <1>1, <2>1, <3>1, <3>2, Parts DEF ClientTypeOK
  <2>4. ASSUME NEW d \in Clients PROVE NoGapAt(d)' /\ ClosedAt(d)'
    <3>1. NoGapAt(d)'
      BY <1>1, <2>1, ClientFrame
    <3>2. ClosedAt(d)'
      BY <1>1, <2>1, <2>2, Parts DEF ClosedAt, IInv, TypeOK
    <3> QED BY <3>1, <3>2
  <2> QED BY <1>2, <2>3, <2>4, Parts
<1> QED BY <1>3, <1>4 DEF Writer

\* Every step preserves the invariant.
LEMMA IInvStep == IInv /\ [Next]_vars => IInv'
<1> SUFFICES ASSUME IInv, [Next]_vars PROVE IInv'
  OBVIOUS
<1>1. CASE UNCHANGED vars
  <2>1. FeedTypeOK' /\ ClientTypeOK' /\ FeedInOrder'
    BY <1>1, Parts DEF vars, feedVars, hubVars, pumpVars, FeedTypeOK, ClientTypeOK, FeedInOrder
  <2>2. ASSUME NEW c \in Clients PROVE NoGapAt(c)' /\ ClosedAt(c)'
    BY <1>1, ClientFrame, Parts DEF vars, feedVars, hubVars, pumpVars, ClosedAt
  <2> QED BY <2>1, <2>2, Parts
<1> QED BY <1>1, SubscribeStep, TakeBroadcastStep, SelectStep, OfferStep, PumpStep DEF Next, Run

\* The invariant holds in the initial states.
LEMMA InitIInv == Init => IInv
<1> SUFFICES ASSUME Init PROVE IInv
  OBVIOUS
<1>1. TypeOK
  <2>1. <<>> \in Seq(1..MaxMessages) /\ Len(<<>>) = 0
    BY EmptySeq
  <2>2. FeedTypeOK
    <3>1. MaxMessages \in Nat /\ BroadcastCap \in Nat /\ 0 \in 0..MaxMessages
      BY HubAssumption
    <3>2. Len(broadcast) <= BroadcastCap
      BY <2>1, <3>1 DEF Init
    <3> QED BY <2>1, <3>1, <3>2 DEF Init, FeedTypeOK
  <2>3. send \in [Clients -> Seq(1..MaxMessages)] /\ taken \in [Clients -> Seq(1..MaxMessages)]
    BY <2>1 DEF Init
  <2>4. ASSUME NEW c \in Clients PROVE Len(send[c]) <= SendCap /\ joined[c] <= Len(log)
    <3>1. send[c] = <<>> /\ joined[c] = 0 /\ log = <<>>
      BY DEF Init
    <3>2. SendCap \in Nat
      BY HubAssumption
    <3> QED BY <2>1, <3>1, <3>2
  <2>5. ClientTypeOK
    BY <2>3, <2>4 DEF Init, ClientTypeOK
  <2> QED BY <2>2, <2>5 DEF TypeOK, FeedTypeOK, ClientTypeOK
<1>2. \A c \in Clients : Received(c) = <<>>
  <2>1. <<>> \in Seq(1..MaxMessages) /\ <<>> \o <<>> = <<>>
    BY EmptySeq, ConcatEmptySeq
  <2> QED BY <2>1 DEF Init, Received
<1>3. FeedInOrder
  BY DEF Init, FeedInOrder, Ascending, Before, UpTo
<1>4. NoGap
  BY <1>2 DEF Init, NoGap
<1> QED BY <1>1, <1>3, <1>4 DEF Init, IInv, NotYetRegistered, NoPanic

\* The invariant holds in every reachable state; the theorems below are its parts.
THEOREM Inductive == Spec => []IInv
BY InitIInv, IInvStep, PTL DEF Spec

-----------------------------------------------------------------------------

\* Run neither closes the channel of a client twice nor sends on it after that,
\* in whatever order eviction, disconnection and shutdown come (hub.go, Run).
THEOREM ChannelsClosedOnce == Spec => []NoPanic
<1>1. IInv => NoPanic
  BY DEF IInv
<1> QED BY <1>1, Inductive, PTL

\* What Run takes from Redis is in order and without repetition, and a client gets
\* exactly this, from its registration on, until it leaves or is dropped (hub.go).
THEOREM ClientsMissNothing == Spec => []NoGap
<1>1. IInv => NoGap
  BY DEF IInv
<1> QED BY <1>1, Inductive, PTL
=============================================================================
