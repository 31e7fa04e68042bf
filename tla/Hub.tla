--------------------------------- MODULE Hub ---------------------------------
(***************************************************************************)
(* internal/websocket: the hub of one gateway process and its clients.     *)
(* The goroutines are SubscribeRedis, Hub.Run, and for each connection     *)
(* ServeWS, readPump and writePump; they share the channels register,      *)
(* unregister (unbuffered), broadcast, and a send channel per client.      *)
(*                                                                         *)
(* An operation on an unbuffered channel is one step of the hub and the    *)
(* client; a goroutine whose channel operation is not enabled is blocked.  *)
(* The loop of Run over its clients is one step per client, in any order.  *)
(*                                                                         *)
(* External: the Redis subscription, which loses messages, and the peer of *)
(* a connection, which may stop reading or be gone at any time.            *)
(***************************************************************************)
EXTENDS Naturals, Sequences

CONSTANTS
  Clients,       (* one for each connection ever made                      *)
  SendCap,       (* capacity of a send channel; 256 in the code            *)
  BroadcastCap,  (* capacity of the broadcast channel; 256 in the code     *)
  MaxMessages    (* bound: messages published on the Redis channel         *)

ASSUME HubAssumption ==
  /\ SendCap \in Nat \ {0}
  /\ BroadcastCap \in Nat \ {0}
  /\ MaxMessages \in Nat

VARIABLES
  published,  (* messages published so far; the last one's number          *)
  sub,        (* messages in the channel of the subscription               *)
  broadcast,  (* the broadcast channel                                     *)
  clients,    (* Hub.clients                                               *)
  current,    (* message Run is handing to its clients, 0 when selecting   *)
  todo,       (* clients that have not been offered it                     *)
  stopped,    (* Run has returned                                          *)
  log,        (* history: messages Run took from broadcast                 *)
  send,       (* the send channel of each client                           *)
  closes,     (* how often each send channel was closed; twice panics      *)
  open,       (* the connection works                                      *)
  reader,     (* where ServeWS, later readPump, of each client is          *)
  writer,     (* where writePump of each client is                         *)
  joined,     (* history: length of log when the client was registered     *)
  taken       (* history: messages writePump took from send                *)

feedVars == <<published, sub>>
hubVars == <<clients, current, todo, stopped, log>>
pumpVars == <<open, reader, writer, taken>>
vars == <<feedVars, broadcast, hubVars, send, closes, joined, pumpVars>>

Init ==
  /\ published = 0 /\ sub = <<>> /\ broadcast = <<>>
  /\ clients = {} /\ current = 0 /\ todo = {} /\ stopped = FALSE /\ log = <<>>
  /\ send = [c \in Clients |-> <<>>]
  /\ closes = [c \in Clients |-> 0]
  /\ open = [c \in Clients |-> FALSE]
  /\ reader = [c \in Clients |-> "none"]
  /\ writer = [c \in Clients |-> "none"]
  /\ joined = [c \in Clients |-> 0]
  /\ taken = [c \in Clients |-> <<>>]

-----------------------------------------------------------------------------
(* Redis and SubscribeRedis *)

\* A message is published; the subscription receives it or has lost it.
RedisPublish ==
  /\ published < MaxMessages
  /\ published' = published + 1
  /\ sub' \in {sub, Append(sub, published + 1)}
  /\ UNCHANGED <<broadcast, hubVars, send, closes, joined, pumpVars>>

\* h.broadcast <- payload blocks while the channel is full.
Forward ==
  /\ sub # <<>>
  /\ Len(broadcast) < BroadcastCap
  /\ broadcast' = Append(broadcast, Head(sub))
  /\ sub' = Tail(sub)
  /\ UNCHANGED <<published, hubVars, send, closes, joined, pumpVars>>

-----------------------------------------------------------------------------
(* Hub.Run *)

Selecting == current = 0 /\ ~stopped

Close(cs) == closes' = [c \in Clients |-> IF c \in cs THEN closes[c] + 1 ELSE closes[c]]

\* ServeWS hands its client to the hub and starts the pumps.
Register(c) ==
  /\ Selecting
  /\ reader[c] = "registering"
  /\ clients' = clients \cup {c}
  /\ reader' = [reader EXCEPT ![c] = "reading"]
  /\ writer' = [writer EXCEPT ![c] = "waiting"]
  /\ joined' = [joined EXCEPT ![c] = Len(log)]
  /\ UNCHANGED <<feedVars, broadcast, current, todo, stopped, log, send, closes, open, taken>>

\* Mutants of Unregister: without the test whether the client is still there; and
\* readPump changes the map itself, in the middle of the loop over the clients.
UnregisterUnchecked(c) ==
  /\ Selecting
  /\ reader[c] = "unregistering"
  /\ clients' = clients \ {c}
  /\ Close({c})
  /\ reader' = [reader EXCEPT ![c] = "done"]
  /\ open' = [open EXCEPT ![c] = FALSE]
  /\ UNCHANGED <<feedVars, broadcast, current, todo, stopped, log, send, joined, writer, taken>>

UnregisterDirectly(c) ==
  /\ ~stopped
  /\ reader[c] = "unregistering"
  /\ clients' = clients \ {c}
  /\ Close({c} \cap clients)
  /\ reader' = [reader EXCEPT ![c] = "done"]
  /\ open' = [open EXCEPT ![c] = FALSE]
  /\ UNCHANGED <<feedVars, broadcast, current, todo, stopped, log, send, joined, writer, taken>>

\* readPump ends: the client is unregistered and its connection closed.
Unregister(c) ==
  /\ Selecting
  /\ reader[c] = "unregistering"
  /\ clients' = clients \ {c}
  /\ Close({c} \cap clients)
  /\ reader' = [reader EXCEPT ![c] = "done"]
  /\ open' = [open EXCEPT ![c] = FALSE]
  /\ UNCHANGED <<feedVars, broadcast, current, todo, stopped, log, send, joined, writer, taken>>

TakeBroadcast ==
  /\ Selecting
  /\ broadcast # <<>>
  /\ broadcast' = Tail(broadcast)
  /\ log' = Append(log, Head(broadcast))
  /\ todo' = clients
  /\ current' = IF clients = {} THEN 0 ELSE Head(broadcast)
  /\ UNCHANGED <<feedVars, clients, stopped, send, closes, joined, pumpVars>>

\* The loop over the clients goes on, or back to the select.
Offered(c) ==
  /\ todo' = todo \ {c}
  /\ current' = IF todo = {c} THEN 0 ELSE current

Deliver(c) ==
  /\ c \in todo
  /\ Len(send[c]) < SendCap
  /\ send' = [send EXCEPT ![c] = Append(@, current)]
  /\ Offered(c)
  /\ UNCHANGED <<feedVars, broadcast, clients, stopped, log, closes, joined, pumpVars>>

\* Mutants of Evict: the message is dropped and the client kept; the client is
\* forgotten without closing its channel; and no default case at all, so that the
\* hub waits for room.
DropMessage(c) ==
  /\ c \in todo
  /\ Len(send[c]) >= SendCap
  /\ Offered(c)
  /\ UNCHANGED <<feedVars, broadcast, clients, stopped, log, send, closes, joined, pumpVars>>

EvictUnclosed(c) ==
  /\ c \in todo
  /\ Len(send[c]) >= SendCap
  /\ clients' = clients \ {c}
  /\ Offered(c)
  /\ UNCHANGED <<feedVars, broadcast, stopped, log, send, closes, joined, pumpVars>>

WaitForRoom(c) == FALSE /\ c \in todo /\ UNCHANGED vars

\* The channel of a slow client is full: the client is dropped.
Evict(c) ==
  /\ c \in todo
  /\ Len(send[c]) >= SendCap
  /\ clients' = clients \ {c}
  /\ Close({c})
  /\ Offered(c)
  /\ UNCHANGED <<feedVars, broadcast, stopped, log, send, joined, pumpVars>>

\* The context is done: main has returned and the process is about to exit.
Stop ==
  /\ Selecting
  /\ stopped' = TRUE
  /\ Close(clients)
  /\ clients' = {}
  /\ UNCHANGED <<feedVars, broadcast, current, todo, log, send, joined, pumpVars>>

-----------------------------------------------------------------------------
(* ServeWS, readPump and writePump *)

\* The connection is upgraded and ServeWS waits for the hub.
Connect(c) ==
  /\ reader[c] = "none"
  /\ reader' = [reader EXCEPT ![c] = "registering"]
  /\ open' = [open EXCEPT ![c] = TRUE]
  /\ UNCHANGED <<feedVars, broadcast, hubVars, send, closes, joined, writer, taken>>

\* The peer closes the connection, or no longer answers pings.
PeerGone(c) ==
  /\ open[c]
  /\ open' = [open EXCEPT ![c] = FALSE]
  /\ UNCHANGED <<feedVars, broadcast, hubVars, send, closes, joined, reader, writer, taken>>

\* Mutant of ReadError: readPump returns without the deferred unregister.
ReadErrorForgotten(c) ==
  /\ reader[c] = "reading"
  /\ reader' = [reader EXCEPT ![c] = "done"]
  /\ UNCHANGED <<feedVars, broadcast, hubVars, send, closes, joined, open, writer, taken>>

\* NextReader fails: the connection is closed, no pong came before the read
\* deadline, or a frame was too long.
ReadError(c) ==
  /\ reader[c] = "reading"
  /\ reader' = [reader EXCEPT ![c] = "unregistering"]
  /\ UNCHANGED <<feedVars, broadcast, hubVars, send, closes, joined, open, writer, taken>>

TakeMessage(c) ==
  /\ writer[c] = "waiting"
  /\ send[c] # <<>>
  /\ send' = [send EXCEPT ![c] = Tail(@)]
  /\ taken' = [taken EXCEPT ![c] = Append(@, Head(send[c]))]
  /\ writer' = [writer EXCEPT ![c] = "writing"]
  /\ UNCHANGED <<feedVars, broadcast, hubVars, closes, joined, open, reader>>

\* writePump returns and closes the connection.
WriterEnds(c) ==
  /\ writer' = [writer EXCEPT ![c] = "done"]
  /\ open' = [open EXCEPT ![c] = FALSE]
  /\ UNCHANGED <<feedVars, broadcast, hubVars, send, closes, joined, reader, taken>>

Written(c) ==
  /\ writer[c] = "writing"
  /\ open[c]
  /\ writer' = [writer EXCEPT ![c] = "waiting"]
  /\ UNCHANGED <<feedVars, broadcast, hubVars, send, closes, joined, open, reader, taken>>

\* The write, or a ping, fails: the peer is gone or too slow for the deadline.
WriteError(c) == writer[c] = "writing" /\ WriterEnds(c)
PingError(c) == writer[c] = "waiting" /\ ~open[c] /\ WriterEnds(c)

\* The channel is closed and drained: a close frame is sent.
SendClosed(c) == writer[c] = "waiting" /\ send[c] = <<>> /\ closes[c] > 0 /\ WriterEnds(c)

-----------------------------------------------------------------------------

Run ==
  \/ \E c \in Clients : Register(c) \/ Unregister(c) \/ Deliver(c) \/ Evict(c)
  \/ TakeBroadcast

Writer(c) ==
  \/ TakeMessage(c) \/ Written(c)
  \/ WriteError(c) \/ PingError(c) \/ SendClosed(c)

Next ==
  \/ RedisPublish \/ Forward
  \/ Run \/ Stop
  \/ \E c \in Clients : Connect(c) \/ PeerGone(c) \/ ReadError(c) \/ Writer(c)

Spec == Init /\ [][Next]_vars

\* Goroutines that can go on do.  The select of Run picks among its ready cases
\* at random, so that none is passed over forever; a read from a broken connection
\* fails, and the write deadline ends every write.
Fairness ==
  /\ WF_vars(Forward)
  /\ SF_vars(TakeBroadcast)
  /\ \A c \in Clients :
       /\ WF_vars(Deliver(c) \/ Evict(c))
       /\ SF_vars(Unregister(c))
       /\ WF_vars(~open[c] /\ ReadError(c)) /\ WF_vars(Writer(c))

LiveSpec == Spec /\ Fairness

-----------------------------------------------------------------------------
(* Properties *)

TypeOK ==
  /\ published \in 0..MaxMessages
  /\ sub \in Seq(1..MaxMessages) /\ log \in Seq(1..MaxMessages)
  /\ broadcast \in Seq(1..MaxMessages) /\ Len(broadcast) <= BroadcastCap
  /\ clients \subseteq Clients /\ todo \subseteq clients
  /\ current \in 0..MaxMessages /\ (current = 0 <=> todo = {})
  /\ stopped \in BOOLEAN
  /\ send \in [Clients -> Seq(1..MaxMessages)] /\ \A c \in Clients : Len(send[c]) <= SendCap
  /\ taken \in [Clients -> Seq(1..MaxMessages)]
  /\ closes \in [Clients -> Nat] /\ open \in [Clients -> BOOLEAN]
  /\ reader \in [Clients -> {"none", "registering", "reading", "unregistering", "done"}]
  /\ writer \in [Clients -> {"none", "waiting", "writing", "done"}]
  /\ joined \in [Clients -> Nat] /\ \A c \in Clients : joined[c] <= Len(log)

\* Run neither closes a channel twice nor sends on a closed one, which would end
\* the gateway, however eviction, disconnection and shutdown follow each other.
NoPanic ==
  \A c \in Clients : closes[c] <= 1 /\ (c \in clients => closes[c] = 0)

Received(c) == taken[c] \o send[c]

\* Redis may lose messages, but the gateway neither repeats nor reorders the ones
\* it gets; and a client gets these from its registration on in order and without
\* a gap, all of them as long as it is registered: a slow one is cut off, never
\* skipped.
NoGap ==
  /\ \A j, k \in 1..Len(log) : j < k => log[j] < log[k]
  /\ \A c \in Clients :
       /\ Len(Received(c)) <= Len(log) - joined[c]
       /\ \A k \in 1..Len(Received(c)) : Received(c)[k] = log[joined[c] + k]
       /\ c \in clients =>
            Len(Received(c)) = Len(log) - joined[c] - (IF c \in todo THEN 1 ELSE 0)

\* What makes these inductive.  The messages on their way are in the order of
\* their publication, from sub through broadcast to log; the one in the hands of
\* Run is the last it took; and a client not yet registered has nothing.
Ascending(s) == \A j, k \in 1..Len(s) : j < k => s[j] < s[k]
Before(s, t) == \A j \in 1..Len(s), k \in 1..Len(t) : s[j] < t[k]
UpTo(s, n) == \A k \in 1..Len(s) : s[k] <= n

FeedInOrder ==
  /\ Ascending(log) /\ Ascending(broadcast) /\ Ascending(sub)
  /\ Before(log, broadcast) /\ Before(log, sub) /\ Before(broadcast, sub)
  /\ UpTo(log, published) /\ UpTo(broadcast, published) /\ UpTo(sub, published)
  /\ current # 0 => log # <<>> /\ current = log[Len(log)]

NotYetRegistered ==
  \A c \in Clients :
    reader[c] \in {"none", "registering"} =>
      c \notin clients /\ closes[c] = 0 /\ send[c] = <<>> /\ taken[c] = <<>> /\ writer[c] = "none"

IInv == TypeOK /\ FeedInOrder /\ NotYetRegistered /\ NoPanic /\ NoGap

\* The client of a broken connection is removed from the hub.
BrokenIsRemoved ==
  \A c \in Clients :
    reader[c] = "reading" /\ ~open[c] ~> c \notin clients

\* A client the hub drops, for being slow or at its shutdown, loses its
\* connection, and its writePump ends.
DroppedIsClosed ==
  \A c \in Clients :
    reader[c] = "reading" /\ c \notin clients ~> ~open[c] /\ writer[c] = "done"

\* Whatever one client does, neither Run nor SubscribeRedis waits for it forever:
\* what was received from Redis is taken and offered to every client.
FeedDrains ==
  sub # <<>> \/ broadcast # <<>> \/ current # 0
    ~> stopped \/ (sub = <<>> /\ broadcast = <<>> /\ current = 0)
=============================================================================
