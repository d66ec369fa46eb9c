------------------------------ MODULE Delivery ------------------------------
(***************************************************************************)
(* How a chat message reaches one recipient (an agent or a user): the      *)
(* router goroutine of each message (routeChatMessage in                   *)
(* server/routing.go), the offline queue in memory (server/queue.go), its  *)
(* rows in the database (server/queue_persist.go), the replay goroutine of *)
(* every new connection, and a crash of the process with a restart.        *)
(* Queues are keyed by recipient, so one recipient is enough.              *)
(*                                                                         *)
(* The registry is the one of module Hub, reduced to what a router sees:   *)
(* a connection the hub has accepted is registered in a later step, and    *)
(* the replay goroutine may run between the two.  Every call that takes a  *)
(* lock or goes to the database is a step of its own.  sent is everything  *)
(* SafeSend put into the send channel of a connection; the first written   *)
(* of them have reached the peer, the others are still buffered.           *)
(* Expiry of queued messages is the subject of module OfflineQueue.        *)
(***************************************************************************)
EXTENDS Integers, Sequences, FiniteSets, Functions

CONSTANTS Msgs,          \* chat messages; each is routed once
          Conns,         \* connections the recipient may open
          DeviceMaps,    \* the devices that the connections may come from
          BufCap,        \* capacity of the send channel (256)
          MaxLens,       \* messages kept per recipient (100): values of maxLen
          DbMayFail,     \* a write to offline_queue may fail (it is only logged)
          MaxCrashes     \* bound on crashes

ASSUME DeliveryAssumption ==
  /\ \A f \in DeviceMaps : DOMAIN f = Conns
  /\ BufCap \in Nat \ {0}
  /\ MaxLens \subseteq Nat \ {0}
  /\ DbMayFail \in BOOLEAN
  /\ MaxCrashes \in Nat

VARIABLES
  device, maxLen, \* of each connection; of the queue
  phase,          \* the router goroutine of each message
  targets, hit,   \* its connections still to try, and whether a send succeeded
  stored,         \* rows of the messages table
  live, online,   \* the recipient's connections and the registry
  sent, written,
  replay, batch,  \* the replay goroutine of each connection and what it drained
  queue, rows,    \* offline queue in memory and in the database
  up, crashes,
  log,            \* messages in the order of Enqueue since the last start
  trimmed,        \* dropped by Enqueue as the oldest of a full queue
  abandoned       \* dropped by a replay that gave up

routerVars == <<phase, targets, hit, stored>>
connVars == <<live, online>>
chosen == <<device, maxLen>>
sendVars == <<sent, written>>
replayVars == <<replay, batch>>
queueVars == <<queue, log, trimmed>>
crashVars == <<up, crashes>>
vars == <<chosen, routerVars, connVars, sendVars, replayVars, queueVars, rows, crashVars, abandoned>>

-----------------------------------------------------------------------------

\* The newest n: the oldest are dropped.
Newest(s, n) == IF Len(s) > n THEN SubSeq(s, Len(s) - n + 1, Len(s)) ELSE s

Init ==
  /\ device \in DeviceMaps
  /\ maxLen \in MaxLens
  /\ phase = [m \in Msgs |-> "new"]
  /\ targets = [m \in Msgs |-> {}]
  /\ hit = [m \in Msgs |-> FALSE]
  /\ stored = {}
  /\ live = [c \in Conns |-> "idle"]
  /\ online = {}
  /\ sent = [c \in Conns |-> <<>>]
  /\ written = [c \in Conns |-> 0]
  /\ replay = [c \in Conns |-> "off"]
  /\ batch = [c \in Conns |-> <<>>]
  /\ queue = <<>>
  /\ rows = <<>>
  /\ up = TRUE
  /\ crashes = 0
  /\ log = <<>>
  /\ trimmed = {}
  /\ abandoned = {}

-----------------------------------------------------------------------------
(* The recipient's connections.                                             *)

HubIdle == \A c \in Conns : live[c] # "accepted"

\* The hub takes the connection; the handler starts pumps and replay.
Accept(c) ==
  /\ up
  /\ HubIdle
  /\ live[c] = "idle"
  /\ live' = [live EXCEPT ![c] = "accepted"]
  /\ replay' = [replay EXCEPT ![c] = "drain"]
  /\ UNCHANGED <<chosen, routerVars, online, sendVars, batch, queueVars, rows,
                 crashVars, abandoned>>

\* An agent has one device, as it were; a client without device_id its own.
Replaced(c) == {d \in online : device[d] = device[c]}

\* The hub registers it, closing the connection it replaces.
Register(c) ==
  /\ live[c] = "accepted"
  /\ live' = [d \in Conns |->
       IF d = c THEN "open"
       ELSE IF d \in Replaced(c) THEN "closed" ELSE live[d]]
  /\ online' = (online \ Replaced(c)) \cup {c}
  /\ UNCHANGED <<chosen, routerVars, sendVars, replayVars, queueVars, rows,
                 crashVars, abandoned>>

Unregister(c) ==
  /\ HubIdle
  /\ live[c] = "open"
  /\ live' = [live EXCEPT ![c] = "closed"]
  /\ online' = online \ {c}
  /\ UNCHANGED <<chosen, routerVars, sendVars, replayVars, queueVars, rows,
                 crashVars, abandoned>>

SafeSendOK(c) == live[c] \in {"accepted", "open"} /\ Len(sent[c]) - written[c] < BufCap

Put(c, m) == sent' = [sent EXCEPT ![c] = Append(@, m)]

\* The write pump writes the next buffered event.
WriterSend(c) ==
  /\ live[c] # "idle"
  /\ written[c] < Len(sent[c])
  /\ written' = [written EXCEPT ![c] = @ + 1]
  /\ UNCHANGED <<chosen, routerVars, connVars, sent, replayVars, queueVars, rows,
                 crashVars, abandoned>>

-----------------------------------------------------------------------------
(* The offline queue in memory; each operation holds q.mu throughout.       *)

\* Defect: the newest message goes to the front.
EnqueueInFront(m) ==
  /\ queue' = Newest(<<m>> \o queue, maxLen)
  /\ log' = Append(log, m)
  /\ UNCHANGED trimmed

Enqueue(m) ==
  /\ queue' = Newest(Append(queue, m), maxLen)
  /\ log' = Append(log, m)
  /\ trimmed' = trimmed \cup (Range(Append(queue, m)) \ Range(Newest(Append(queue, m), maxLen)))

\* Defect: the buffer is read and not deleted.
DrainKeepsQueue(c) ==
  /\ batch' = [batch EXCEPT ![c] = queue]
  /\ UNCHANGED queue

Drain(c) ==
  /\ batch' = [batch EXCEPT ![c] = queue]
  /\ queue' = <<>>

-----------------------------------------------------------------------------
(* routeChatMessage.                                                        *)

Goto(m, p) == phase' = [phase EXCEPT ![m] = p]

\* A message that is invalid, of no conversation, not from a participant,
\* or that the database refuses gets an error and nothing else.
Reject(m) ==
  /\ up
  /\ phase[m] = "new"
  /\ Goto(m, "rejected")
  /\ UNCHANGED <<chosen, targets, hit, stored, connVars, sendVars, replayVars,
                 queueVars, rows, crashVars, abandoned>>

StoreMessage(m) ==
  /\ up
  /\ phase[m] = "new"
  /\ stored' = stored \cup {m}
  /\ Goto(m, "lookup")
  /\ UNCHANGED <<chosen, targets, hit, connVars, sendVars, replayVars, queueVars,
                 rows, crashVars, abandoned>>

\* GetAgent or GetClientConns: a copy of the registry's entry.
Lookup(m) ==
  /\ phase[m] = "lookup"
  /\ targets' = [targets EXCEPT ![m] = online]
  /\ Goto(m, IF online = {} THEN "enqueue" ELSE "sending")
  /\ UNCHANGED <<chosen, hit, stored, connVars, sendVars, replayVars, queueVars,
                 rows, crashVars, abandoned>>

\* One SafeSend of the loop over the devices (or to the agent).
SendToTarget(m, c) ==
  /\ phase[m] = "sending"
  /\ c \in targets[m]
  /\ targets' = [targets EXCEPT ![m] = @ \ {c}]
  /\ \/ /\ SafeSendOK(c)
        /\ Put(c, m)
        /\ hit' = [hit EXCEPT ![m] = TRUE]
     \/ /\ ~SafeSendOK(c)
        /\ UNCHANGED <<sent, hit>>
  /\ UNCHANGED <<chosen, phase, stored, connVars, written, replayVars, queueVars,
                 rows, crashVars, abandoned>>

\* Defect: queue whatever the sends did.
AfterSendsQueue(m) ==
  /\ phase[m] = "sending"
  /\ targets[m] = {}
  /\ Goto(m, "enqueue")
  /\ UNCHANGED <<chosen, targets, hit, stored, connVars, sendVars, replayVars,
                 queueVars, rows, crashVars, abandoned>>

\* `if delivered == 0`: queue for later, otherwise acknowledge.
AfterSends(m) ==
  /\ phase[m] = "sending"
  /\ targets[m] = {}
  /\ Goto(m, IF hit[m] THEN "done" ELSE "enqueue")
  /\ UNCHANGED <<chosen, targets, hit, stored, connVars, sendVars, replayVars,
                 queueVars, rows, crashVars, abandoned>>

EnqueueMessage(m) ==
  /\ phase[m] = "enqueue"
  /\ Enqueue(m)
  /\ Goto(m, "persist")
  /\ UNCHANGED <<chosen, targets, hit, stored, connVars, sendVars, replayVars, rows,
                 crashVars, abandoned>>

PersistQueue(m) ==
  /\ phase[m] = "persist"
  /\ \/ rows' = Append(rows, m)
     \/ DbMayFail /\ UNCHANGED rows
  /\ Goto(m, "done")
  /\ UNCHANGED <<chosen, targets, hit, stored, connVars, sendVars, replayVars,
                 queueVars, crashVars, abandoned>>

-----------------------------------------------------------------------------
(* replayOfflineMessages.                                                   *)

\* Defect: the early return taken when there IS something to replay.
ReplayDrainInverted(c) ==
  /\ replay[c] = "drain"
  /\ Drain(c)
  /\ replay' = [replay EXCEPT ![c] = IF queue = <<>> THEN "delete" ELSE "done"]
  /\ UNCHANGED <<chosen, routerVars, connVars, sendVars, rows, log, trimmed,
                 crashVars, abandoned>>

ReplayDrain(c) ==
  /\ replay[c] = "drain"
  /\ Drain(c)
  /\ replay' = [replay EXCEPT ![c] = IF queue = <<>> THEN "done" ELSE "delete"]
  /\ UNCHANGED <<chosen, routerVars, connVars, sendVars, rows, log, trimmed,
                 crashVars, abandoned>>

DeleteQueueMessages(c) ==
  /\ replay[c] = "delete"
  /\ \/ rows' = <<>>
     \/ DbMayFail /\ UNCHANGED rows
  /\ replay' = [replay EXCEPT ![c] = "sending"]
  /\ UNCHANGED <<chosen, routerVars, connVars, sendVars, batch, queueVars,
                 crashVars, abandoned>>

ReplaySend(c) ==
  /\ replay[c] = "sending"
  /\ batch[c] # <<>>
  /\ \/ /\ SafeSendOK(c)
        /\ Put(c, Head(batch[c]))
        /\ batch' = [batch EXCEPT ![c] = Tail(@)]
        /\ UNCHANGED <<replay, abandoned>>
     \/ /\ ~SafeSendOK(c)
        /\ batch' = [batch EXCEPT ![c] = <<>>]
        /\ replay' = [replay EXCEPT ![c] = "done"]
        /\ abandoned' = abandoned \cup Range(batch[c])
        /\ UNCHANGED sent
  /\ UNCHANGED <<chosen, routerVars, connVars, written, queueVars, rows, crashVars>>

ReplayEnd(c) ==
  /\ replay[c] = "sending"
  /\ batch[c] = <<>>
  /\ replay' = [replay EXCEPT ![c] = "done"]
  /\ UNCHANGED <<chosen, routerVars, connVars, sendVars, batch, queueVars, rows,
                 crashVars, abandoned>>

-----------------------------------------------------------------------------
(* The process dies and is started again (main: loadQueueFromDB before the  *)
(* hub runs).  The database survives; a message still being routed is gone  *)
(* and its sender gets no acknowledgement.                                  *)

Crash ==
  /\ up
  /\ crashes < MaxCrashes
  /\ up' = FALSE
  /\ crashes' = crashes + 1
  /\ phase' = [m \in Msgs |->
       IF phase[m] \in {"new", "done", "rejected"} THEN phase[m] ELSE "cut"]
  /\ targets' = [m \in Msgs |-> {}]
  /\ live' = [c \in Conns |-> IF live[c] = "idle" THEN "idle" ELSE "closed"]
  /\ online' = {}
  /\ sent' = [c \in Conns |-> SubSeq(sent[c], 1, written[c])]
  /\ replay' = [c \in Conns |-> IF replay[c] = "off" THEN "off" ELSE "done"]
  /\ batch' = [c \in Conns |-> <<>>]
  /\ queue' = <<>>
  /\ log' = <<>>
  /\ UNCHANGED <<chosen, hit, stored, written, rows, trimmed, abandoned>>

Restart ==
  /\ ~up
  /\ up' = TRUE
  /\ queue' = Newest(rows, maxLen)
  /\ log' = rows
  /\ trimmed' = trimmed \cup (Range(rows) \ Range(Newest(rows, maxLen)))
  /\ UNCHANGED <<chosen, routerVars, connVars, sendVars, replayVars, rows, crashes,
                 abandoned>>

-----------------------------------------------------------------------------

Route(m) ==
  \/ Lookup(m)
  \/ \E c \in Conns : SendToTarget(m, c)
  \/ AfterSends(m)
  \/ EnqueueMessage(m)
  \/ PersistQueue(m)

Replay(c) == ReplayDrain(c) \/ DeleteQueueMessages(c) \/ ReplaySend(c) \/ ReplayEnd(c)

Next ==
  \/ \E m \in Msgs : Reject(m) \/ StoreMessage(m) \/ Route(m)
  \/ \E c \in Conns :
       \/ Accept(c)
       \/ Register(c)
       \/ Unregister(c)
       \/ WriterSend(c)
       \/ Replay(c)
  \/ Crash
  \/ Restart

(* Goroutines that have begun go on; senders, the peer that reads from the  *)
(* socket, disconnects and crashes are the environment's.                   *)
Fairness ==
  /\ \A m \in Msgs : WF_vars(Route(m))
  /\ \A c \in Conns : WF_vars(Register(c)) /\ WF_vars(Replay(c))

Spec == Init /\ [][Next]_vars /\ Fairness

-----------------------------------------------------------------------------
(* Properties.                                                              *)

(* Types of the delivery path; the queue in memory never exceeds maxLen      *)
(* (queue.go:57-60), on a restart either.                                   *)
TypeOK ==
  /\ device \in DeviceMaps
  /\ maxLen \in MaxLens
  /\ phase \in [Msgs -> {"new", "lookup", "sending", "enqueue", "persist", "done",
                         "rejected", "cut"}]
  /\ targets \in [Msgs -> SUBSET Conns]
  /\ hit \in [Msgs -> BOOLEAN]
  /\ stored \in SUBSET Msgs
  /\ live \in [Conns -> {"idle", "accepted", "open", "closed"}]
  /\ online \in SUBSET Conns
  /\ sent \in [Conns -> Seq(Msgs)]
  /\ written \in [Conns -> Nat]
  /\ replay \in [Conns -> {"off", "drain", "delete", "sending", "done"}]
  /\ batch \in [Conns -> Seq(Msgs)]
  /\ queue \in Seq(Msgs) /\ Len(queue) <= maxLen
  /\ rows \in Seq(Msgs)
  /\ up \in BOOLEAN
  /\ crashes \in Nat
  /\ log \in Seq(Msgs)
  /\ trimmed \in SUBSET Msgs
  /\ abandoned \in SUBSET Msgs

Sent(m) == \E c \in Conns : m \in Range(sent[c])

\* Where a message is; a message sent to several devices is in one place.
Places(m) ==
  {p \in {"sent", "queue", "trimmed", "abandoned"} :
     \/ p = "sent" /\ Sent(m)
     \/ p = "queue" /\ m \in Range(queue)
     \/ p = "trimmed" /\ m \in trimmed
     \/ p = "abandoned" /\ m \in abandoned}
  \cup {c \in Conns : m \in Range(batch[c])}

(* While the process runs, a routed message (routing.go:163-236) is in      *)
(* exactly one place: it was sent, or it is queued, or one replay holds it, *)
(* or it was dropped by the length limit or by a replay that gave up.  No   *)
(* interleaving of routers, replays and reconnects loses it silently or     *)
(* both sends and queues it.                                                *)
InExactlyOnePlace ==
  crashes = 0 => \A m \in Msgs :
    phase[m] \in {"persist", "done"} => Cardinality(Places(m)) = 1

\* Where s has elements of l, they are in the order of l.
InOrderOf(l, s) ==
  \A i, j \in 1..Len(s), a, b \in 1..Len(l) : i < j /\ s[i] = l[a] /\ s[j] = l[b] => a < b

(* "returning them in order" (queue.go:66): what a connection is sent from  *)
(* the queue, and what its replay still holds, is in the order of Enqueue.  *)
ReplayInOrder ==
  \A c \in Conns : live[c] \in {"accepted", "open"} => InOrderOf(log, sent[c] \o batch[c])

(* A message that is queued when a new connection starts its replay leaves  *)
(* the queue: it is sent, or dropped with that replay, or trimmed.          *)
ReplayedOnReconnect ==
  \A m \in Msgs, c \in Conns :
    m \in Range(queue) /\ replay[c] = "drain"
      ~> Sent(m) \/ m \in trimmed \/ m \in abandoned \/ ~up

-----------------------------------------------------------------------------
(* Delivery implements MessageFate.                                         *)

Waiting(m) ==
  IF up THEN m \in Range(queue) \/ \E c \in Conns : m \in Range(batch[c])
        ELSE m \in Range(Newest(rows, maxLen))

Dropped(m) == m \in trimmed \cup abandoned \/ (~up /\ m \in Range(rows))

\* A message that waits may have been delivered before a crash.
Fate(m) ==
  IF phase[m] = "new" THEN "new"
  ELSE IF phase[m] = "rejected" THEN "refused"
  ELSE IF Waiting(m) THEN "waiting"
  ELSE IF Sent(m) THEN "delivered"
  ELSE IF Dropped(m) THEN "dropped"
  ELSE IF phase[m] \in {"lookup", "sending", "enqueue"} THEN "stored"
  ELSE "lost"

Promise == INSTANCE MessageFate WITH fate <- [m \in Msgs |-> Fate(m)]

(* Whatever the interleaving of routers (routing.go:163-236), replays        *)
(* (queue.go:136-170) and reconnects of the same or other devices, a message *)
(* that was delivered is not queued as well, one that waits is not forgotten *)
(* and one that was dropped is not sent; only a crash loses a message, or    *)
(* makes one wait again that was delivered.                                 *)
KeepsPromise == Promise!Spec
=============================================================================
