---------------------------- MODULE OfflineQueue ----------------------------
(***************************************************************************)
(* The offline queue of one recipient over time (server/queue.go,          *)
(* server/queue_persist.go): the length limit and the time-to-live of the  *)
(* queue in memory, its copy in the database, the hourly cleanup of that   *)
(* copy, and a restart that loads it back.                                 *)
(*                                                                         *)
(* Memory and rows change in separate steps without a common lock: a       *)
(* router queues a message and then inserts its row, a replay drains the   *)
(* queue and then deletes the rows.  Other routers and replays, and the    *)
(* end of the process, fall between the two, and either statement may fail *)
(* without anybody being told.  Module Delivery has what comes before and  *)
(* after them.                                                             *)
(*                                                                         *)
(* Time is counted in ticks.  An entry in memory and a row each have their *)
(* own time; persistQueue takes it and inserts the row in one tick.        *)
(***************************************************************************)
EXTENDS Integers, Sequences, SequencesExt

CONSTANTS Msgs,     \* messages; each is queued at most once by the router
          MaxLen,   \* messages kept per recipient (100)
          TTL,      \* time-to-live (7 days)
          MaxTime   \* bound on the clock

ASSUME QueueAssumption ==
  /\ MaxLen \in Nat \ {0}
  /\ TTL \in Nat \ {0}
  /\ MaxTime \in Nat

VARIABLES
  now,
  unsent,     \* messages the router has not queued yet
  since,      \* when each message was first queued
  queue,      \* q.buffers[recipient]: entries [msg, queuedAt]
  rows,       \* offline_queue, by id: entries [msg, queuedAt]
  inserting,  \* queued messages whose router has not called persistQueue yet
  deleting,   \* replays that have drained and not called deleteQueueMessages yet
  delivered,  \* what Drain has returned so far, for replayOfflineMessages to send
  late,       \* messages Drain returned after more than TTL
  reloaded,   \* messages a restart has loaded
  astray,     \* history: messages without a row when a later one was queued, and
              \* messages whose row outlived the DELETE of a replay
  dirty       \* history: since memory and rows last agreed, a statement failed,
              \* or the steps of routers and replays crossed

vars == <<now, unsent, since, queue, rows, inserting, deleting, delivered, late,
          reloaded, astray, dirty>>

\* The newest n: the oldest are dropped.
Newest(s, n) == IF Len(s) > n THEN SubSeq(s, Len(s) - n + 1, Len(s)) ELSE s

Contents(q) == [i \in 1..Len(q) |-> q[i].msg]

\* A loop over s that keeps what is in S.
Kept(s, S) ==
  LET f[i \in 0..Len(s)] ==
        IF i = 0 THEN <<>> ELSE IF s[i] \in S THEN Append(f[i - 1], s[i]) ELSE f[i - 1]
  IN f[Len(s)]

Old(t) == now - t > TTL

Init ==
  /\ now = 0
  /\ unsent = Msgs
  /\ since = [m \in Msgs |-> 0]
  /\ queue = <<>>
  /\ rows = <<>>
  /\ inserting = <<>>
  /\ deleting = 0
  /\ delivered = <<>>
  /\ late = {}
  /\ reloaded = {}
  /\ astray = {}
  /\ dirty = FALSE

Entry(m) == [msg |-> m, queuedAt |-> now]

\* Enqueue; the router's persistQueue is still to come.
Enqueue(m) ==
  /\ m \in unsent
  /\ unsent' = unsent \ {m}
  /\ since' = [since EXCEPT ![m] = now]
  /\ queue' = Newest(Append(queue, Entry(m)), MaxLen)
  /\ inserting' = Append(inserting, m)
  /\ astray' = astray \cup Range(inserting)
  /\ dirty' = (dirty \/ deleting > 0)
  /\ UNCHANGED <<now, rows, deleting, delivered, late, reloaded>>

\* persistQueue of the i-th of the routers that have queued.
PersistQueue(i) ==
  /\ rows' = Append(rows, Entry(inserting[i]))
  /\ inserting' = RemoveAt(inserting, i)
  /\ dirty' = (dirty \/ i # 1)
  /\ UNCHANGED <<now, unsent, since, queue, deleting, delivered, late, reloaded, astray>>

\* The INSERT fails, which is only logged: the message stays in memory.
PersistFails(i) ==
  /\ inserting' = RemoveAt(inserting, i)
  /\ dirty' = TRUE
  /\ UNCHANGED <<now, unsent, since, queue, rows, deleting, delivered, late, reloaded, astray>>

\* Defect: expired entries are handed out like the others.
DrainAll ==
  /\ queue # <<>>
  /\ queue' = <<>>
  /\ delivered' = delivered \o Contents(queue)
  /\ late' = late \cup {m \in Range(Contents(queue)) : Old(since[m])}
  /\ deleting' = deleting + 1
  /\ dirty' = (dirty \/ inserting # <<>>)
  /\ UNCHANGED <<now, unsent, since, rows, inserting, reloaded, astray>>

\* Drain; a replay that gets nothing returns before its DELETE.
Drain ==
  LET result == Contents(Kept(queue, {e \in Range(queue) : ~Old(e.queuedAt)}))
  IN /\ queue # <<>>
     /\ queue' = <<>>
     /\ delivered' = delivered \o result
     /\ late' = late \cup {m \in Range(result) : Old(since[m])}
     /\ deleting' = IF result = <<>> THEN deleting ELSE deleting + 1
     /\ dirty' = (dirty \/ inserting # <<>>)
     /\ UNCHANGED <<now, unsent, since, rows, inserting, reloaded, astray>>

\* deleteQueueMessages takes all rows, those of messages queued since the drain
\* too.  When nothing waits and nobody is at work, memory and rows agree again.
DeleteQueueMessages ==
  /\ deleting > 0
  /\ rows' = <<>>
  /\ deleting' = deleting - 1
  /\ dirty' = (dirty /\ ~(queue = <<>> /\ inserting = <<>> /\ deleting = 1))
  /\ UNCHANGED <<now, unsent, since, queue, inserting, delivered, late, reloaded, astray>>

\* The DELETE fails, which is only logged.
DeleteFails ==
  /\ deleting > 0
  /\ deleting' = deleting - 1
  /\ astray' = astray \cup Range(Contents(rows))
  /\ dirty' = TRUE
  /\ UNCHANGED <<now, unsent, since, queue, rows, inserting, delivered, late, reloaded>>

\* cleanStaleQueueMessages, called every hour with the same 7 days; when its
\* DELETE fails nothing happens.
CleanStale ==
  /\ rows' = Kept(rows, {e \in Range(rows) : ~Old(e.queuedAt)})
  /\ UNCHANGED <<now, unsent, since, queue, inserting, deleting, delivered, late,
                 reloaded, astray, dirty>>

\* A new process has the given queue; routers and replays of the old one are gone.
NewProcess(loaded, q) ==
  /\ queue' = q
  /\ reloaded' = reloaded \cup Range(Contents(loaded))
  /\ inserting' = <<>>
  /\ deleting' = 0
  /\ astray' = IF deleting > 0 THEN astray \cup Range(Contents(rows)) ELSE astray
  /\ dirty' = (loaded # rows)
  /\ UNCHANGED <<now, unsent, since, rows, delivered, late>>

\* Defect: rows are loaded newest first.
RestartDescending ==
  NewProcess(rows, Newest([i \in 1..Len(rows) |-> Entry(rows[Len(rows) - i + 1].msg)], MaxLen))

\* Defect: the SELECT is limited to MaxLen rows.
RestartLimited ==
  LET loaded == IF Len(rows) > MaxLen THEN SubSeq(rows, 1, MaxLen) ELSE rows
  IN NewProcess(rows, [i \in 1..Len(loaded) |-> Entry(loaded[i].msg)])

\* The process ends; the next one queues the rows, in the order of their ids,
\* except those it cannot read: none when the SELECT fails, or single ones.
Restart ==
  \E readable \in SUBSET Msgs :
    LET loaded == Kept(rows, {e \in Range(rows) : e.msg \in readable})
    IN NewProcess(loaded, Newest([i \in 1..Len(loaded) |-> Entry(loaded[i].msg)], MaxLen))

Tick ==
  /\ now < MaxTime
  /\ now' = now + 1
  /\ UNCHANGED <<unsent, since, queue, rows, inserting, deleting, delivered, late,
                 reloaded, astray, dirty>>

Next ==
  \/ \E m \in Msgs : Enqueue(m)
  \/ \E i \in 1..Len(inserting) : PersistQueue(i) \/ PersistFails(i)
  \/ Drain
  \/ DeleteQueueMessages
  \/ DeleteFails
  \/ CleanStale
  \/ Restart
  \/ Tick

Spec == Init /\ [][Next]_vars

-----------------------------------------------------------------------------
(* Properties.                                                              *)

(* Types of the queue; it never exceeds maxLen (queue.go:57-60), however     *)
(* many rows a restart loads.                                               *)
TypeOK ==
  /\ now \in 0..MaxTime
  /\ unsent \in SUBSET Msgs
  /\ since \in [Msgs -> 0..MaxTime]
  /\ queue \in Seq([msg : Msgs, queuedAt : 0..MaxTime]) /\ Len(queue) <= MaxLen
  /\ rows \in Seq([msg : Msgs, queuedAt : 0..MaxTime])
  /\ inserting \in Seq(Msgs)
  /\ deleting \in Nat
  /\ delivered \in Seq(Msgs)
  /\ late \in SUBSET Msgs
  /\ reloaded \in SUBSET Msgs
  /\ astray \in SUBSET Msgs
  /\ dirty \in BOOLEAN

\* Nothing in memory or in the database is past its time-to-live.
AllFresh ==
  \A m \in Range(Contents(queue)) \cup Range(Contents(rows)) : ~Old(since[m])

(* Between two requests, a restart changes nothing while nothing has        *)
(* expired: loading all rows through Enqueue leaves the messages, in the    *)
(* order, that the trimmed queue in memory had, although the rows           *)
(* themselves are never trimmed.  Excepted is the time from a statement     *)
(* that failed or a step that fell into another request (a row inserted     *)
(* before an earlier message's, a message queued or a drain made before the *)
(* DELETE or the INSERT of another) until the next restart that reads all   *)
(* rows or the next replay that leaves nothing waiting.                     *)
RestartIsTransparent ==
  inserting = <<>> /\ deleting = 0 /\ ~dirty /\ AllFresh
    => Contents(queue) = Newest(Contents(rows), MaxLen)

(* Drain never gives out a message older than the time-to-live               *)
(* (queue.go:83) unless a restart has loaded it in between.                 *)
LateOnlyAfterRestart == late \subseteq reloaded

(* Messages are replayed in the order in which they were queued, over all   *)
(* reconnects, restarts, cleanups and failing statements, and one that is   *)
(* replayed again comes before all later ones: rows that outlive a drain    *)
(* that found everything expired, or that are inserted after their message  *)
(* was drained, never come back behind a younger message.  Excepted is only *)
(* the message that comes late: one without a row when a later one was      *)
(* queued, whose row may get the higher id, and one whose row outlived a    *)
(* failed DELETE or a process that ended before its DELETE.                 *)
DeliveredInOrder ==
  \A i, j \in 1..Len(delivered) :
    i < j /\ delivered[j] \notin astray => since[delivered[i]] <= since[delivered[j]]

=============================================================================
