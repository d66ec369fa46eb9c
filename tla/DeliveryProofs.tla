--------------------------- MODULE DeliveryProofs ---------------------------
(***************************************************************************)
(* Proof that module Delivery implements MessageFate for any messages,     *)
(* connections, buffer and queue lengths: the inductive invariant IInv,    *)
(* then the fate of every message over each step.                          *)
(***************************************************************************)
EXTENDS Delivery, FiniteSetTheorems, TLAPS

\* A message that has not been queued is in no queue, batch or row.
Untouched(m) ==
  /\ m \notin Range(queue)
  /\ \A c \in Conns : m \notin Range(batch[c])
  /\ m \notin Range(rows)
  /\ m \notin trimmed \cup abandoned

Accounted(m) == Waiting(m) \/ Sent(m) \/ Dropped(m)

RoutedInv ==
  \A m \in Msgs :
    /\ phase[m] \in {"new", "rejected", "lookup", "sending", "enqueue"} => Untouched(m)
    /\ phase[m] \in {"new", "rejected", "lookup", "enqueue"} => ~Sent(m)
    /\ phase[m] \in {"new", "lookup", "enqueue"} => ~hit[m]
    /\ phase[m] = "sending" => (Sent(m) <=> hit[m])

WriterInv == \A c \in Conns : written[c] <= Len(sent[c])

BatchInv ==
  \A c \in Conns :
    /\ live[c] = "idle" => replay[c] = "off"
    /\ replay[c] \in {"off", "drain", "done"} => batch[c] = <<>>

DownInv ==
  ~up => /\ \A m \in Msgs : phase[m] \in {"new", "done", "rejected", "cut"}
         /\ \A c \in Conns : replay[c] \in {"off", "done"}

AccountedInv ==
  up => \A m \in Msgs : phase[m] = "persist" \/ m \in Range(rows) => Accounted(m)

IInv ==
  TypeOK /\ RoutedInv /\ WriterInv /\ BatchInv /\ DownInv /\ AccountedInv

-----------------------------------------------------------------------------
(* The sequences.                                                           *)

LEMMA RangeEmpty == Range(<<>>) = {}
  BY DEF Range

\* What Enqueue and a send add.
LEMMA RangeAppend ==
  ASSUME NEW s \in Seq(Msgs), NEW m \in Msgs
  PROVE  /\ Append(s, m) \in Seq(Msgs)
         /\ Len(Append(s, m)) = Len(s) + 1
         /\ Range(Append(s, m)) = Range(s) \cup {m}
<1> DEFINE t == Append(s, m)
<1>1. t \in Seq(Msgs) /\ Len(t) = Len(s) + 1 /\ DOMAIN t = 1..Len(s)+1 /\ DOMAIN s = 1..Len(s)
  OBVIOUS
<1>2. \A i \in 1..Len(s) : t[i] = s[i]
  OBVIOUS
<1>3. t[Len(s)+1] = m
  OBVIOUS
<1>4. Len(s) \in Nat
  OBVIOUS
<1> HIDE DEF t
<1>5. Range(t) = Range(s) \cup {m}
  BY <1>1, <1>2, <1>3, <1>4 DEF Range
<1> QED BY <1>1, <1>5 DEF t

\* What a replay takes from its batch.
LEMMA RangeHeadTail ==
  ASSUME NEW s \in Seq(Msgs), s # <<>>
  PROVE  /\ Head(s) \in Msgs
         /\ Tail(s) \in Seq(Msgs)
         /\ Range(s) = {Head(s)} \cup Range(Tail(s))
<1> DEFINE t == Tail(s)
<1>1. t \in Seq(Msgs) /\ DOMAIN t = 1..Len(s)-1 /\ DOMAIN s = 1..Len(s) /\ Len(s) \in Nat \ {0}
  OBVIOUS
<1>2. \A i \in 1..Len(s)-1 : t[i] = s[i+1]
  OBVIOUS
<1>3. Head(s) = s[1] /\ Head(s) \in Msgs
  OBVIOUS
<1> HIDE DEF t
<1>4. ASSUME NEW x \in Range(s) PROVE x \in {Head(s)} \cup Range(t)
  <2>1. PICK i \in 1..Len(s) : x = s[i]
    BY <1>1 DEF Range
  <2>2. CASE i = 1
    BY <2>1, <2>2, <1>3
  <2>3. CASE i # 1
    <3>1. i - 1 \in 1..Len(s)-1 /\ t[i-1] = s[i]
      BY <1>1, <1>2, <2>3
    <3> QED BY <3>1, <2>1, <1>1 DEF Range
  <2> QED BY <2>2, <2>3
<1>5. ASSUME NEW x \in {Head(s)} \cup Range(t) PROVE x \in Range(s)
  <2>1. CASE x = Head(s)
    <3>1. 1 \in 1..Len(s)
      BY <1>1
    <3> QED BY <3>1, <2>1, <1>1, <1>3 DEF Range
  <2>2. CASE x \in Range(t)
    <3>1. PICK i \in 1..Len(s)-1 : x = t[i]
      BY <2>2, <1>1 DEF Range
    <3>2. i+1 \in 1..Len(s) /\ x = s[i+1]
      BY <3>1, <1>1, <1>2
    <3> QED BY <3>2, <1>1 DEF Range
  <2> QED BY <2>1, <2>2
<1> QED BY <1>1, <1>3, <1>4, <1>5 DEF t

\* What a crash leaves of a send channel.
LEMMA RangePrefix ==
  ASSUME NEW s \in Seq(Msgs), NEW k \in 0..Len(s)
  PROVE  /\ SubSeq(s, 1, k) \in Seq(Msgs)
         /\ Len(SubSeq(s, 1, k)) = k
         /\ Range(SubSeq(s, 1, k)) \subseteq Range(s)
<1> DEFINE t == SubSeq(s, 1, k)
<1>1. t \in Seq(Msgs) /\ Len(t) = k /\ DOMAIN t = 1..k /\ DOMAIN s = 1..Len(s) /\ Len(s) \in Nat
  OBVIOUS
<1>2. \A i \in 1..k : t[i] = s[i]
  OBVIOUS
<1> HIDE DEF t
<1>3. Range(t) \subseteq Range(s)
  BY <1>1, <1>2 DEF Range
<1> QED BY <1>1, <1>3 DEF t

\* What the length limit keeps.
LEMMA NewestFacts ==
  ASSUME NEW s \in Seq(Msgs), NEW n \in Nat \ {0}
  PROVE  /\ Newest(s, n) \in Seq(Msgs)
         /\ Len(Newest(s, n)) <= n
         /\ Range(Newest(s, n)) \subseteq Range(s)
         /\ Len(s) > 0 => s[Len(s)] \in Range(Newest(s, n))
<1>1. CASE Len(s) > n
  <2> DEFINE t == SubSeq(s, Len(s) - n + 1, Len(s))
  <2>0. Len(s) \in Nat /\ Len(s) - n + 1 \in 1..Len(s) /\ DOMAIN s = 1..Len(s)
    BY <1>1
  <2>1. t \in Seq(Msgs) /\ Len(t) = n /\ DOMAIN t = 1..n
    BY <1>1, <2>0
  <2>2. \A i \in 1..n : t[i] = s[Len(s) - n + i]
    BY <1>1, <2>0
  <2>3. Newest(s, n) = t
    BY <1>1 DEF Newest
  <2> HIDE DEF t
  <2>4. \A i \in 1..n : Len(s) - n + i \in 1..Len(s)
    BY <2>0, <1>1
  <2>5. Range(t) \subseteq Range(s)
    BY <2>0, <2>1, <2>2, <2>4 DEF Range
  <2>6. n \in 1..n /\ t[n] = s[Len(s)]
    BY <2>0, <2>2
  <2>7. s[Len(s)] \in Range(t)
    BY <2>1, <2>6 DEF Range
  <2> QED BY <2>1, <2>3, <2>5, <2>7
<1>2. CASE ~(Len(s) > n)
  <2>1. Newest(s, n) = s /\ Len(s) <= n /\ DOMAIN s = 1..Len(s) /\ Len(s) \in Nat
    BY <1>2 DEF Newest
  <2>2. Len(s) > 0 => s[Len(s)] \in Range(s)
    BY <2>1 DEF Range
  <2> QED BY <2>1, <2>2
<1> QED BY <1>1, <1>2

\* The message just queued is kept; only queued ones make room for it.
LEMMA NewestAppend ==
  ASSUME NEW s \in Seq(Msgs), NEW m \in Msgs, NEW n \in Nat \ {0}
  PROVE  /\ Newest(Append(s, m), n) \in Seq(Msgs)
         /\ Len(Newest(Append(s, m), n)) <= n
         /\ m \in Range(Newest(Append(s, m), n))
         /\ Range(Newest(Append(s, m), n)) \subseteq Range(s) \cup {m}
<1>1. Append(s, m) \in Seq(Msgs) /\ Len(Append(s, m)) = Len(s) + 1
  BY RangeAppend
<1>2. Append(s, m)[Len(s) + 1] = m /\ Len(s) + 1 > 0
  OBVIOUS
<1>3. Range(Append(s, m)) = Range(s) \cup {m}
  BY RangeAppend
<1>4. PICK t \in Seq(Msgs) : t = Append(s, m)
  BY <1>1
<1>5. /\ Newest(t, n) \in Seq(Msgs)
      /\ Len(Newest(t, n)) <= n
      /\ Range(Newest(t, n)) \subseteq Range(t)
      /\ Len(t) > 0 => t[Len(t)] \in Range(Newest(t, n))
  BY NewestFacts
<1>6. Len(t) > 0 /\ t[Len(t)] = m
  BY <1>1, <1>2, <1>4
<1> QED BY <1>3, <1>4, <1>5, <1>6

-----------------------------------------------------------------------------
(* The invariant holds initially.                                           *)

USE DeliveryAssumption

LEMMA InitIInv == Init => IInv
<1> SUFFICES ASSUME Init PROVE IInv
  OBVIOUS
<1>1. TypeOK
  BY DEF Init, TypeOK
<1>2. \A m \in Msgs : Untouched(m) /\ ~Sent(m)
  BY RangeEmpty DEF Init, Untouched, Sent
<1>3. RoutedInv
  BY <1>2 DEF Init, RoutedInv
<1>4. WriterInv /\ BatchInv /\ DownInv
  BY DEF Init, WriterInv, BatchInv, DownInv
<1>5. AccountedInv
  BY RangeEmpty DEF Init, AccountedInv
<1> QED BY <1>1, <1>3, <1>4, <1>5 DEF IInv

-----------------------------------------------------------------------------
(* Steps.  FateStep is what a step other than Crash and Restart may do.     *)

FateStep ==
  /\ up' = up
  /\ \A m \in Msgs : Fate(m)' = Fate(m) \/ (up /\ <<Fate(m), Fate(m)'>> \in Promise!Moves)

\* What of the state RoutedInv, AccountedInv and Fate are about.
fateVars == <<maxLen, phase, hit, sent, batch, queue, rows, up, trimmed, abandoned>>

LEMMA QuietStep ==
  ASSUME IInv, UNCHANGED fateVars
  PROVE  RoutedInv' /\ AccountedInv' /\ FateStep
<1> USE DEF fateVars
<1>1. ASSUME NEW m \in Msgs
      PROVE  /\ Untouched(m)' = Untouched(m)
             /\ Sent(m)' = Sent(m)
             /\ Waiting(m)' = Waiting(m)
             /\ Dropped(m)' = Dropped(m)
  BY DEF Untouched, Sent, Waiting, Dropped
<1>2. RoutedInv'
  BY <1>1 DEF IInv, RoutedInv
<1>3. AccountedInv'
  BY <1>1 DEF IInv, AccountedInv, Accounted
<1>4. FateStep
  BY <1>1 DEF FateStep, Fate
<1> QED BY <1>2, <1>3, <1>4

\* Connections come and go, the write pump writes, a replay ends.
LEMMA ConnectionStep ==
  ASSUME IInv, NEW c \in Conns,
         Accept(c) \/ Register(c) \/ Unregister(c) \/ WriterSend(c) \/ ReplayEnd(c)
  PROVE  IInv' /\ FateStep
<1> USE DEF IInv, chosen, routerVars, connVars, sendVars, replayVars, queueVars, crashVars
<1>1. UNCHANGED fateVars
  BY DEF fateVars, Accept, Register, Unregister, WriterSend, ReplayEnd
<1>2. RoutedInv' /\ AccountedInv' /\ FateStep
  BY <1>1, QuietStep
<1>3. CASE Accept(c)
  <2>1. TypeOK'
    BY <1>3 DEF Accept, TypeOK
  <2>2. WriterInv' /\ DownInv'
    BY <1>3 DEF Accept, WriterInv, DownInv
  <2>3. BatchInv'
    BY <1>3 DEF Accept, TypeOK, BatchInv
  <2> QED BY <1>2, <2>1, <2>2, <2>3
<1>4. CASE Register(c)
  <2>1. TypeOK'
    BY <1>4 DEF Register, TypeOK
  <2>2. WriterInv' /\ BatchInv' /\ DownInv'
    BY <1>4 DEF Register, WriterInv, BatchInv, DownInv
  <2> QED BY <1>2, <2>1, <2>2
<1>5. CASE Unregister(c)
  <2>1. TypeOK'
    BY <1>5 DEF Unregister, TypeOK
  <2>2. WriterInv' /\ BatchInv' /\ DownInv'
    BY <1>5 DEF Unregister, WriterInv, BatchInv, DownInv
  <2> QED BY <1>2, <2>1, <2>2
<1>6. CASE WriterSend(c)
  <2>1. TypeOK'
    BY <1>6 DEF WriterSend, TypeOK
  <2>2. WriterInv'
    BY <1>6 DEF WriterSend, TypeOK, WriterInv
  <2>3. BatchInv' /\ DownInv'
    BY <1>6 DEF WriterSend, BatchInv, DownInv
  <2> QED BY <1>2, <2>1, <2>2, <2>3
<1>7. CASE ReplayEnd(c)
  <2>1. TypeOK'
    BY <1>7 DEF ReplayEnd, TypeOK
  <2>2. WriterInv' /\ BatchInv' /\ DownInv'
    BY <1>7 DEF ReplayEnd, TypeOK, WriterInv, BatchInv, DownInv
  <2> QED BY <1>2, <2>1, <2>2
<1> QED BY <1>3, <1>4, <1>5, <1>6, <1>7

\* The router moves on without touching queue, batches or send channels.
LEMMA RouterStep ==
  ASSUME IInv, NEW m \in Msgs,
         Reject(m) \/ StoreMessage(m) \/ Lookup(m) \/ AfterSends(m)
  PROVE  IInv' /\ FateStep
<1> USE DEF IInv, Goto, chosen, connVars, sendVars, replayVars, queueVars, crashVars
<1>1. UNCHANGED <<maxLen, hit, sent, written, live, replay, batch, queue, rows, up, trimmed, abandoned>>
  BY DEF Reject, StoreMessage, Lookup, AfterSends
<1>2. ASSUME NEW x \in Msgs
      PROVE  /\ Untouched(x)' = Untouched(x)
             /\ Sent(x)' = Sent(x)
             /\ Waiting(x)' = Waiting(x)
             /\ Dropped(x)' = Dropped(x)
  BY <1>1 DEF Untouched, Sent, Waiting, Dropped
<1>3. TypeOK'
  <2>1. CASE Reject(m)
    BY <2>1 DEF Reject, TypeOK
  <2>2. CASE StoreMessage(m)
    BY <2>2 DEF StoreMessage, TypeOK
  <2>3. CASE Lookup(m)
    BY <2>3 DEF Lookup, TypeOK
  <2>4. CASE AfterSends(m)
    BY <2>4 DEF AfterSends, TypeOK
  <2> QED BY <2>1, <2>2, <2>3, <2>4
<1>4. \A x \in Msgs : x # m => phase'[x] = phase[x]
  BY DEF TypeOK, Reject, StoreMessage, Lookup, AfterSends
<1>5. up
  <2>1. phase[m] = "new" => up
    BY DEF TypeOK, Reject, StoreMessage, Lookup, AfterSends
  <2>2. phase[m] # "new" => phase[m] \in {"lookup", "sending"}
    BY DEF Reject, StoreMessage, Lookup, AfterSends
  <2> QED BY <2>1, <2>2 DEF DownInv, TypeOK
<1>6. \/ phase[m] = "new" /\ phase'[m] \in {"rejected", "lookup"}
      \/ phase[m] = "lookup" /\ phase'[m] \in {"sending", "enqueue"}
      \/ phase[m] = "sending" /\ phase'[m] = IF hit[m] THEN "done" ELSE "enqueue"
  BY DEF TypeOK, Reject, StoreMessage, Lookup, AfterSends
<1>7. Untouched(m) /\ (phase[m] # "sending" => ~Sent(m) /\ ~hit[m])
      /\ (phase[m] = "sending" => (Sent(m) <=> hit[m]))
  BY <1>6 DEF RoutedInv
<1>8. RoutedInv'
  <2>1. ASSUME NEW x \in Msgs, x # m
        PROVE  /\ phase'[x] \in {"new", "rejected", "lookup", "sending", "enqueue"} => Untouched(x)'
               /\ phase'[x] \in {"new", "rejected", "lookup", "enqueue"} => ~Sent(x)'
               /\ phase'[x] \in {"new", "lookup", "enqueue"} => ~hit'[x]
               /\ phase'[x] = "sending" => (Sent(x)' <=> hit'[x])
    BY <1>1, <1>2, <1>4, <2>1 DEF RoutedInv
  <2>2. /\ phase'[m] \in {"new", "rejected", "lookup", "sending", "enqueue"} => Untouched(m)'
        /\ phase'[m] \in {"new", "rejected", "lookup", "enqueue"} => ~Sent(m)'
        /\ phase'[m] \in {"new", "lookup", "enqueue"} => ~hit'[m]
        /\ phase'[m] = "sending" => (Sent(m)' <=> hit'[m])
    BY <1>1, <1>2, <1>6, <1>7
  <2> QED BY <2>1, <2>2 DEF RoutedInv
<1>9. WriterInv' /\ BatchInv' /\ DownInv'
  BY <1>1, <1>5 DEF WriterInv, BatchInv, DownInv
<1>10. AccountedInv'
  BY <1>1, <1>2, <1>4, <1>6 DEF AccountedInv, Accounted
<1>11. ~Waiting(m) /\ ~Dropped(m)
  BY <1>5, <1>7 DEF Untouched, Waiting, Dropped
<1>12. FateStep
  <2>1. \A x \in Msgs : x # m => Fate(x)' = Fate(x)
    BY <1>2, <1>4 DEF Fate
  <2>2. CASE phase[m] = "new"
    <3>1. Fate(m) = "new" /\ Fate(m)' \in {"refused", "stored"}
      BY <1>2, <1>6, <1>7, <1>11, <2>2 DEF Fate
    <3> QED BY <2>1, <3>1, <1>1, <1>5 DEF FateStep, Promise!Moves
  <2>3. CASE phase[m] # "new"
    <3>1. Fate(m)' = Fate(m)
      BY <1>2, <1>6, <1>7, <1>11, <2>3 DEF Fate
    <3> QED BY <2>1, <3>1, <1>1 DEF FateStep
  <2> QED BY <2>2, <2>3
<1> QED BY <1>3, <1>8, <1>9, <1>10, <1>12

\* One SafeSend of a router.
LEMMA SendToTargetStep ==
  ASSUME IInv, NEW m \in Msgs, NEW c \in Conns, SendToTarget(m, c)
  PROVE  IInv' /\ FateStep
<1> USE DEF IInv, SendToTarget, Put, chosen, connVars, replayVars, queueVars, crashVars
<1>1. UNCHANGED <<maxLen, phase, live, written, replay, batch, queue, rows, up, trimmed, abandoned>>
  OBVIOUS
<1>2. ASSUME NEW x \in Msgs
      PROVE  /\ Untouched(x)' = Untouched(x)
             /\ Waiting(x)' = Waiting(x)
             /\ Dropped(x)' = Dropped(x)
  BY <1>1 DEF Untouched, Waiting, Dropped
<1>3. up /\ Untouched(m) /\ (Sent(m) <=> hit[m])
  BY DEF DownInv, RoutedInv, TypeOK
<1>4. CASE SafeSendOK(c)
  <2>1. /\ sent[c] \in Seq(Msgs)
        /\ sent' = [sent EXCEPT ![c] = Append(sent[c], m)]
        /\ hit' = [hit EXCEPT ![m] = TRUE]
    BY <1>4 DEF TypeOK
  <2>2. /\ Append(sent[c], m) \in Seq(Msgs)
        /\ Len(Append(sent[c], m)) = Len(sent[c]) + 1
        /\ Range(Append(sent[c], m)) = Range(sent[c]) \cup {m}
    BY <2>1, RangeAppend
  <2>3. TypeOK'
    BY <2>1, <2>2 DEF TypeOK
  <2>4. WriterInv'
    BY <1>1, <2>1, <2>2 DEF TypeOK, WriterInv
  <2>5. Sent(m)'
    BY <2>1, <2>2 DEF TypeOK, Sent
  <2>6. ASSUME NEW x \in Msgs, x # m
        PROVE  Sent(x)' <=> Sent(x)
    BY <2>1, <2>2, <2>6 DEF TypeOK, Sent
  <2>7. hit'[m] = TRUE /\ \A x \in Msgs : x # m => hit'[x] = hit[x]
    BY <2>1 DEF TypeOK
  <2>8. RoutedInv'
    BY <1>1, <1>2, <1>3, <2>5, <2>6, <2>7 DEF RoutedInv
  <2>9. AccountedInv'
    BY <1>1, <1>2, <2>5, <2>6 DEF AccountedInv, Accounted
  <2>10. \A x \in Msgs : x # m => Fate(x)' = Fate(x)
    BY <1>1, <1>2, <2>6 DEF Fate
  <2>11. ~Waiting(m) /\ ~Dropped(m)
    BY <1>3 DEF Untouched, Waiting, Dropped
  <2>12. Fate(m)' = "delivered" /\ Fate(m) \in {"stored", "delivered"}
    BY <1>1, <1>2, <2>5, <2>11 DEF Fate
  <2>13. FateStep
    BY <1>1, <1>3, <2>10, <2>12 DEF FateStep, Promise!Moves
  <2>14. BatchInv' /\ DownInv'
    BY <1>1 DEF BatchInv, DownInv
  <2> QED BY <2>3, <2>4, <2>8, <2>9, <2>13, <2>14
<1>5. CASE ~SafeSendOK(c)
  <2>1. UNCHANGED <<sent, hit>>
    BY <1>5
  <2>2. RoutedInv' /\ AccountedInv' /\ FateStep
    BY <1>1, <2>1, QuietStep DEF fateVars
  <2>3. TypeOK'
    BY <2>1 DEF TypeOK
  <2>4. WriterInv' /\ BatchInv' /\ DownInv'
    BY <1>1, <2>1 DEF WriterInv, BatchInv, DownInv
  <2> QED BY <2>2, <2>3, <2>4
<1> QED BY <1>4, <1>5

\* Enqueue: the message waits; the oldest may be dropped for it.
LEMMA EnqueueMessageStep ==
  ASSUME IInv, NEW m \in Msgs, EnqueueMessage(m)
  PROVE  IInv' /\ FateStep
<1> USE DEF IInv, EnqueueMessage, Goto, chosen, connVars, sendVars, replayVars, crashVars
<1>1. UNCHANGED <<maxLen, hit, live, sent, written, replay, batch, rows, up, abandoned>>
  OBVIOUS
<1>2. phase[m] = "enqueue" /\ phase'[m] = "persist" /\ \A x \in Msgs : x # m => phase'[x] = phase[x]
  BY DEF TypeOK
<1>3. up /\ Untouched(m) /\ ~Sent(m)
  BY <1>2 DEF DownInv, RoutedInv
<1>4. /\ queue \in Seq(Msgs)
      /\ maxLen \in Nat \ {0}
      /\ Append(queue, m) \in Seq(Msgs)
      /\ Range(Append(queue, m)) = Range(queue) \cup {m}
      /\ Append(log, m) \in Seq(Msgs)
  BY RangeAppend DEF TypeOK
<1>5. /\ queue' = Newest(Append(queue, m), maxLen)
      /\ log' = Append(log, m)
      /\ trimmed' = trimmed \cup ((Range(queue) \cup {m}) \ Range(queue'))
  BY <1>4 DEF Enqueue
<1>6. /\ queue' \in Seq(Msgs)
      /\ Len(queue') <= maxLen
      /\ m \in Range(queue')
      /\ Range(queue') \subseteq Range(queue) \cup {m}
  BY <1>4, <1>5, NewestAppend
<1>7. Range(queue) \subseteq Msgs
  BY <1>4 DEF Range
<1>8. TypeOK'
  <2>1. trimmed' \in SUBSET Msgs
    BY <1>5, <1>7 DEF TypeOK
  <2>2. phase' \in [Msgs -> {"new", "lookup", "sending", "enqueue", "persist", "done",
                             "rejected", "cut"}]
    BY DEF TypeOK
  <2> QED BY <1>1, <1>4, <1>5, <1>6, <2>1, <2>2 DEF TypeOK
<1>9. ASSUME NEW x \in Msgs
      PROVE  Sent(x)' = Sent(x)
  BY <1>1 DEF Sent
<1>10. ASSUME NEW x \in Msgs, x # m
       PROVE  Untouched(x) => Untouched(x)'
  BY <1>1, <1>5, <1>6, <1>10 DEF Untouched
<1>11. RoutedInv'
  BY <1>1, <1>2, <1>9, <1>10 DEF RoutedInv
<1>12. WriterInv' /\ BatchInv' /\ DownInv'
  BY <1>1, <1>3 DEF WriterInv, BatchInv, DownInv
<1>13. Waiting(m)' /\ ~Waiting(m) /\ ~Dropped(m)
  BY <1>1, <1>3, <1>6 DEF Untouched, Waiting, Dropped
<1>14. ASSUME NEW x \in Msgs, x # m
       PROVE  /\ Waiting(x)' => Waiting(x)
              /\ Waiting(x) => Waiting(x)' \/ Dropped(x)'
              /\ ~Waiting(x) => (Dropped(x)' <=> Dropped(x))
              /\ Dropped(x) => Dropped(x)'
  BY <1>1, <1>3, <1>5, <1>6, <1>14 DEF Waiting, Dropped
<1>15. AccountedInv'
  BY <1>1, <1>2, <1>9, <1>13, <1>14 DEF AccountedInv, Accounted
<1>16. FateStep
  <2>1. Fate(m) = "stored" /\ Fate(m)' = "waiting"
    BY <1>2, <1>3, <1>13 DEF Fate
  <2>2. ASSUME NEW x \in Msgs, x # m
        PROVE  Fate(x)' = Fate(x) \/ (Fate(x) = "waiting" /\ Fate(x)' \in {"delivered", "dropped"})
    BY <1>2, <1>9, <1>14, <2>2 DEF Fate
  <2> QED BY <1>1, <1>3, <2>1, <2>2 DEF FateStep, Promise!Moves
<1> QED BY <1>8, <1>11, <1>12, <1>15, <1>16

\* PersistQueue: the row is written, or the error logged.
LEMMA PersistQueueStep ==
  ASSUME IInv, NEW m \in Msgs, PersistQueue(m)
  PROVE  IInv' /\ FateStep
<1> USE DEF IInv, PersistQueue, Goto, chosen, connVars, sendVars, replayVars, queueVars, crashVars
<1>1. UNCHANGED <<maxLen, hit, live, sent, written, replay, batch, queue, up, trimmed, abandoned>>
  OBVIOUS
<1>2. phase[m] = "persist" /\ phase'[m] = "done" /\ \A x \in Msgs : x # m => phase'[x] = phase[x]
  BY DEF TypeOK
<1>3. up
  BY <1>2 DEF DownInv
<1>4. rows' \in Seq(Msgs) /\ Range(rows') \subseteq Range(rows) \cup {m}
  <2>1. rows \in Seq(Msgs) /\ (rows' = Append(rows, m) \/ rows' = rows)
    BY DEF TypeOK
  <2>2. Append(rows, m) \in Seq(Msgs) /\ Range(Append(rows, m)) = Range(rows) \cup {m}
    BY <2>1, RangeAppend
  <2> QED BY <2>1, <2>2
<1>5. TypeOK'
  <2>1. phase' \in [Msgs -> {"new", "lookup", "sending", "enqueue", "persist", "done",
                             "rejected", "cut"}]
    BY DEF TypeOK
  <2> QED BY <1>4, <2>1 DEF TypeOK
<1>6. ASSUME NEW x \in Msgs
      PROVE  /\ Sent(x)' = Sent(x)
             /\ Waiting(x)' = Waiting(x)
             /\ Dropped(x)' = Dropped(x)
  BY <1>1, <1>3 DEF Sent, Waiting, Dropped
<1>7. ASSUME NEW x \in Msgs, x # m
      PROVE  Untouched(x) => Untouched(x)'
  BY <1>1, <1>4, <1>7 DEF Untouched
<1>8. RoutedInv'
  BY <1>1, <1>2, <1>6, <1>7 DEF RoutedInv
<1>9. WriterInv' /\ BatchInv' /\ DownInv'
  BY <1>1, <1>3 DEF WriterInv, BatchInv, DownInv
<1>10. AccountedInv'
  BY <1>1, <1>2, <1>3, <1>4, <1>6 DEF AccountedInv, Accounted
<1>11. FateStep
  <2>1. ASSUME NEW x \in Msgs PROVE Fate(x)' = Fate(x)
    BY <1>2, <1>6 DEF Fate
  <2> QED BY <1>1, <2>1 DEF FateStep
<1> QED BY <1>5, <1>8, <1>9, <1>10, <1>11

\* Drain: what was queued is in the batch of one replay.
LEMMA ReplayDrainStep ==
  ASSUME IInv, NEW c \in Conns, ReplayDrain(c)
  PROVE  IInv' /\ FateStep
<1> USE DEF IInv, ReplayDrain, Drain, chosen, routerVars, connVars, sendVars, crashVars
<1>1. UNCHANGED <<maxLen, phase, hit, live, sent, written, rows, up, trimmed, abandoned>>
  OBVIOUS
<1>2. up /\ batch[c] = <<>> /\ live[c] # "idle"
  BY DEF DownInv, BatchInv
<1>3. queue' = <<>> /\ batch' = [batch EXCEPT ![c] = queue]
  OBVIOUS
<1>4. TypeOK'
  <2>1. batch' \in [Conns -> Seq(Msgs)] /\ queue' \in Seq(Msgs) /\ Len(queue') <= maxLen
    BY <1>3 DEF TypeOK
  <2>2. replay' \in [Conns -> {"off", "drain", "delete", "sending", "done"}]
    BY DEF TypeOK
  <2> QED BY <1>1, <2>1, <2>2 DEF TypeOK
<1>5. /\ batch'[c] = queue
      /\ \A d \in Conns : d # c => batch'[d] = batch[d]
  BY <1>3 DEF TypeOK
<1>6. ASSUME NEW x \in Msgs
      PROVE  /\ Sent(x)' = Sent(x)
             /\ Dropped(x)' = Dropped(x)
             /\ Waiting(x)' <=> Waiting(x)
             /\ Untouched(x)' <=> Untouched(x)
  <2>1. Sent(x)' = Sent(x) /\ Dropped(x)' = Dropped(x)
    BY <1>1 DEF Sent, Dropped
  <2>2. (\E d \in Conns : x \in Range(batch'[d]))
        <=> x \in Range(queue) \/ \E d \in Conns : x \in Range(batch[d])
    BY <1>2, <1>5, RangeEmpty
  <2>3. x \notin Range(queue')
    BY <1>3, RangeEmpty
  <2> QED BY <1>1, <1>2, <2>1, <2>2, <2>3 DEF Waiting, Untouched
<1>7. RoutedInv'
  BY <1>1, <1>6 DEF RoutedInv
<1>8. WriterInv' /\ DownInv'
  BY <1>1, <1>2 DEF WriterInv, DownInv
<1>9. BatchInv'
  BY <1>1, <1>2, <1>5 DEF TypeOK, BatchInv
<1>10. AccountedInv'
  BY <1>1, <1>6 DEF AccountedInv, Accounted
<1>11. FateStep
  <2>1. ASSUME NEW x \in Msgs PROVE Fate(x)' = Fate(x)
    BY <1>1, <1>6 DEF Fate
  <2> QED BY <1>1, <2>1 DEF FateStep
<1> QED BY <1>4, <1>7, <1>8, <1>9, <1>10, <1>11

\* DeleteQueueMessages: while the process runs, rows decide nothing.
LEMMA DeleteQueueMessagesStep ==
  ASSUME IInv, NEW c \in Conns, DeleteQueueMessages(c)
  PROVE  IInv' /\ FateStep
<1> USE DEF IInv, DeleteQueueMessages, chosen, routerVars, connVars, sendVars, queueVars, crashVars
<1>1. UNCHANGED <<maxLen, phase, hit, live, sent, written, batch, queue, up, trimmed, abandoned>>
  OBVIOUS
<1>2. up /\ live[c] # "idle"
  BY DEF DownInv, BatchInv
<1>3. rows' \in Seq(Msgs) /\ Range(rows') \subseteq Range(rows)
  <2>1. rows' = <<>> \/ rows' = rows
    OBVIOUS
  <2>2. <<>> \in Seq(Msgs) /\ rows \in Seq(Msgs)
    BY DEF TypeOK
  <2>3. CASE rows' = <<>>
    <3>1. Range(rows') = {}
      BY <2>3, RangeEmpty
    <3> QED BY <2>2, <2>3, <3>1
  <2>4. CASE rows' = rows
    BY <2>2, <2>4
  <2> QED BY <2>1, <2>3, <2>4
<1>4. TypeOK'
  <2>1. replay' \in [Conns -> {"off", "drain", "delete", "sending", "done"}]
    BY DEF TypeOK
  <2> QED BY <1>1, <1>3, <2>1 DEF TypeOK
<1>5. ASSUME NEW x \in Msgs
      PROVE  /\ Sent(x)' = Sent(x)
             /\ Waiting(x)' = Waiting(x)
             /\ Dropped(x)' = Dropped(x)
             /\ Untouched(x) => Untouched(x)'
  BY <1>1, <1>2, <1>3 DEF Sent, Waiting, Dropped, Untouched
<1>6. RoutedInv'
  BY <1>1, <1>5 DEF RoutedInv
<1>7. WriterInv' /\ DownInv'
  BY <1>1, <1>2 DEF WriterInv, DownInv
<1>8. BatchInv'
  BY <1>1, <1>2 DEF TypeOK, BatchInv
<1>9. AccountedInv'
  BY <1>1, <1>2, <1>3, <1>5 DEF AccountedInv, Accounted
<1>10. FateStep
  <2>1. ASSUME NEW x \in Msgs PROVE Fate(x)' = Fate(x)
    BY <1>1, <1>5 DEF Fate
  <2> QED BY <1>1, <2>1 DEF FateStep
<1> QED BY <1>4, <1>6, <1>7, <1>8, <1>9, <1>10

\* A replay sends the next message, or gives up and drops the rest.
LEMMA ReplaySendStep ==
  ASSUME IInv, NEW c \in Conns, ReplaySend(c)
  PROVE  IInv' /\ FateStep
<1> USE DEF IInv, ReplaySend, Put, chosen, routerVars, connVars, queueVars, crashVars
<1>1. UNCHANGED <<maxLen, phase, hit, live, written, queue, rows, up, trimmed>>
  OBVIOUS
<1>2. up /\ live[c] # "idle" /\ replay[c] = "sending"
  BY DEF DownInv, BatchInv
<1>3. /\ batch[c] \in Seq(Msgs)
      /\ batch[c] # <<>>
      /\ Head(batch[c]) \in Msgs
      /\ Tail(batch[c]) \in Seq(Msgs)
      /\ Range(batch[c]) = {Head(batch[c])} \cup Range(Tail(batch[c]))
  BY RangeHeadTail DEF TypeOK
<1>4. Range(batch[c]) \subseteq Msgs
  BY <1>3 DEF Range
<1>5. ASSUME NEW x \in Msgs, x \in Range(batch[c])
      PROVE  /\ Waiting(x)
             /\ phase[x] \notin {"new", "rejected", "lookup", "sending", "enqueue"}
  BY <1>2, <1>5 DEF Waiting, RoutedInv, Untouched
<1>6. CASE SafeSendOK(c)
  <2>1. PICK h \in Msgs : h = Head(batch[c])
    BY <1>3
  <2>2. /\ sent[c] \in Seq(Msgs)
        /\ sent' = [sent EXCEPT ![c] = Append(sent[c], h)]
        /\ batch' = [batch EXCEPT ![c] = Tail(batch[c])]
        /\ UNCHANGED <<replay, abandoned>>
    BY <1>6, <2>1 DEF TypeOK
  <2>3. /\ Append(sent[c], h) \in Seq(Msgs)
        /\ Len(Append(sent[c], h)) = Len(sent[c]) + 1
        /\ Range(Append(sent[c], h)) = Range(sent[c]) \cup {h}
    BY <2>2, RangeAppend
  <2>4. TypeOK'
    BY <1>1, <1>3, <2>2, <2>3 DEF TypeOK
  <2>5. /\ batch'[c] = Tail(batch[c])
        /\ \A d \in Conns : d # c => batch'[d] = batch[d]
    BY <2>2 DEF TypeOK
  <2>6. WriterInv'
    BY <1>1, <2>2, <2>3 DEF TypeOK, WriterInv
  <2>7. BatchInv'
    BY <1>1, <1>2, <2>2, <2>5 DEF BatchInv
  <2>8. DownInv'
    BY <1>1, <1>2 DEF DownInv
  <2>9. Sent(h)'
    BY <2>2, <2>3 DEF TypeOK, Sent
  <2>10. ASSUME NEW x \in Msgs, x # h
         PROVE  Sent(x)' <=> Sent(x)
    BY <2>2, <2>3, <2>10 DEF TypeOK, Sent
  <2>11. ASSUME NEW x \in Msgs, x # h
         PROVE  (\E d \in Conns : x \in Range(batch'[d])) <=> \E d \in Conns : x \in Range(batch[d])
    BY <1>3, <2>1, <2>5, <2>11
  <2>12. ASSUME NEW x \in Msgs, x # h
         PROVE  /\ Waiting(x)' <=> Waiting(x)
                /\ Untouched(x)' <=> Untouched(x)
    BY <1>1, <1>2, <2>2, <2>11, <2>12 DEF Waiting, Untouched
  <2>13. ASSUME NEW x \in Msgs
         PROVE  Dropped(x)' = Dropped(x)
    BY <1>1, <2>2 DEF Dropped
  <2>14. Waiting(h) /\ phase[h] \notin {"new", "rejected", "lookup", "sending", "enqueue"}
    BY <1>3, <1>5, <2>1
  <2>15. RoutedInv'
    BY <1>1, <2>10, <2>12, <2>14 DEF RoutedInv
  <2>16. AccountedInv'
    BY <1>1, <2>9, <2>10, <2>12, <2>13 DEF AccountedInv, Accounted
  <2>17. Fate(h) = "waiting" /\ Fate(h)' \in {"waiting", "delivered"}
    BY <1>1, <2>9, <2>14 DEF Fate
  <2>18. \A x \in Msgs : x # h => Fate(x)' = Fate(x)
    BY <1>1, <2>10, <2>12, <2>13 DEF Fate
  <2>19. FateStep
    BY <1>1, <1>2, <2>17, <2>18 DEF FateStep, Promise!Moves
  <2> QED BY <2>4, <2>6, <2>7, <2>8, <2>15, <2>16, <2>19
<1>7. CASE ~SafeSendOK(c)
  <2>1. /\ batch' = [batch EXCEPT ![c] = <<>>]
        /\ replay' = [replay EXCEPT ![c] = "done"]
        /\ abandoned' = abandoned \cup Range(batch[c])
        /\ UNCHANGED sent
    BY <1>7
  <2>2. TypeOK'
    <3>1. batch' \in [Conns -> Seq(Msgs)]
      BY <2>1 DEF TypeOK
    <3>2. replay' \in [Conns -> {"off", "drain", "delete", "sending", "done"}]
      BY <2>1 DEF TypeOK
    <3>3. abandoned' \in SUBSET Msgs
      BY <1>4, <2>1 DEF TypeOK
    <3> QED BY <1>1, <2>1, <3>1, <3>2, <3>3 DEF TypeOK
  <2>3. /\ batch'[c] = <<>>
        /\ \A d \in Conns : d # c => batch'[d] = batch[d]
    BY <2>1 DEF TypeOK
  <2>4. WriterInv' /\ DownInv'
    BY <1>1, <1>2, <2>1 DEF WriterInv, DownInv
  <2>5. BatchInv'
    BY <1>1, <1>2, <2>1, <2>3 DEF TypeOK, BatchInv
  <2>6. ASSUME NEW x \in Msgs
        PROVE  Sent(x)' = Sent(x)
    BY <2>1 DEF Sent
  <2>7. ASSUME NEW x \in Msgs
        PROVE  /\ Waiting(x)' => Waiting(x)
               /\ Waiting(x) => Waiting(x)' \/ Dropped(x)'
               /\ ~Waiting(x) => (Dropped(x)' <=> Dropped(x))
               /\ Dropped(x) => Dropped(x)'
               /\ Untouched(x) => Untouched(x)'
    <3>1. (\E d \in Conns : x \in Range(batch'[d])) => \E d \in Conns : x \in Range(batch[d])
      BY <2>3, RangeEmpty
    <3>2. (\E d \in Conns : x \in Range(batch[d]))
          => x \in Range(batch[c]) \/ \E d \in Conns : x \in Range(batch'[d])
      BY <2>3
    <3>3. x \in Range(batch[c]) => \E d \in Conns : x \in Range(batch[d])
      OBVIOUS
    <3> QED BY <1>1, <1>2, <2>1, <3>1, <3>2, <3>3 DEF Waiting, Dropped, Untouched
  <2>8. RoutedInv'
    BY <1>1, <2>6, <2>7 DEF RoutedInv
  <2>9. AccountedInv'
    BY <1>1, <2>6, <2>7 DEF AccountedInv, Accounted
  <2>10. FateStep
    <3>1. ASSUME NEW x \in Msgs
          PROVE  Fate(x)' = Fate(x) \/ (Fate(x) = "waiting" /\ Fate(x)' \in {"delivered", "dropped"})
      BY <1>1, <2>6, <2>7 DEF Fate
    <3> QED BY <1>1, <1>2, <3>1 DEF FateStep, Promise!Moves
  <2> QED BY <2>2, <2>4, <2>5, <2>8, <2>9, <2>10
<1> QED BY <1>6, <1>7

\* The process dies: a waiting message of which there is no row is lost,
\* as is what was in a send channel; what has a row waits again.
LEMMA CrashStep ==
  ASSUME IInv, Crash
  PROVE  /\ IInv'
         /\ up /\ ~up'
         /\ \A m \in Msgs : <<Fate(m), Fate(m)'>> \in Promise!CrashMoves
<1> USE DEF IInv, Crash, chosen
<1>1. up /\ ~up' /\ UNCHANGED <<maxLen, hit, written, rows, trimmed, abandoned>>
  OBVIOUS
<1>2. ASSUME NEW c \in Conns
      PROVE  /\ sent'[c] \in Seq(Msgs)
             /\ Len(sent'[c]) = written[c]
             /\ Range(sent'[c]) \subseteq Range(sent[c])
  <2>1. sent'[c] = SubSeq(sent[c], 1, written[c])
    OBVIOUS
  <2>2. sent[c] \in Seq(Msgs) /\ written[c] \in 0..Len(sent[c])
    BY DEF TypeOK, WriterInv
  <2> QED BY <2>1, <2>2, RangePrefix
<1>3. sent' \in [Conns -> Seq(Msgs)]
  <2>1. sent' = [c \in Conns |-> sent'[c]]
    OBVIOUS
  <2> QED BY <1>2, <2>1
<1>4. TypeOK'
  <2>1. phase' \in [Msgs -> {"new", "lookup", "sending", "enqueue", "persist", "done",
                             "rejected", "cut"}]
    BY DEF TypeOK
  <2>2. targets' \in [Msgs -> SUBSET Conns] /\ online' \in SUBSET Conns
    BY DEF TypeOK
  <2>3. live' \in [Conns -> {"idle", "accepted", "open", "closed"}]
    BY DEF TypeOK
  <2>4. /\ replay' \in [Conns -> {"off", "drain", "delete", "sending", "done"}]
        /\ batch' \in [Conns -> Seq(Msgs)]
    BY DEF TypeOK
  <2>5. queue' \in Seq(Msgs) /\ Len(queue') <= maxLen' /\ log' \in Seq(Msgs)
    BY DEF TypeOK
  <2>6. crashes' \in Nat
    BY DEF TypeOK
  <2>7. up' \in BOOLEAN
    OBVIOUS
  <2> QED BY <1>1, <1>3, <2>1, <2>2, <2>3, <2>4, <2>5, <2>6, <2>7 DEF TypeOK
<1>5. \A m \in Msgs : phase'[m] = IF phase[m] \in {"new", "done", "rejected"} THEN phase[m] ELSE "cut"
  OBVIOUS
<1>6. ASSUME NEW m \in Msgs PROVE Sent(m)' => Sent(m)
  BY <1>2 DEF Sent
<1>7. ASSUME NEW m \in Msgs PROVE Untouched(m) => Untouched(m)'
  <2>1. queue' = <<>> /\ \A c \in Conns : batch'[c] = <<>>
    OBVIOUS
  <2>2. m \notin Range(queue') /\ \A c \in Conns : m \notin Range(batch'[c])
    BY <2>1, RangeEmpty
  <2> QED BY <1>1, <2>2 DEF Untouched
<1>8. RoutedInv'
  BY <1>1, <1>5, <1>6, <1>7 DEF RoutedInv
<1>9. WriterInv'
  BY <1>1, <1>2 DEF TypeOK, WriterInv
<1>10. BatchInv'
  BY DEF BatchInv
<1>11. DownInv'
  BY <1>5 DEF TypeOK, DownInv
<1>12. AccountedInv'
  BY <1>1 DEF AccountedInv
<1>13. Range(Newest(rows, maxLen)) \subseteq Range(rows)
  BY NewestFacts DEF TypeOK
<1>14. ASSUME NEW m \in Msgs
       PROVE  /\ Waiting(m)' => m \in Range(rows)
              /\ m \notin Range(rows) => (Dropped(m)' <=> Dropped(m))
              /\ Dropped(m) => Dropped(m)'
  BY <1>1, <1>13 DEF Waiting, Dropped
<1>15. ASSUME NEW m \in Msgs
       PROVE  <<Fate(m), Fate(m)'>> \in Promise!CrashMoves
  <2>1. CASE phase[m] \in {"new", "rejected"}
    <3>1. Fate(m)' = Fate(m) /\ Fate(m) \in {"new", "refused"}
      BY <1>5, <2>1 DEF Fate
    <3> QED BY <3>1 DEF Promise!CrashMoves
  <2>2. CASE phase[m] \notin {"new", "rejected"}
    <3>1. phase'[m] \in {"done", "cut"}
      BY <1>5, <2>2
    <3>2. Fate(m)' \in {"waiting", "delivered", "dropped", "lost"}
      BY <3>1 DEF Fate
    <3>3. CASE Fate(m) \in {"waiting", "delivered"}
      BY <3>2, <3>3 DEF Promise!CrashMoves
    <3>4. CASE Fate(m) = "dropped"
      <4>1. ~Waiting(m) /\ ~Sent(m) /\ Dropped(m)
        BY <2>2, <3>4 DEF Fate
      <4>2. Fate(m)' \in {"waiting", "dropped"}
        BY <1>6, <1>14, <3>1, <4>1 DEF Fate
      <4> QED BY <3>4, <4>2 DEF Promise!CrashMoves
    <3>5. CASE Fate(m) \in {"stored", "lost"}
      <4>1. ~Waiting(m) /\ ~Sent(m) /\ ~Dropped(m)
        BY <2>2, <3>5 DEF Fate
      <4>2. m \notin Range(rows)
        BY <1>1, <4>1 DEF AccountedInv, Accounted
      <4>3. Fate(m)' = "lost"
        BY <1>6, <1>14, <3>1, <4>1, <4>2 DEF Fate
      <4> QED BY <3>5, <4>3 DEF Promise!CrashMoves
    <3>6. Fate(m) \in {"waiting", "delivered", "dropped", "stored", "lost"}
      BY <2>2 DEF Fate
    <3> QED BY <3>3, <3>4, <3>5, <3>6
  <2> QED BY <2>1, <2>2
<1> QED BY <1>1, <1>4, <1>8, <1>9, <1>10, <1>11, <1>12, <1>15

\* loadQueueFromDB: what waited in the table waits in memory.
LEMMA RestartStep ==
  ASSUME IInv, Restart
  PROVE  /\ IInv'
         /\ ~up /\ up'
         /\ \A m \in Msgs : Fate(m)' = Fate(m)
<1> USE DEF IInv, Restart, chosen, routerVars, connVars, sendVars, replayVars
<1>1. /\ ~up /\ up'
      /\ UNCHANGED <<maxLen, phase, hit, live, sent, written, replay, batch, rows, abandoned>>
  OBVIOUS
<1>2. /\ rows \in Seq(Msgs)
      /\ maxLen \in Nat \ {0}
  BY DEF TypeOK
<1>3. /\ queue' \in Seq(Msgs)
      /\ Len(queue') <= maxLen
      /\ Range(queue') \subseteq Range(rows)
      /\ queue' = Newest(rows, maxLen)
      /\ trimmed' = trimmed \cup (Range(rows) \ Range(queue'))
  BY <1>2, NewestFacts
<1>4. Range(rows) \subseteq Msgs
  BY <1>2 DEF Range
<1>5. TypeOK'
  <2>1. trimmed' \in SUBSET Msgs
    BY <1>3, <1>4 DEF TypeOK
  <2> QED BY <1>1, <1>2, <1>3, <2>1 DEF TypeOK
<1>6. ASSUME NEW m \in Msgs
      PROVE  /\ Sent(m)' = Sent(m)
             /\ Untouched(m) => Untouched(m)'
  BY <1>1, <1>3 DEF Sent, Untouched
<1>7. \A c \in Conns : batch[c] = <<>>
  BY <1>1 DEF DownInv, BatchInv
<1>8. ASSUME NEW m \in Msgs
      PROVE  /\ Waiting(m)' <=> Waiting(m)
             /\ ~Waiting(m) => (Dropped(m)' <=> Dropped(m))
             /\ m \in Range(rows) => Waiting(m)' \/ Dropped(m)'
  <2>1. \A c \in Conns : m \notin Range(batch'[c])
    BY <1>1, <1>7, RangeEmpty
  <2> QED BY <1>1, <1>3, <2>1 DEF Waiting, Dropped
<1>9. RoutedInv'
  BY <1>1, <1>6 DEF RoutedInv
<1>10. WriterInv' /\ BatchInv' /\ DownInv'
  BY <1>1 DEF WriterInv, BatchInv, DownInv
<1>11. AccountedInv'
  BY <1>1, <1>8 DEF AccountedInv, Accounted, DownInv
<1>12. ASSUME NEW m \in Msgs PROVE Fate(m)' = Fate(m)
  BY <1>1, <1>6, <1>8 DEF Fate
<1> QED BY <1>1, <1>5, <1>9, <1>10, <1>11, <1>12

LEMMA StutterStep ==
  ASSUME IInv, UNCHANGED vars
  PROVE  IInv' /\ FateStep
<1> USE DEF IInv, vars, chosen, routerVars, connVars, sendVars, replayVars, queueVars, crashVars
<1>1. UNCHANGED fateVars
  BY DEF fateVars
<1>2. RoutedInv' /\ AccountedInv' /\ FateStep
  BY <1>1, QuietStep
<1>3. TypeOK'
  BY DEF TypeOK
<1>4. WriterInv' /\ BatchInv' /\ DownInv'
  BY DEF WriterInv, BatchInv, DownInv
<1> QED BY <1>2, <1>3, <1>4

LEMMA EveryStep ==
  ASSUME IInv, [Next]_vars
  PROVE  IInv' /\ (FateStep \/ Crash \/ Restart)
<1>1. CASE UNCHANGED vars
  BY <1>1, StutterStep
<1>2. ASSUME NEW m \in Msgs, Reject(m) \/ StoreMessage(m) \/ Route(m)
      PROVE  IInv' /\ FateStep
  <2>1. CASE Reject(m) \/ StoreMessage(m) \/ Lookup(m) \/ AfterSends(m)
    BY <2>1, RouterStep
  <2>2. ASSUME NEW c \in Conns, SendToTarget(m, c)
        PROVE  IInv' /\ FateStep
    BY <2>2, SendToTargetStep
  <2>3. CASE EnqueueMessage(m)
    BY <2>3, EnqueueMessageStep
  <2>4. CASE PersistQueue(m)
    BY <2>4, PersistQueueStep
  <2> QED BY <1>2, <2>1, <2>2, <2>3, <2>4 DEF Route
<1>3. ASSUME NEW c \in Conns,
             Accept(c) \/ Register(c) \/ Unregister(c) \/ WriterSend(c) \/ Replay(c)
      PROVE  IInv' /\ FateStep
  <2>1. CASE Accept(c) \/ Register(c) \/ Unregister(c) \/ WriterSend(c) \/ ReplayEnd(c)
    BY <2>1, ConnectionStep
  <2>2. CASE ReplayDrain(c)
    BY <2>2, ReplayDrainStep
  <2>3. CASE DeleteQueueMessages(c)
    BY <2>3, DeleteQueueMessagesStep
  <2>4. CASE ReplaySend(c)
    BY <2>4, ReplaySendStep
  <2> QED BY <1>3, <2>1, <2>2, <2>3, <2>4 DEF Replay
<1>4. CASE Crash
  BY <1>4, CrashStep
<1>5. CASE Restart
  BY <1>5, RestartStep
<1> QED BY <1>1, <1>2, <1>3, <1>4, <1>5 DEF Next

-----------------------------------------------------------------------------

(* IInv holds in every state: a message the router has not queued yet is in *)
(* no queue, batch or row (routing.go:163-236), a replay that is not        *)
(* between its drain and its end holds nothing (queue.go:136-170), and a    *)
(* message with a row is accounted for while the process runs.              *)
THEOREM Invariance == Spec => []IInv
<1>1. Init => IInv
  BY InitIInv
<1>2. IInv /\ [Next]_vars => IInv'
  BY EveryStep
<1> QED BY <1>1, <1>2, PTL DEF Spec

(* Types of the delivery path, the queue within maxLen (queue.go:57-60).    *)
THEOREM TypesHold == Spec => []TypeOK
<1>1. IInv => TypeOK
  BY DEF IInv
<1> QED BY <1>1, Invariance, PTL

LEMMA FateTypes == \A m \in Msgs : Fate(m) \in Promise!Fates
  BY DEF Fate, Promise!Fates

LEMMA FateInit ==
  ASSUME Init PROVE Promise!Init
<1>1. \A m \in Msgs : Fate(m) = "new"
  BY DEF Init, Fate
<1> QED BY <1>1 DEF Init, Promise!Init

LEMMA FateNext ==
  ASSUME IInv, [Next]_vars
  PROVE  [Promise!Next]_(Promise!vars)
<1>1. FateStep \/ Crash \/ Restart
  BY EveryStep
<1>2. \A m \in Msgs : Fate(m)' \in Promise!Fates
  BY DEF Fate, Promise!Fates
<1>3. CASE FateStep /\ ~up
  BY <1>3 DEF FateStep, Promise!vars
<1>4. CASE FateStep /\ up
  <2>1. Promise!Proceed
    BY <1>2, <1>4 DEF FateStep, Promise!Proceed
  <2> QED BY <2>1 DEF Promise!Next
<1>5. CASE Crash
  <2>1. /\ up /\ ~up'
        /\ \A m \in Msgs : <<Fate(m), Fate(m)'>> \in Promise!CrashMoves
    BY <1>5, CrashStep
  <2>2. up' = FALSE
    BY <1>5 DEF Crash
  <2>3. Promise!Crash
    BY <1>2, <2>1, <2>2 DEF Promise!Crash
  <2> QED BY <2>3 DEF Promise!Next
<1>6. CASE Restart
  <2>1. ~up /\ up' /\ \A m \in Msgs : Fate(m)' = Fate(m)
    BY <1>6, RestartStep
  <2>2. up' = TRUE
    BY <1>6 DEF Restart
  <2>3. Promise!Restart
    BY <2>1, <2>2 DEF Promise!Restart
  <2> QED BY <2>3 DEF Promise!Next
<1> QED BY <1>1, <1>3, <1>4, <1>5, <1>6

(* Delivery implements MessageFate: in every interleaving of routers        *)
(* (routing.go:163-236), replays (queue.go:136-170), reconnects, crashes    *)
(* and restarts the fate of a message only moves as MessageFate allows.     *)
THEOREM KeepsPromiseHolds == Spec => KeepsPromise
<1>1. Init => Promise!Init
  BY FateInit
<1>2. IInv /\ [Next]_vars => [Promise!Next]_(Promise!vars)
  BY FateNext
<1> QED BY <1>1, <1>2, Invariance, PTL DEF Spec, KeepsPromise, Promise!Spec

-----------------------------------------------------------------------------
(* The order of replays.                                                    *)

\* What s has of l comes before what t has of it.
Precedes(l, s, t) ==
  \A i \in 1..Len(s), j \in 1..Len(t), a, b \in 1..Len(l) : s[i] = l[a] /\ t[j] = l[b] => a < b

Live(c) == live[c] \in {"accepted", "open"}

\* Nothing is queued or stored twice, and what is queued or held by a replay is in log.
LogInv ==
  /\ InOrderOf(log, log) /\ InOrderOf(rows, rows)
  /\ \A m \in Msgs :
       /\ phase[m] \in {"new", "rejected", "lookup", "sending", "enqueue"} => m \notin Range(log)
       /\ phase[m] = "persist" => m \notin Range(rows)
  /\ Range(queue) \subseteq Range(log)
  /\ \A c \in Conns : Range(batch[c]) \subseteq Range(log)

\* A connection is sent nothing before it is accepted, and nothing queued before its drain.
SentInv ==
  /\ ~up => \A c \in Conns : ~Live(c)
  /\ \A c \in Conns :
       /\ live[c] = "idle" => sent[c] = <<>>
       /\ Live(c) /\ replay[c] = "drain" => Range(sent[c]) \cap Range(log) = {}

OrderInv ==
  /\ InOrderOf(log, queue)
  /\ \A c \in Conns : InOrderOf(log, batch[c])
  /\ \A c \in Conns : Live(c) => InOrderOf(log, sent[c]) /\ Precedes(log, sent[c], batch[c])

ReplayInv == LogInv /\ SentInv /\ OrderInv

\* What Append(s, m) has at each index.
LEMMA AppendAt ==
  ASSUME NEW s \in Seq(Msgs), NEW m \in Msgs
  PROVE  /\ Append(s, m) \in Seq(Msgs)
         /\ Len(s) \in Nat
         /\ Len(Append(s, m)) = Len(s) + 1
         /\ \A i \in 1..Len(s) : Append(s, m)[i] = s[i]
         /\ Append(s, m)[Len(s) + 1] = m
  OBVIOUS

LEMMA InRange ==
  ASSUME NEW s \in Seq(Msgs)
  PROVE  /\ \A i \in 1..Len(s) : s[i] \in Range(s)
         /\ \A x \in Range(s) : \E i \in 1..Len(s) : s[i] = x
<1>1. DOMAIN s = 1..Len(s)
  OBVIOUS
<1> QED BY <1>1 DEF Range

\* A message that s has not is queued.
LEMMA OrderOfLonger ==
  ASSUME NEW l \in Seq(Msgs), NEW s \in Seq(Msgs), NEW m \in Msgs,
         InOrderOf(l, s), m \notin Range(s)
  PROVE  InOrderOf(Append(l, m), s)
<1>1. PICK u \in Seq(Msgs) : u = Append(l, m)
  BY AppendAt
<1>2. /\ Len(l) \in Nat
      /\ Len(u) = Len(l) + 1
      /\ \A i \in 1..Len(l) : u[i] = l[i]
      /\ u[Len(l) + 1] = m
  BY <1>1, AppendAt
<1>3. \A i \in 1..Len(s) : s[i] # m
  BY InRange
<1>4. ASSUME NEW i \in 1..Len(s), NEW a \in 1..Len(u), s[i] = u[a]
      PROVE  a \in 1..Len(l) /\ s[i] = l[a]
  BY <1>2, <1>3, <1>4
<1>5. InOrderOf(u, s)
  BY <1>4 DEF InOrderOf
<1> QED BY <1>1, <1>5

\* A message that was not queued is sent.
LEMMA OrderUnqueued ==
  ASSUME NEW l \in Seq(Msgs), NEW s \in Seq(Msgs), NEW m \in Msgs,
         InOrderOf(l, s), m \notin Range(l)
  PROVE  InOrderOf(l, Append(s, m))
<1>1. PICK u \in Seq(Msgs) : u = Append(s, m)
  BY AppendAt
<1>2. /\ Len(s) \in Nat
      /\ Len(u) = Len(s) + 1
      /\ \A i \in 1..Len(s) : u[i] = s[i]
      /\ u[Len(s) + 1] = m
  BY <1>1, AppendAt
<1>3. \A a \in 1..Len(l) : l[a] # m
  BY InRange
<1>4. ASSUME NEW i \in 1..Len(u), NEW a \in 1..Len(l), u[i] = l[a]
      PROVE  i \in 1..Len(s) /\ s[i] = l[a]
  BY <1>2, <1>3, <1>4
<1>5. InOrderOf(l, u)
  BY <1>4 DEF InOrderOf
<1> QED BY <1>1, <1>5

\* The last of s comes after everything else in it.
LEMMA OrderAppend ==
  ASSUME NEW l \in Seq(Msgs), NEW s \in Seq(Msgs), NEW m \in Msgs, InOrderOf(l, s),
         \A i \in 1..Len(s), a, b \in 1..Len(l) : s[i] = l[a] /\ m = l[b] => a < b
  PROVE  InOrderOf(l, Append(s, m))
<1>1. PICK u \in Seq(Msgs) : u = Append(s, m)
  BY AppendAt
<1>2. /\ Len(s) \in Nat
      /\ Len(u) = Len(s) + 1
      /\ \A i \in 1..Len(s) : u[i] = s[i]
      /\ u[Len(s) + 1] = m
  BY <1>1, AppendAt
<1>3. ASSUME NEW i \in 1..Len(u), NEW j \in 1..Len(u), NEW a \in 1..Len(l), NEW b \in 1..Len(l),
             i < j, u[i] = l[a], u[j] = l[b]
      PROVE  a < b
  <2>1. i \in 1..Len(s) /\ s[i] = l[a]
    BY <1>2, <1>3
  <2>2. CASE j = Len(s) + 1
    BY <1>2, <1>3, <2>1, <2>2
  <2>3. CASE j # Len(s) + 1
    <3>1. j \in 1..Len(s)
      BY <1>2, <2>3
    <3>2. s[j] = l[b]
      BY <1>2, <1>3, <3>1
    <3> QED BY <1>3, <2>1, <3>1, <3>2 DEF InOrderOf
  <2> QED BY <2>2, <2>3
<1>4. InOrderOf(l, u)
  BY <1>3 DEF InOrderOf
<1> QED BY <1>1, <1>4

\* Enqueue: the new message is the last of the log and of the queue.
LEMMA OrderQueued ==
  ASSUME NEW l \in Seq(Msgs), NEW s \in Seq(Msgs), NEW m \in Msgs,
         InOrderOf(l, s), m \notin Range(l), m \notin Range(s)
  PROVE  InOrderOf(Append(l, m), Append(s, m))
<1>1. PICK u \in Seq(Msgs) : u = Append(l, m)
  BY AppendAt
<1>2. /\ Len(l) \in Nat
      /\ Len(u) = Len(l) + 1
      /\ \A i \in 1..Len(l) : u[i] = l[i]
      /\ u[Len(l) + 1] = m
  BY <1>1, AppendAt
<1>3. InOrderOf(u, s)
  BY <1>1, OrderOfLonger
<1>4. \A i \in 1..Len(s) : s[i] # m
  BY InRange
<1>5. \A a \in 1..Len(l) : l[a] # m
  BY InRange
<1>6. ASSUME NEW i \in 1..Len(s), NEW a \in 1..Len(u), NEW b \in 1..Len(u), s[i] = u[a], m = u[b]
      PROVE  a < b
  <2>1. a \in 1..Len(l)
    BY <1>2, <1>4, <1>6
  <2>2. b = Len(l) + 1
    BY <1>2, <1>5, <1>6
  <2> QED BY <1>2, <2>1, <2>2
<1>7. InOrderOf(u, Append(s, m))
  BY <1>3, <1>6, OrderAppend
<1> QED BY <1>1, <1>7

\* A final part of a sequence keeps its order.
LEMMA OrderOfPart ==
  ASSUME NEW l \in Seq(Msgs), NEW s \in Seq(Msgs), NEW t \in Seq(Msgs), NEW k \in Nat,
         InOrderOf(l, s), \A i \in 1..Len(t) : i + k \in 1..Len(s) /\ t[i] = s[i + k]
  PROVE  InOrderOf(l, t)
<1>1. ASSUME NEW i \in 1..Len(t), NEW j \in 1..Len(t), NEW a \in 1..Len(l), NEW b \in 1..Len(l),
             i < j, t[i] = l[a], t[j] = l[b]
      PROVE  a < b
  <2>1. /\ i + k \in 1..Len(s) /\ s[i + k] = l[a]
        /\ j + k \in 1..Len(s) /\ s[j + k] = l[b]
    BY <1>1
  <2>2. i + k < j + k
    BY <1>1
  <2> QED BY <2>1, <2>2 DEF InOrderOf
<1> QED BY <1>1 DEF InOrderOf

LEMMA OrderNewest ==
  ASSUME NEW l \in Seq(Msgs), NEW s \in Seq(Msgs), NEW n \in Nat \ {0}, InOrderOf(l, s)
  PROVE  InOrderOf(l, Newest(s, n))
<1>1. CASE Len(s) > n
  <2>1. Newest(s, n) = SubSeq(s, Len(s) - n + 1, Len(s))
    BY <1>1 DEF Newest
  <2>2. PICK t \in Seq(Msgs) : t = Newest(s, n)
    BY NewestFacts
  <2>3. PICK k \in Nat : k = Len(s) - n
    BY <1>1
  <2>4. Len(t) = n /\ \A i \in 1..n : t[i] = s[Len(s) - n + i]
    BY <1>1, <2>1, <2>2
  <2>5. \A i \in 1..Len(t) : i + k \in 1..Len(s) /\ t[i] = s[i + k]
    BY <1>1, <2>3, <2>4
  <2>6. InOrderOf(l, t)
    BY <2>5, OrderOfPart
  <2> QED BY <2>2, <2>6
<1>2. CASE ~(Len(s) > n)
  BY <1>2 DEF Newest
<1> QED BY <1>1, <1>2

\* What HeadTail says by index.
LEMMA TailAt ==
  ASSUME NEW s \in Seq(Msgs), s # <<>>
  PROVE  /\ Tail(s) \in Seq(Msgs)
         /\ Len(s) \in Nat \ {0}
         /\ Len(Tail(s)) = Len(s) - 1
         /\ \A i \in 1..Len(s)-1 : Tail(s)[i] = s[i + 1]
         /\ Head(s) = s[1]
         /\ Head(s) \in Msgs
  OBVIOUS

LEMMA OrderTail ==
  ASSUME NEW l \in Seq(Msgs), NEW s \in Seq(Msgs), s # <<>>, InOrderOf(l, s)
  PROVE  InOrderOf(l, Tail(s))
<1>1. PICK t \in Seq(Msgs) : t = Tail(s)
  BY TailAt
<1>2. \A i \in 1..Len(t) : i + 1 \in 1..Len(s) /\ t[i] = s[i + 1]
  BY <1>1, TailAt
<1>3. InOrderOf(l, t)
  BY <1>2, OrderOfPart
<1> QED BY <1>1, <1>3

\* Nothing is replayed twice.
LEMMA HeadOnce ==
  ASSUME NEW l \in Seq(Msgs), NEW s \in Seq(Msgs), s # <<>>, InOrderOf(l, s),
         Range(s) \subseteq Range(l)
  PROVE  Head(s) \notin Range(Tail(s))
<1> SUFFICES ASSUME Head(s) \in Range(Tail(s)) PROVE FALSE
  OBVIOUS
<1>1. PICK t \in Seq(Msgs) : t = Tail(s)
  BY TailAt
<1>2. PICK i \in 1..Len(t) : t[i] = Head(s)
  BY <1>1, InRange
<1>3. i + 1 \in 1..Len(s) /\ s[i + 1] = s[1] /\ 1 \in 1..Len(s) /\ 1 < i + 1
  BY <1>1, <1>2, TailAt
<1>4. PICK a \in 1..Len(l) : l[a] = s[1]
  BY <1>3, InRange
<1>5. a < a
  BY <1>3, <1>4 DEF InOrderOf
<1> QED BY <1>5

\* A message that neither has is queued.
LEMMA PrecedesLonger ==
  ASSUME NEW l \in Seq(Msgs), NEW s \in Seq(Msgs), NEW t \in Seq(Msgs), NEW m \in Msgs,
         Precedes(l, s, t), m \notin Range(s), m \notin Range(t)
  PROVE  Precedes(Append(l, m), s, t)
<1>1. PICK u \in Seq(Msgs) : u = Append(l, m)
  BY AppendAt
<1>2. /\ Len(l) \in Nat
      /\ Len(u) = Len(l) + 1
      /\ \A i \in 1..Len(l) : u[i] = l[i]
      /\ u[Len(l) + 1] = m
  BY <1>1, AppendAt
<1>3. (\A i \in 1..Len(s) : s[i] # m) /\ (\A i \in 1..Len(t) : t[i] # m)
  BY InRange
<1>4. ASSUME NEW i \in 1..Len(s), NEW a \in 1..Len(u), s[i] = u[a]
      PROVE  a \in 1..Len(l) /\ s[i] = l[a]
  BY <1>2, <1>3, <1>4
<1>5. ASSUME NEW i \in 1..Len(t), NEW a \in 1..Len(u), t[i] = u[a]
      PROVE  a \in 1..Len(l) /\ t[i] = l[a]
  BY <1>2, <1>3, <1>5
<1>6. Precedes(u, s, t)
  BY <1>4, <1>5 DEF Precedes
<1> QED BY <1>1, <1>6

LEMMA PrecedesUnqueued ==
  ASSUME NEW l \in Seq(Msgs), NEW s \in Seq(Msgs), NEW t \in Seq(Msgs), NEW m \in Msgs,
         Precedes(l, s, t), m \notin Range(l)
  PROVE  Precedes(l, Append(s, m), t)
<1>1. PICK u \in Seq(Msgs) : u = Append(s, m)
  BY AppendAt
<1>2. /\ Len(s) \in Nat
      /\ Len(u) = Len(s) + 1
      /\ \A i \in 1..Len(s) : u[i] = s[i]
      /\ u[Len(s) + 1] = m
  BY <1>1, AppendAt
<1>3. \A a \in 1..Len(l) : l[a] # m
  BY InRange
<1>4. ASSUME NEW i \in 1..Len(u), NEW a \in 1..Len(l), u[i] = l[a]
      PROVE  i \in 1..Len(s) /\ s[i] = l[a]
  BY <1>2, <1>3, <1>4
<1>5. Precedes(l, u, t)
  BY <1>4 DEF Precedes
<1> QED BY <1>1, <1>5

\* A replay sends the first of its batch.
LEMMA PrecedesSend ==
  ASSUME NEW l \in Seq(Msgs), NEW s \in Seq(Msgs), NEW t \in Seq(Msgs), t # <<>>,
         InOrderOf(l, s), InOrderOf(l, t), Precedes(l, s, t)
  PROVE  /\ InOrderOf(l, Append(s, Head(t)))
         /\ Precedes(l, Append(s, Head(t)), Tail(t))
<1>1. PICK m \in Msgs : m = Head(t)
  BY TailAt
<1>2. PICK v \in Seq(Msgs) : v = Tail(t)
  BY TailAt
<1>3. PICK u \in Seq(Msgs) : u = Append(s, m)
  BY AppendAt
<1>4. /\ Len(s) \in Nat
      /\ Len(u) = Len(s) + 1
      /\ \A i \in 1..Len(s) : u[i] = s[i]
      /\ u[Len(s) + 1] = m
  BY <1>3, AppendAt
<1>5. 1 \in 1..Len(t) /\ t[1] = m
      /\ \A j \in 1..Len(v) : j + 1 \in 1..Len(t) /\ v[j] = t[j + 1] /\ 1 < j + 1
  BY <1>1, <1>2, TailAt
<1>6. InOrderOf(l, u)
  <2>1. \A i \in 1..Len(s), a, b \in 1..Len(l) : s[i] = l[a] /\ m = l[b] => a < b
    BY <1>5 DEF Precedes
  <2> QED BY <1>3, <2>1, OrderAppend
<1>7. ASSUME NEW i \in 1..Len(u), NEW j \in 1..Len(v), NEW a \in 1..Len(l), NEW b \in 1..Len(l),
             u[i] = l[a], v[j] = l[b]
      PROVE  a < b
  <2>1. j + 1 \in 1..Len(t) /\ t[j + 1] = l[b] /\ 1 < j + 1
    BY <1>5, <1>7
  <2>2. CASE i = Len(s) + 1
    <3>1. t[1] = l[a]
      BY <1>4, <1>5, <1>7, <2>2
    <3> QED BY <1>5, <2>1, <3>1 DEF InOrderOf
  <2>3. CASE i # Len(s) + 1
    <3>1. i \in 1..Len(s) /\ s[i] = l[a]
      BY <1>4, <1>7, <2>3
    <3> QED BY <2>1, <3>1 DEF Precedes
  <2> QED BY <2>2, <2>3
<1>8. Precedes(l, u, v)
  BY <1>7 DEF Precedes
<1> QED BY <1>1, <1>2, <1>3, <1>6, <1>8

LEMMA NothingPrecedes ==
  ASSUME NEW l \in Seq(Msgs), NEW s \in Seq(Msgs), NEW t \in Seq(Msgs),
         Range(s) \cap Range(l) = {}
  PROVE  InOrderOf(l, s) /\ Precedes(l, s, t)
<1>1. \A i \in 1..Len(s), a \in 1..Len(l) : s[i] # l[a]
  BY InRange
<1> QED BY <1>1 DEF InOrderOf, Precedes

LEMMA OrderOfEmpty ==
  ASSUME NEW l \in Seq(Msgs), NEW s \in Seq(Msgs)
  PROVE  InOrderOf(l, <<>>) /\ InOrderOf(<<>>, s) /\ Precedes(l, s, <<>>)
<1>1. Len(<<>>) = 0
  OBVIOUS
<1> QED BY <1>1 DEF InOrderOf, Precedes

\* What was sent and what the replay still holds, as one sequence.
LEMMA OrderOfBoth ==
  ASSUME NEW l \in Seq(Msgs), NEW s \in Seq(Msgs), NEW t \in Seq(Msgs),
         InOrderOf(l, s), InOrderOf(l, t), Precedes(l, s, t)
  PROVE  InOrderOf(l, s \o t)
<1>0. s \o t \in Seq(Msgs)
  OBVIOUS
<1>1. PICK u \in Seq(Msgs) : u = s \o t
  BY <1>0
<1>2. /\ Len(u) = Len(s) + Len(t)
      /\ \A i \in 1..Len(s) : u[i] = s[i]
      /\ \A i \in 1..Len(u) : i > Len(s) => u[i] = t[i - Len(s)]
      /\ Len(s) \in Nat /\ Len(t) \in Nat
  BY <1>1
<1>3. ASSUME NEW i \in 1..Len(u), NEW j \in 1..Len(u), NEW a \in 1..Len(l), NEW b \in 1..Len(l),
             i < j, u[i] = l[a], u[j] = l[b]
      PROVE  a < b
  <2>1. CASE j <= Len(s)
    <3>1. i \in 1..Len(s) /\ j \in 1..Len(s)
      BY <1>2, <1>3, <2>1
    <3>2. s[i] = l[a] /\ s[j] = l[b]
      BY <1>2, <1>3, <3>1
    <3> QED BY <1>3, <3>1, <3>2 DEF InOrderOf
  <2>2. CASE i <= Len(s) /\ j > Len(s)
    <3>1. i \in 1..Len(s) /\ j - Len(s) \in 1..Len(t)
      BY <1>2, <2>2
    <3>2. u[i] = s[i] /\ u[j] = t[j - Len(s)]
      BY <1>2, <2>2, <3>1
    <3> QED BY <1>3, <3>1, <3>2 DEF Precedes
  <2>3. CASE i > Len(s)
    <3>1. i - Len(s) \in 1..Len(t) /\ j - Len(s) \in 1..Len(t) /\ i - Len(s) < j - Len(s)
      BY <1>2, <1>3, <2>3
    <3>2. u[i] = t[i - Len(s)]
      BY <1>2, <2>3
    <3>3. j > Len(s)
      BY <1>2, <1>3, <2>3
    <3>4. u[j] = t[j - Len(s)]
      BY <1>2, <3>3
    <3> QED BY <1>3, <3>1, <3>2, <3>4 DEF InOrderOf
  <2> QED BY <1>2, <1>3, <2>1, <2>2, <2>3
<1>4. InOrderOf(l, u)
  BY <1>3 DEF InOrderOf
<1> QED BY <1>1, <1>4

-----------------------------------------------------------------------------

LEMMA InitReplayInv == Init => ReplayInv
<1> SUFFICES ASSUME Init PROVE ReplayInv
  OBVIOUS
<1>1. /\ log = <<>> /\ rows = <<>> /\ queue = <<>> /\ up = TRUE
      /\ \A c \in Conns : sent[c] = <<>> /\ batch[c] = <<>>
  BY DEF Init
<1>2. <<>> \in Seq(Msgs)
  OBVIOUS
<1>3. InOrderOf(<<>>, <<>>) /\ Precedes(<<>>, <<>>, <<>>)
  BY <1>2, OrderOfEmpty
<1>4. LogInv
  BY <1>1, <1>3, RangeEmpty DEF LogInv
<1>5. SentInv
  BY <1>1, RangeEmpty DEF SentInv
<1>6. OrderInv
  BY <1>1, <1>3 DEF OrderInv
<1> QED BY <1>4, <1>5, <1>6 DEF ReplayInv

Unqueued == {"new", "rejected", "lookup", "sending", "enqueue"}

\* Steps that only connect, disconnect, or move a router or a replay on.
LEMMA QuietReplay ==
  ASSUME IInv, ReplayInv, UNCHANGED <<log, queue, batch, sent, up>>,
         \A m \in Msgs : phase'[m] \in Unqueued => phase[m] \in Unqueued,
         InOrderOf(rows', rows'),
         \A m \in Msgs : phase'[m] = "persist" => m \notin Range(rows'),
         \A c \in Conns :
           /\ Live(c)' => up /\ (Live(c) \/ live[c] = "idle")
           /\ live'[c] = "idle" => live[c] = "idle"
           /\ replay'[c] = "drain" => replay[c] = "drain" \/ live[c] = "idle"
  PROVE  ReplayInv'
<1> USE DEF IInv, ReplayInv
<1>1. log \in Seq(Msgs)
  BY DEF TypeOK
<1>2. LogInv'
  BY DEF LogInv, Unqueued
<1>3. \A c \in Conns : live[c] = "idle" => sent[c] = <<>> /\ batch[c] = <<>>
  BY DEF SentInv, BatchInv
<1>4. SentInv'
  <2>1. ~up' => \A c \in Conns : ~Live(c)'
    OBVIOUS
  <2>2. \A c \in Conns : live'[c] = "idle" => sent'[c] = <<>>
    BY DEF SentInv
  <2>3. ASSUME NEW c \in Conns, Live(c)', replay'[c] = "drain"
        PROVE  Range(sent'[c]) \cap Range(log') = {}
    <3>1. CASE live[c] = "idle"
      BY <1>3, <3>1, RangeEmpty
    <3>2. CASE live[c] # "idle"
      BY <2>3, <3>2 DEF SentInv
    <3> QED BY <3>1, <3>2
  <2> QED BY <2>1, <2>2, <2>3 DEF SentInv
<1>5. OrderInv'
  <2>1. InOrderOf(log', queue') /\ \A c \in Conns : InOrderOf(log', batch'[c])
    BY DEF OrderInv
  <2>2. ASSUME NEW c \in Conns, Live(c)'
        PROVE  InOrderOf(log', sent'[c]) /\ Precedes(log', sent'[c], batch'[c])
    <3>1. CASE live[c] = "idle"
      <4>1. <<>> \in Seq(Msgs)
        OBVIOUS
      <4>2. InOrderOf(log, <<>>) /\ Precedes(log, <<>>, <<>>)
        BY <1>1, <4>1, OrderOfEmpty
      <4> QED BY <1>3, <3>1, <4>2
    <3>2. CASE live[c] # "idle"
      BY <2>2, <3>2 DEF OrderInv
    <3> QED BY <3>1, <3>2
  <2> QED BY <2>1, <2>2 DEF OrderInv
<1> QED BY <1>2, <1>4, <1>5

LEMMA ConnectionReplay ==
  ASSUME IInv, ReplayInv, NEW c \in Conns,
         Accept(c) \/ Register(c) \/ Unregister(c) \/ WriterSend(c) \/ ReplayEnd(c)
  PROVE  ReplayInv'
<1> USE DEF IInv, ReplayInv, chosen, routerVars, connVars, sendVars, replayVars, queueVars, crashVars
<1>1. UNCHANGED <<log, queue, batch, sent, up, phase, rows>>
  BY DEF Accept, Register, Unregister, WriterSend, ReplayEnd
<1>2. /\ InOrderOf(rows', rows')
      /\ \A m \in Msgs : phase'[m] = "persist" => m \notin Range(rows')
  BY <1>1 DEF LogInv
<1>3. ASSUME NEW d \in Conns
      PROVE  /\ Live(d)' => up /\ (Live(d) \/ live[d] = "idle")
             /\ live'[d] = "idle" => live[d] = "idle"
             /\ replay'[d] = "drain" => replay[d] = "drain" \/ live[d] = "idle"
  <2>0. Live(d) => up
    BY DEF SentInv, TypeOK
  <2>1. CASE Accept(c)
    BY <2>0, <2>1 DEF Accept, TypeOK, Live
  <2>2. CASE Register(c)
    <3>1. live[c] = "accepted" /\ up
      BY <2>2 DEF Register, SentInv, Live, TypeOK
    <3> QED BY <2>0, <2>2, <3>1 DEF Register, TypeOK, Live
  <2>3. CASE Unregister(c)
    BY <2>0, <2>3 DEF Unregister, TypeOK, Live
  <2>4. CASE WriterSend(c)
    BY <2>0, <2>4 DEF WriterSend, Live
  <2>5. CASE ReplayEnd(c)
    BY <2>0, <2>5 DEF ReplayEnd, TypeOK, Live
  <2> QED BY <2>1, <2>2, <2>3, <2>4, <2>5
<1>4. \A m \in Msgs : phase'[m] \in Unqueued => phase[m] \in Unqueued
  BY <1>1
<1> QED BY <1>1, <1>2, <1>3, <1>4, QuietReplay

\* A router that does not send or queue, and the rows of the queue.
LEMMA RouterReplay ==
  ASSUME IInv, ReplayInv, NEW m \in Msgs,
         Reject(m) \/ StoreMessage(m) \/ Lookup(m) \/ AfterSends(m) \/ PersistQueue(m)
  PROVE  ReplayInv'
<1> USE DEF IInv, ReplayInv, Goto, chosen, connVars, sendVars, replayVars, queueVars, crashVars
<1>1. UNCHANGED <<log, queue, batch, sent, up, live, replay>>
  BY DEF Reject, StoreMessage, Lookup, AfterSends, PersistQueue
<1>2. \A x \in Msgs : x # m => phase'[x] = phase[x]
  BY DEF TypeOK, Reject, StoreMessage, Lookup, AfterSends, PersistQueue
<1>3. (phase'[m] \in Unqueued => phase[m] \in Unqueued) /\ phase'[m] # "persist"
  BY DEF TypeOK, Reject, StoreMessage, Lookup, AfterSends, PersistQueue, Unqueued
<1>4. \A c \in Conns : Live(c)' <=> Live(c)
  BY <1>1 DEF Live
<1>5. \A c \in Conns : Live(c) => up
  BY DEF SentInv, TypeOK
<1>6. CASE rows' = rows
  <2>1. /\ InOrderOf(rows', rows')
        /\ \A x \in Msgs : phase'[x] = "persist" => x \notin Range(rows')
    BY <1>2, <1>3, <1>6 DEF LogInv
  <2> QED BY <1>1, <1>2, <1>3, <1>4, <1>5, <2>1, QuietReplay
<1>7. CASE rows' # rows
  <2>1. phase[m] = "persist" /\ rows' = Append(rows, m)
    BY <1>7 DEF Reject, StoreMessage, Lookup, AfterSends, PersistQueue
  <2>2. rows \in Seq(Msgs) /\ m \notin Range(rows) /\ InOrderOf(rows, rows)
    BY <2>1 DEF TypeOK, LogInv
  <2>3. InOrderOf(rows', rows')
    BY <2>1, <2>2, OrderQueued
  <2>4. Range(rows') = Range(rows) \cup {m}
    BY <2>1, <2>2, RangeAppend
  <2>5. \A x \in Msgs : phase'[x] = "persist" => x \notin Range(rows')
    BY <1>2, <1>3, <2>4 DEF LogInv
  <2> QED BY <1>1, <1>2, <1>3, <1>4, <1>5, <2>3, <2>5, QuietReplay
<1> QED BY <1>6, <1>7

LEMMA DeleteReplay ==
  ASSUME IInv, ReplayInv, NEW c \in Conns, DeleteQueueMessages(c)
  PROVE  ReplayInv'
<1> USE DEF IInv, ReplayInv, DeleteQueueMessages, chosen, routerVars, connVars, sendVars, queueVars,
            crashVars
<1>1. UNCHANGED <<log, queue, batch, sent, up, live, phase>>
  OBVIOUS
<1>2. \A d \in Conns : replay'[d] = "drain" => replay[d] = "drain"
  BY DEF TypeOK
<1>3. \A d \in Conns : (Live(d)' <=> Live(d)) /\ (Live(d) => up)
  BY <1>1 DEF Live, SentInv, TypeOK
<1>4. /\ InOrderOf(rows', rows')
      /\ \A m \in Msgs : phase'[m] = "persist" => m \notin Range(rows')
  <2>1. CASE rows' = <<>>
    <3>1. <<>> \in Seq(Msgs)
      OBVIOUS
    <3>2. InOrderOf(<<>>, <<>>)
      BY <3>1, OrderOfEmpty
    <3> QED BY <2>1, <3>2, RangeEmpty
  <2>2. CASE rows' = rows
    BY <1>1, <2>2 DEF LogInv
  <2> QED BY <2>1, <2>2
<1> QED BY <1>1, <1>2, <1>3, <1>4, QuietReplay

\* A router sends a message that is in no queue.
LEMMA SendToTargetReplay ==
  ASSUME IInv, ReplayInv, NEW m \in Msgs, NEW c \in Conns, SendToTarget(m, c)
  PROVE  ReplayInv'
<1> USE DEF IInv, ReplayInv, SendToTarget, Put, chosen, connVars, replayVars, queueVars, crashVars
<1>1. UNCHANGED <<log, queue, batch, up, live, replay, phase, rows>>
  OBVIOUS
<1>2. \A d \in Conns : Live(d)' <=> Live(d)
  BY <1>1 DEF Live
<1>3. LogInv'
  BY <1>1 DEF LogInv
<1>4. CASE ~SafeSendOK(c)
  <2>1. sent' = sent
    BY <1>4
  <2>2. SentInv' /\ OrderInv'
    BY <1>1, <1>2, <2>1 DEF SentInv, OrderInv
  <2> QED BY <1>3, <2>2
<1>5. CASE SafeSendOK(c)
  <2>1. /\ sent[c] \in Seq(Msgs) /\ log \in Seq(Msgs) /\ batch[c] \in Seq(Msgs)
        /\ sent'[c] = Append(sent[c], m)
        /\ \A d \in Conns : d # c => sent'[d] = sent[d]
    BY <1>5 DEF TypeOK
  <2>2. m \notin Range(log)
    BY DEF LogInv
  <2>3. Range(sent'[c]) = Range(sent[c]) \cup {m}
    BY <2>1, RangeAppend
  <2>4. live[c] # "idle"
    BY <1>5 DEF SafeSendOK
  <2>5. SentInv'
    <3>1. \A d \in Conns : live'[d] = "idle" => sent'[d] = <<>>
      BY <1>1, <2>1, <2>4 DEF SentInv
    <3>2. ASSUME NEW d \in Conns, Live(d), replay[d] = "drain"
          PROVE  Range(sent'[d]) \cap Range(log) = {}
      <4>1. Range(sent[d]) \cap Range(log) = {}
        BY <3>2 DEF SentInv
      <4>2. CASE d = c
        BY <2>2, <2>3, <4>1, <4>2
      <4>3. CASE d # c
        BY <2>1, <4>1, <4>3
      <4> QED BY <4>2, <4>3
    <3> QED BY <1>1, <1>2, <3>1, <3>2 DEF SentInv
  <2>6. Live(c) => InOrderOf(log, sent'[c]) /\ Precedes(log, sent'[c], batch[c])
    BY <2>1, <2>2, OrderUnqueued, PrecedesUnqueued DEF OrderInv
  <2>7. OrderInv'
    BY <1>1, <1>2, <2>1, <2>6 DEF OrderInv
  <2> QED BY <1>3, <2>5, <2>7
<1> QED BY <1>4, <1>5

\* Enqueue: the message has been neither sent nor queued before.
LEMMA EnqueueReplay ==
  ASSUME IInv, ReplayInv, NEW m \in Msgs, EnqueueMessage(m)
  PROVE  ReplayInv'
<1> USE DEF IInv, ReplayInv, EnqueueMessage, Enqueue, Goto, chosen, connVars, sendVars, replayVars,
            crashVars
<1>1. /\ UNCHANGED <<batch, sent, up, live, replay, rows>>
      /\ log' = Append(log, m)
      /\ queue' = Newest(Append(queue, m), maxLen)
  OBVIOUS
<1>2. \A d \in Conns : Live(d)' <=> Live(d)
  BY <1>1 DEF Live
<1>3. /\ log \in Seq(Msgs) /\ queue \in Seq(Msgs) /\ maxLen \in Nat \ {0}
      /\ \A c \in Conns : sent[c] \in Seq(Msgs) /\ batch[c] \in Seq(Msgs)
  BY DEF TypeOK
<1>4. /\ m \notin Range(log) /\ m \notin Range(queue) /\ m \notin Range(rows)
      /\ \A c \in Conns : m \notin Range(sent[c]) /\ m \notin Range(batch[c])
  BY DEF LogInv, RoutedInv, Untouched, Sent
<1>5. log' \in Seq(Msgs) /\ Range(log') = Range(log) \cup {m}
  BY <1>1, <1>3, RangeAppend
<1>6. Range(queue') \subseteq Range(queue) \cup {m}
  BY <1>1, <1>3, NewestAppend
<1>7. phase'[m] = "persist" /\ \A x \in Msgs : x # m => phase'[x] = phase[x]
  BY DEF TypeOK
<1>8. LogInv'
  <2>1. InOrderOf(log', log')
    BY <1>1, <1>3, <1>4, OrderQueued DEF LogInv
  <2>2. \A x \in Msgs :
          /\ phase'[x] \in {"new", "rejected", "lookup", "sending", "enqueue"} => x \notin Range(log')
          /\ phase'[x] = "persist" => x \notin Range(rows')
    BY <1>1, <1>4, <1>5, <1>7 DEF LogInv
  <2>3. Range(queue') \subseteq Range(log') /\ \A c \in Conns : Range(batch'[c]) \subseteq Range(log')
    BY <1>1, <1>5, <1>6 DEF LogInv
  <2> QED BY <1>1, <2>1, <2>2, <2>3 DEF LogInv
<1>9. SentInv'
  BY <1>1, <1>2, <1>4, <1>5 DEF SentInv
<1>10. OrderInv'
  <2>1. PICK q \in Seq(Msgs) : q = Append(queue, m)
    BY <1>3, RangeAppend
  <2>2. InOrderOf(log', q)
    BY <1>1, <1>3, <1>4, <2>1, OrderQueued DEF OrderInv
  <2>3. InOrderOf(log', queue')
    BY <1>1, <1>3, <1>5, <2>1, <2>2, OrderNewest
  <2>4. ASSUME NEW c \in Conns
        PROVE  InOrderOf(log', batch'[c])
    BY <1>1, <1>3, <1>4, OrderOfLonger DEF OrderInv
  <2>5. ASSUME NEW c \in Conns, Live(c)
        PROVE  InOrderOf(log', sent'[c]) /\ Precedes(log', sent'[c], batch'[c])
    BY <1>1, <1>3, <1>4, <2>5, OrderOfLonger, PrecedesLonger DEF OrderInv
  <2> QED BY <1>2, <2>3, <2>4, <2>5 DEF OrderInv
<1> QED BY <1>8, <1>9, <1>10

\* A replay takes the queue: the connection has been sent nothing of it.
LEMMA DrainReplay ==
  ASSUME IInv, ReplayInv, NEW c \in Conns, ReplayDrain(c)
  PROVE  ReplayInv'
<1> USE DEF IInv, ReplayInv, ReplayDrain, Drain, chosen, routerVars, connVars, sendVars, crashVars
<1>1. UNCHANGED <<log, sent, up, live, phase, rows>> /\ queue' = <<>>
  OBVIOUS
<1>2. \A d \in Conns : Live(d)' <=> Live(d)
  BY <1>1 DEF Live
<1>3. /\ batch'[c] = queue /\ \A d \in Conns : d # c => batch'[d] = batch[d]
      /\ replay'[c] # "drain" /\ \A d \in Conns : d # c => replay'[d] = replay[d]
  BY DEF TypeOK
<1>4. log \in Seq(Msgs) /\ queue \in Seq(Msgs) /\ sent[c] \in Seq(Msgs)
  BY DEF TypeOK
<1>5. LogInv'
  BY <1>1, <1>3, RangeEmpty DEF LogInv
<1>6. SentInv'
  BY <1>1, <1>2, <1>3 DEF SentInv
<1>7. OrderInv'
  <2>1. InOrderOf(log', queue')
    BY <1>1, <1>4, OrderOfEmpty
  <2>2. Live(c) => InOrderOf(log, sent[c]) /\ Precedes(log, sent[c], queue)
    BY <1>4, NothingPrecedes DEF SentInv
  <2> QED BY <1>1, <1>2, <1>3, <2>1, <2>2 DEF OrderInv
<1> QED BY <1>5, <1>6, <1>7

\* A replay sends the first of its batch, or gives up.
LEMMA SendReplay ==
  ASSUME IInv, ReplayInv, NEW c \in Conns, ReplaySend(c)
  PROVE  ReplayInv'
<1> USE DEF IInv, ReplayInv, ReplaySend, Put, chosen, routerVars, connVars, queueVars, crashVars
<1>1. UNCHANGED <<log, queue, up, live, phase, rows>>
  OBVIOUS
<1>2. \A d \in Conns : Live(d)' <=> Live(d)
  BY <1>1 DEF Live
<1>3. log \in Seq(Msgs) /\ batch[c] \in Seq(Msgs) /\ batch[c] # <<>> /\ sent[c] \in Seq(Msgs)
  BY DEF TypeOK
<1>4. live[c] # "idle" /\ replay[c] = "sending"
  BY DEF BatchInv
<1>5. CASE SafeSendOK(c)
  <2>1. /\ sent'[c] = Append(sent[c], Head(batch[c]))
        /\ \A d \in Conns : d # c => sent'[d] = sent[d]
    BY <1>5 DEF TypeOK
  <2>2. /\ batch'[c] = Tail(batch[c])
        /\ \A d \in Conns : d # c => batch'[d] = batch[d]
        /\ replay' = replay
    BY <1>5 DEF TypeOK
  <2>3. Range(batch'[c]) \subseteq Range(batch[c])
    BY <1>3, <2>2, RangeHeadTail
  <2>4. LogInv'
    BY <1>1, <2>2, <2>3 DEF LogInv
  <2>5. SentInv'
    BY <1>1, <1>2, <1>4, <2>1, <2>2 DEF SentInv
  <2>6. InOrderOf(log, batch'[c])
    BY <1>3, <2>2, OrderTail DEF OrderInv
  <2>7. Live(c) => InOrderOf(log, sent'[c]) /\ Precedes(log, sent'[c], batch'[c])
    BY <1>3, <2>1, <2>2, PrecedesSend DEF OrderInv
  <2>8. OrderInv'
    BY <1>1, <1>2, <2>1, <2>2, <2>6, <2>7 DEF OrderInv
  <2> QED BY <2>4, <2>5, <2>8
<1>6. CASE ~SafeSendOK(c)
  <2>1. /\ batch'[c] = <<>>
        /\ \A d \in Conns : d # c => batch'[d] = batch[d]
    BY <1>6 DEF TypeOK
  <2>2. replay'[c] = "done" /\ (\A d \in Conns : d # c => replay'[d] = replay[d]) /\ sent' = sent
    BY <1>6 DEF TypeOK
  <2>3. LogInv'
    BY <1>1, <2>1, RangeEmpty DEF LogInv
  <2>4. SentInv'
    BY <1>1, <1>2, <2>2 DEF SentInv
  <2>5. InOrderOf(log, batch'[c]) /\ Precedes(log, sent[c], batch'[c])
    BY <1>3, <2>1, OrderOfEmpty
  <2>6. OrderInv'
    BY <1>1, <1>2, <2>1, <2>2, <2>5 DEF OrderInv
  <2> QED BY <2>3, <2>4, <2>6
<1> QED BY <1>5, <1>6

\* A crash empties the queue and the batches; a restart begins with the rows.
LEMMA CrashRestartReplay ==
  ASSUME IInv, ReplayInv, Crash \/ Restart
  PROVE  ReplayInv'
<1> USE DEF IInv, ReplayInv, chosen
<1>0. <<>> \in Seq(Msgs)
  OBVIOUS
<1>1. CASE Crash
  <2> USE <1>1 DEF Crash
  <2>1. /\ log' = <<>> /\ queue' = <<>> /\ rows' = rows
        /\ \A c \in Conns : batch'[c] = <<>> /\ live'[c] \in {"idle", "closed"}
        /\ \A c \in Conns : live'[c] = "idle" => live[c] = "idle"
        /\ \A c \in Conns : sent'[c] = SubSeq(sent[c], 1, written[c])
        /\ \A m \in Msgs : phase'[m] # "persist"
    OBVIOUS
  <2>2. LogInv'
    BY <1>0, <2>1, RangeEmpty, OrderOfEmpty DEF LogInv
  <2>3. ASSUME NEW c \in Conns, live'[c] = "idle" PROVE sent'[c] = <<>>
    <3>1. sent[c] = <<>> /\ written[c] = 0
      BY <2>1, <2>3 DEF SentInv, WriterInv, TypeOK
    <3> QED BY <2>1, <3>1
  <2>4. SentInv'
    BY <2>1, <2>3 DEF SentInv, Live
  <2>5. OrderInv'
    BY <1>0, <2>1, OrderOfEmpty DEF OrderInv, Live
  <2> QED BY <2>2, <2>4, <2>5
<1>2. CASE Restart
  <2> USE <1>2 DEF Restart, routerVars, connVars, sendVars, replayVars
  <2>1. /\ log' = rows /\ queue' = Newest(rows, maxLen)
        /\ UNCHANGED <<batch, live, sent, replay, phase, rows>> /\ ~up /\ up'
    OBVIOUS
  <2>2. \A c \in Conns : batch[c] = <<>> /\ ~Live(c) /\ ~Live(c)'
    BY <2>1 DEF DownInv, BatchInv, SentInv, Live
  <2>3. rows \in Seq(Msgs) /\ maxLen \in Nat \ {0}
    BY DEF TypeOK
  <2>4. LogInv'
    <3>1. \A m \in Msgs : phase[m] \in {"new", "rejected", "lookup", "sending", "enqueue"}
            => m \notin Range(rows)
      BY DEF RoutedInv, Untouched
    <3>2. Range(queue') \subseteq Range(log')
      BY <2>1, <2>3, NewestFacts
    <3> QED BY <2>1, <2>2, <3>1, <3>2, RangeEmpty DEF LogInv
  <2>5. SentInv'
    BY <2>1, <2>2 DEF SentInv
  <2>6. OrderInv'
    <3>1. InOrderOf(log', queue')
      BY <2>1, <2>3, OrderNewest DEF LogInv
    <3>2. \A c \in Conns : InOrderOf(log', batch'[c])
      BY <2>1, <2>2, <2>3, OrderOfEmpty
    <3> QED BY <2>2, <3>1, <3>2 DEF OrderInv
  <2> QED BY <2>4, <2>5, <2>6
<1> QED BY <1>1, <1>2

LEMMA NextReplayInv ==
  ASSUME IInv, ReplayInv, [Next]_vars
  PROVE  ReplayInv'
<1>1. CASE UNCHANGED vars
  <2> USE <1>1 DEF vars, chosen, routerVars, connVars, sendVars, replayVars, queueVars, crashVars
  <2>1. LogInv' /\ SentInv' /\ OrderInv'
    BY DEF ReplayInv, LogInv, SentInv, OrderInv, Live
  <2> QED BY <2>1 DEF ReplayInv
<1>2. ASSUME NEW m \in Msgs, Reject(m) \/ StoreMessage(m) \/ Route(m)
      PROVE  ReplayInv'
  <2>1. CASE Reject(m) \/ StoreMessage(m) \/ Lookup(m) \/ AfterSends(m) \/ PersistQueue(m)
    BY <2>1, RouterReplay
  <2>2. ASSUME NEW c \in Conns, SendToTarget(m, c)
        PROVE  ReplayInv'
    BY <2>2, SendToTargetReplay
  <2>3. CASE EnqueueMessage(m)
    BY <2>3, EnqueueReplay
  <2> QED BY <1>2, <2>1, <2>2, <2>3 DEF Route
<1>3. ASSUME NEW c \in Conns,
             Accept(c) \/ Register(c) \/ Unregister(c) \/ WriterSend(c) \/ Replay(c)
      PROVE  ReplayInv'
  <2>1. CASE Accept(c) \/ Register(c) \/ Unregister(c) \/ WriterSend(c) \/ ReplayEnd(c)
    BY <2>1, ConnectionReplay
  <2>2. CASE ReplayDrain(c)
    BY <2>2, DrainReplay
  <2>3. CASE DeleteQueueMessages(c)
    BY <2>3, DeleteReplay
  <2>4. CASE ReplaySend(c)
    BY <2>4, SendReplay
  <2> QED BY <1>3, <2>1, <2>2, <2>3, <2>4 DEF Replay
<1>4. CASE Crash \/ Restart
  BY <1>4, CrashRestartReplay
<1> QED BY <1>1, <1>2, <1>3, <1>4 DEF Next

LEMMA ReplayInvariance == Spec => [](IInv /\ ReplayInv)
<1>1. Init => ReplayInv
  BY InitReplayInv
<1>2. IInv /\ ReplayInv /\ [Next]_vars => ReplayInv'
  BY NextReplayInv
<1> QED BY <1>1, <1>2, Invariance, PTL DEF Spec

(* What an open connection was sent from the queue, then what its replay     *)
(* still holds, is in the order of Enqueue (queue.go:66), whatever routers   *)
(* (routing.go:163-236) queue or send between two sends of the replay and    *)
(* whatever the length limit has dropped.                                   *)
THEOREM ReplayInOrderHolds == Spec => []ReplayInOrder
<1>1. IInv /\ ReplayInv => ReplayInOrder
  <2> SUFFICES ASSUME IInv, ReplayInv, NEW c \in Conns, live[c] \in {"accepted", "open"}
               PROVE  InOrderOf(log, sent[c] \o batch[c])
    BY DEF ReplayInOrder
  <2>1. log \in Seq(Msgs) /\ sent[c] \in Seq(Msgs) /\ batch[c] \in Seq(Msgs)
    BY DEF IInv, TypeOK
  <2>2. InOrderOf(log, sent[c]) /\ InOrderOf(log, batch[c]) /\ Precedes(log, sent[c], batch[c])
    BY DEF ReplayInv, OrderInv, Live
  <2> QED BY <2>1, <2>2, OrderOfBoth
<1> QED BY <1>1, ReplayInvariance, PTL

-----------------------------------------------------------------------------
(* The places of a message.                                                 *)

Held(m) == \E c \in Conns : m \in Range(batch[c])

\* The places of m exclude each other, and m is in one once it is routed.
Placed(m) ==
  /\ phase[m] \in {"persist", "done"} => m \in Range(queue) \/ Held(m) \/ Sent(m) \/ m \in trimmed \cup abandoned
  /\ Sent(m) => m \notin Range(queue) /\ ~Held(m) /\ m \notin trimmed \cup abandoned
  /\ m \in Range(queue) => ~Held(m) /\ m \notin trimmed \cup abandoned
  /\ Held(m) => m \notin trimmed \cup abandoned
  /\ ~(m \in trimmed /\ m \in abandoned)
  /\ \A c, d \in Conns : m \in Range(batch[c]) /\ m \in Range(batch[d]) => c = d

PlaceInv == crashes = 0 => up /\ \A m \in Msgs : Placed(m)

\* Steps that move no message.
LEMMA QuietPlace ==
  ASSUME PlaceInv, UNCHANGED <<sent, batch, queue, trimmed, abandoned, up, crashes>>,
         \A m \in Msgs : phase'[m] \in {"persist", "done"} => phase[m] \in {"persist", "done"} \/ Sent(m)
  PROVE  PlaceInv'
<1>1. \A m \in Msgs : (Sent(m)' <=> Sent(m)) /\ (Held(m)' <=> Held(m))
  BY DEF Sent, Held
<1>2. ASSUME NEW m \in Msgs, Placed(m) PROVE Placed(m)'
  BY <1>1, <1>2 DEF Placed
<1> QED BY <1>2 DEF PlaceInv

LEMMA ConnectionPlace ==
  ASSUME PlaceInv, NEW c \in Conns,
         Accept(c) \/ Register(c) \/ Unregister(c) \/ WriterSend(c) \/ ReplayEnd(c)
         \/ DeleteQueueMessages(c)
  PROVE  PlaceInv'
<1> USE DEF chosen, routerVars, connVars, sendVars, replayVars, queueVars, crashVars
<1>1. UNCHANGED <<sent, batch, queue, trimmed, abandoned, up, crashes, phase>>
  BY DEF Accept, Register, Unregister, WriterSend, ReplayEnd, DeleteQueueMessages
<1> QED BY <1>1, QuietPlace

\* A router is done when a send succeeded.
LEMMA RouterPlace ==
  ASSUME IInv, PlaceInv, NEW m \in Msgs,
         Reject(m) \/ StoreMessage(m) \/ Lookup(m) \/ AfterSends(m) \/ PersistQueue(m)
  PROVE  PlaceInv'
<1> USE DEF IInv, Goto, chosen, connVars, sendVars, replayVars, queueVars, crashVars
<1>1. UNCHANGED <<sent, batch, queue, trimmed, abandoned, up, crashes>>
  BY DEF Reject, StoreMessage, Lookup, AfterSends, PersistQueue
<1>2. \A x \in Msgs : x # m => phase'[x] = phase[x]
  BY DEF TypeOK, Reject, StoreMessage, Lookup, AfterSends, PersistQueue
<1>3. \/ phase'[m] \notin {"persist", "done"}
      \/ phase[m] = "persist"
      \/ phase[m] = "sending" /\ hit[m]
  BY DEF TypeOK, Reject, StoreMessage, Lookup, AfterSends, PersistQueue
<1>4. phase[m] = "sending" /\ hit[m] => Sent(m)
  BY DEF RoutedInv
<1> QED BY <1>1, <1>2, <1>3, <1>4, QuietPlace

\* The message a router sends is nowhere else.
LEMMA SendToTargetPlace ==
  ASSUME IInv, PlaceInv, NEW m \in Msgs, NEW c \in Conns, SendToTarget(m, c)
  PROVE  PlaceInv'
<1> USE DEF IInv, SendToTarget, Put, chosen, connVars, replayVars, queueVars, crashVars
<1>1. UNCHANGED <<batch, queue, trimmed, abandoned, up, crashes, phase>>
  OBVIOUS
<1>2. CASE ~SafeSendOK(c)
  <2>1. sent' = sent
    BY <1>2
  <2> QED BY <1>1, <2>1, QuietPlace
<1>3. CASE SafeSendOK(c)
  <2>1. /\ sent[c] \in Seq(Msgs)
        /\ sent'[c] = Append(sent[c], m)
        /\ \A d \in Conns : d # c => sent'[d] = sent[d]
    BY <1>3 DEF TypeOK
  <2>2. Range(sent'[c]) = Range(sent[c]) \cup {m}
    BY <2>1, RangeAppend
  <2>3. \A x \in Msgs : x # m => (Sent(x)' <=> Sent(x))
    BY <2>1, <2>2 DEF Sent
  <2>4. Untouched(m)
    BY DEF RoutedInv
  <2>5. \A x \in Msgs : Held(x)' <=> Held(x)
    BY <1>1 DEF Held
  <2>6. ASSUME NEW x \in Msgs, x # m, Placed(x) PROVE Placed(x)'
    BY <1>1, <2>3, <2>5, <2>6 DEF Placed
  <2>7. Placed(m)'
    <3>1. /\ m \notin Range(queue') /\ m \notin trimmed' \cup abandoned'
          /\ \A d \in Conns : m \notin Range(batch'[d])
      BY <1>1, <2>4 DEF Untouched
    <3>2. ~Held(m)' /\ phase'[m] \notin {"persist", "done"}
      BY <1>1, <3>1 DEF Held
    <3> QED BY <3>1, <3>2 DEF Placed
  <2> QED BY <1>1, <2>6, <2>7 DEF PlaceInv
<1> QED BY <1>2, <1>3

\* A queued message stays in the queue or was dropped by the length limit.
LEMMA EnqueuePlace ==
  ASSUME IInv, PlaceInv, NEW m \in Msgs, EnqueueMessage(m)
  PROVE  PlaceInv'
<1> USE DEF IInv, EnqueueMessage, Enqueue, Goto, chosen, connVars, sendVars, replayVars, crashVars
<1>1. UNCHANGED <<batch, sent, abandoned, up, crashes>>
  OBVIOUS
<1>2. queue \in Seq(Msgs) /\ maxLen \in Nat \ {0}
  BY DEF TypeOK
<1>3. /\ m \in Range(queue')
      /\ Range(queue') \subseteq Range(queue) \cup {m}
      /\ trimmed' = trimmed \cup ((Range(queue) \cup {m}) \ Range(queue'))
  BY <1>2, NewestAppend, RangeAppend
<1>4. phase'[m] = "persist" /\ \A x \in Msgs : x # m => phase'[x] = phase[x]
  BY DEF TypeOK
<1>5. ~Sent(m) /\ Untouched(m)
  BY DEF RoutedInv
<1>6. \A x \in Msgs : (Held(x)' <=> Held(x)) /\ (Sent(x)' <=> Sent(x))
  BY <1>1 DEF Held, Sent
<1>7. ASSUME NEW x \in Msgs, x # m, Placed(x) PROVE Placed(x)'
  <2>1. /\ x \in Range(queue') => x \in Range(queue)
        /\ x \in Range(queue) => x \in Range(queue') \/ x \in trimmed'
        /\ x \in trimmed' => x \in trimmed \/ (x \in Range(queue) /\ x \notin Range(queue'))
        /\ x \in trimmed => x \in trimmed'
    BY <1>3, <1>7
  <2> QED BY <1>1, <1>4, <1>6, <1>7, <2>1 DEF Placed
<1>8. Placed(m)'
  <2>1. /\ m \notin trimmed' \cup abandoned'
        /\ \A c \in Conns : m \notin Range(batch'[c])
    BY <1>1, <1>3, <1>5 DEF Untouched
  <2>2. ~Held(m)' /\ ~Sent(m)'
    BY <1>5, <1>6, <2>1 DEF Held
  <2> QED BY <1>3, <2>1, <2>2 DEF Placed
<1> QED BY <1>1, <1>7, <1>8 DEF PlaceInv

\* Draining moves the whole queue into one batch.
LEMMA DrainPlace ==
  ASSUME IInv, PlaceInv, NEW c \in Conns, ReplayDrain(c)
  PROVE  PlaceInv'
<1> USE DEF IInv, ReplayDrain, Drain, chosen, routerVars, connVars, sendVars, crashVars
<1>1. UNCHANGED <<sent, trimmed, abandoned, up, crashes, phase>> /\ queue' = <<>>
  OBVIOUS
<1>2. batch'[c] = queue /\ \A d \in Conns : d # c => batch'[d] = batch[d]
  BY DEF TypeOK
<1>3. batch[c] = <<>>
  BY DEF BatchInv
<1>4. ASSUME NEW x \in Msgs, Placed(x) PROVE Placed(x)'
  <2>1. (Sent(x)' <=> Sent(x)) /\ x \notin Range(queue')
    BY <1>1, RangeEmpty DEF Sent
  <2>2. Held(x)' <=> x \in Range(queue) \/ Held(x)
    BY <1>2, <1>3, RangeEmpty DEF Held
  <2>3. \A d, e \in Conns : x \in Range(batch'[d]) /\ x \in Range(batch'[e]) => d = e
    BY <1>2, <1>4 DEF Placed, Held
  <2> QED BY <1>1, <1>4, <2>1, <2>2, <2>3 DEF Placed
<1> QED BY <1>1, <1>4 DEF PlaceInv

\* What a replay sends leaves its batch; what it gives up on is abandoned.
LEMMA SendPlace ==
  ASSUME IInv, ReplayInv, PlaceInv, NEW c \in Conns, ReplaySend(c)
  PROVE  PlaceInv'
<1> USE DEF IInv, ReplaySend, Put, chosen, routerVars, connVars, queueVars, crashVars
<1>1. UNCHANGED <<queue, trimmed, up, crashes, phase>>
  OBVIOUS
<1>2. log \in Seq(Msgs) /\ batch[c] \in Seq(Msgs) /\ batch[c] # <<>> /\ sent[c] \in Seq(Msgs)
  BY DEF TypeOK
<1>3. CASE SafeSendOK(c)
  <2>1. PICK h \in Msgs : h = Head(batch[c])
    BY <1>2, RangeHeadTail
  <2>2. /\ sent'[c] = Append(sent[c], h)
        /\ \A d \in Conns : d # c => sent'[d] = sent[d]
    BY <1>3, <2>1 DEF TypeOK
  <2>3. /\ batch'[c] = Tail(batch[c])
        /\ \A d \in Conns : d # c => batch'[d] = batch[d]
        /\ abandoned' = abandoned
    BY <1>3 DEF TypeOK
  <2>4. Range(batch[c]) = {h} \cup Range(batch'[c])
    BY <1>2, <2>1, <2>3, RangeHeadTail
  <2>5. h \notin Range(batch'[c])
    BY <1>2, <2>1, <2>3, HeadOnce DEF ReplayInv, OrderInv, LogInv
  <2>6. Range(sent'[c]) = Range(sent[c]) \cup {h}
    BY <1>2, <2>2, RangeAppend
  <2>7. ASSUME NEW x \in Msgs, x # h, Placed(x) PROVE Placed(x)'
    <3>1. \A d \in Conns : x \in Range(batch'[d]) <=> x \in Range(batch[d])
      BY <2>3, <2>4, <2>7
    <3>2. (Sent(x)' <=> Sent(x)) /\ (Held(x)' <=> Held(x))
      BY <2>2, <2>6, <2>7, <3>1 DEF Sent, Held
    <3> QED BY <1>1, <2>3, <2>7, <3>1, <3>2 DEF Placed
  <2>8. ASSUME Placed(h) PROVE Placed(h)'
    <3>1. Held(h) /\ Sent(h)'
      BY <2>4, <2>6 DEF Held, Sent
    <3>2. \A d \in Conns : h \notin Range(batch'[d])
      BY <2>3, <2>4, <2>5, <2>8 DEF Placed
    <3>3. ~Held(h)'
      BY <3>2 DEF Held
    <3> QED BY <1>1, <2>3, <2>8, <3>1, <3>2, <3>3 DEF Placed
  <2> QED BY <1>1, <2>7, <2>8 DEF PlaceInv
<1>4. CASE ~SafeSendOK(c)
  <2>1. /\ batch'[c] = <<>>
        /\ \A d \in Conns : d # c => batch'[d] = batch[d]
        /\ sent' = sent
        /\ abandoned' = abandoned \cup Range(batch[c])
    BY <1>4 DEF TypeOK
  <2>2. ASSUME NEW x \in Msgs, Placed(x) PROVE Placed(x)'
    <3>1. Sent(x)' <=> Sent(x)
      BY <2>1 DEF Sent
    <3>2. x \notin Range(batch'[c])
      BY <2>1, RangeEmpty
    <3>3. CASE x \in Range(batch[c])
      <4>1. Held(x) /\ x \in abandoned'
        BY <2>1, <3>3 DEF Held
      <4>2. \A d \in Conns : x \notin Range(batch'[d])
        BY <2>1, <2>2, <3>2, <3>3 DEF Placed
      <4>3. ~Held(x)'
        BY <4>2 DEF Held
      <4> QED BY <1>1, <2>2, <3>1, <4>1, <4>2, <4>3 DEF Placed
    <3>4. CASE x \notin Range(batch[c])
      <4>1. \A d \in Conns : x \in Range(batch'[d]) <=> x \in Range(batch[d])
        BY <2>1, <3>2, <3>4
      <4>2. Held(x)' <=> Held(x)
        BY <4>1 DEF Held
      <4>3. x \in abandoned' <=> x \in abandoned
        BY <2>1, <3>4
      <4> QED BY <1>1, <2>2, <3>1, <4>1, <4>2, <4>3 DEF Placed
    <3> QED BY <3>3, <3>4
  <2> QED BY <1>1, <2>2 DEF PlaceInv
<1> QED BY <1>3, <1>4

LEMMA NextPlaceInv ==
  ASSUME IInv, ReplayInv, PlaceInv, [Next]_vars
  PROVE  PlaceInv'
<1>1. CASE UNCHANGED vars
  <2>1. UNCHANGED <<sent, batch, queue, trimmed, abandoned, up, crashes, phase>>
    BY <1>1 DEF vars, routerVars, sendVars, replayVars, queueVars, crashVars
  <2> QED BY <2>1, QuietPlace
<1>2. ASSUME NEW m \in Msgs, Reject(m) \/ StoreMessage(m) \/ Route(m)
      PROVE  PlaceInv'
  <2>1. CASE Reject(m) \/ StoreMessage(m) \/ Lookup(m) \/ AfterSends(m) \/ PersistQueue(m)
    BY <2>1, RouterPlace
  <2>2. ASSUME NEW c \in Conns, SendToTarget(m, c)
        PROVE  PlaceInv'
    BY <2>2, SendToTargetPlace
  <2>3. CASE EnqueueMessage(m)
    BY <2>3, EnqueuePlace
  <2> QED BY <1>2, <2>1, <2>2, <2>3 DEF Route
<1>3. ASSUME NEW c \in Conns,
             Accept(c) \/ Register(c) \/ Unregister(c) \/ WriterSend(c) \/ Replay(c)
      PROVE  PlaceInv'
  <2>1. CASE Accept(c) \/ Register(c) \/ Unregister(c) \/ WriterSend(c) \/ ReplayEnd(c)
             \/ DeleteQueueMessages(c)
    BY <2>1, ConnectionPlace
  <2>2. CASE ReplayDrain(c)
    BY <2>2, DrainPlace
  <2>3. CASE ReplaySend(c)
    BY <2>3, SendPlace
  <2> QED BY <1>3, <2>1, <2>2, <2>3 DEF Replay
<1>4. CASE Crash
  <2>1. crashes' # 0
    BY <1>4 DEF Crash, IInv, TypeOK
  <2> QED BY <2>1 DEF PlaceInv
<1>5. CASE Restart
  <2>1. crashes' = crashes /\ ~up
    BY <1>5 DEF Restart
  <2> QED BY <2>1 DEF PlaceInv
<1> QED BY <1>1, <1>2, <1>3, <1>4, <1>5 DEF Next

(* Before any crash, a message whose routing is over (routing.go:163-236) is *)
(* in exactly one place: sent, queued, in one replay's batch, trimmed by     *)
(* Enqueue (queue.go:57-60) or abandoned by a replay (queue.go:136-170).     *)
THEOREM InExactlyOnePlaceHolds == Spec => []InExactlyOnePlace
<1>1. Init => PlaceInv
  <2> SUFFICES ASSUME Init PROVE PlaceInv
    OBVIOUS
  <2>1. \A m \in Msgs : ~Sent(m) /\ ~Held(m) /\ m \notin Range(queue)
    BY RangeEmpty DEF Init, Sent, Held
  <2> QED BY <2>1, RangeEmpty DEF Init, PlaceInv, Placed
<1>2. IInv /\ ReplayInv /\ PlaceInv /\ [Next]_vars => PlaceInv'
  BY NextPlaceInv
<1>3. PlaceInv => InExactlyOnePlace
  <2> SUFFICES ASSUME PlaceInv, crashes = 0, NEW m \in Msgs, phase[m] \in {"persist", "done"}
               PROVE  Cardinality(Places(m)) = 1
    BY DEF InExactlyOnePlace
  <2>1. Placed(m)
    BY DEF PlaceInv
  <2>2. \E p : Places(m) = {p}
    <3>1. CASE Sent(m)
      <4>1. Places(m) = {"sent"}
        BY <2>1, <3>1 DEF Placed, Places, Held
      <4> QED BY <4>1
    <3>2. CASE m \in Range(queue)
      <4>1. Places(m) = {"queue"}
        BY <2>1, <3>2 DEF Placed, Places, Held
      <4> QED BY <4>1
    <3>3. CASE Held(m)
      <4>1. PICK c \in Conns : m \in Range(batch[c])
        BY <3>3 DEF Held
      <4>2. Places(m) = {c}
        BY <2>1, <3>3, <4>1 DEF Placed, Places
      <4> QED BY <4>2
    <3>4. CASE m \in trimmed
      <4>1. Places(m) = {"trimmed"}
        BY <2>1, <3>4 DEF Placed, Places, Held
      <4> QED BY <4>1
    <3>5. CASE m \in abandoned
      <4>1. Places(m) = {"abandoned"}
        BY <2>1, <3>5 DEF Placed, Places, Held
      <4> QED BY <4>1
    <3> QED BY <2>1, <3>1, <3>2, <3>3, <3>4, <3>5 DEF Placed
  <2>3. PICK p : Places(m) = {p}
    BY <2>2
  <2> QED BY <2>3, FS_Singleton
<1> QED BY <1>1, <1>2, <1>3, ReplayInvariance, PTL DEF Spec
=============================================================================
