----------------------------- MODULE RateLimits -----------------------------
(***************************************************************************)
(* The limiters in memory that guard the WebSocket side, for one id: the   *)
(* two RateLimiters that checkRateLimit asks one after the other for every *)
(* message (server/middleware.go), and the limiter of an agent's attempts  *)
(* to connect (server/auth.go).                                            *)
(*                                                                         *)
(* A counter is a count, 0 when the map has no entry, and the time since   *)
(* its window began.  Time passes in ticks and has no end: a window that   *)
(* is over stays over, so its age stops at Window + 1, and a count above   *)
(* the limit makes no difference, so it stops at limit + 1.  The methods   *)
(* of a limiter hold its mutex and are one step each; the two checks of a  *)
(* message are two, and every connection of the id has a read pump of its  *)
(* own.  The limiter of the authentication endpoints is a RateLimiter that *)
(* is asked alone.                                                         *)
(***************************************************************************)
EXTENDS Naturals

CONSTANTS ConnLimit,    \* messageRateLimiter (60)
          UserLimit,    \* userRateLimiter (120)
          MaxAttempts,  \* maxAgentAttempts (10)
          Window,       \* a minute, in ticks
          Pumps         \* connections of the id

ASSUME LimitAssumption ==
  /\ ConnLimit \in Nat \ {0} /\ MaxAttempts \in Nat \ {0}
  /\ UserLimit \in Nat /\ UserLimit >= 2 * ConnLimit
  /\ Window \in Nat \ {0} /\ Pumps \in Nat \ {0}

VARIABLES
  connCount, connAge,    \* messageRateLimiter.counters[id]
  userCount, userAge,    \* userRateLimiter.counters[id]
  between,               \* read pumps between the two checks
  tryCount, tryAge,      \* agentRateLimiter.attempts[id]
  straddled,             \* others were between their checks when the user's window began
  recent,                \* how long ago the first check let the last messages through
  tries                  \* and the last attempts were let through, the latest first

conn == <<connCount, connAge>>
user == <<userCount, userAge>>
attempts == <<tryCount, tryAge, tries>>
vars == <<conn, user, between, attempts, straddled, recent>>

\* One more than may pass in the length of a window; over a window ago is
\* as good as never.
Ages(limit) == [1..(2 * limit + 1) -> 0..(Window + 1)]
Never(limit) == [i \in 1..(2 * limit + 1) |-> Window + 1]
Passed(ages) == [i \in DOMAIN ages |-> IF i = 1 THEN 0 ELSE ages[i - 1]]

Init ==
  /\ connCount = 0 /\ connAge = 0
  /\ userCount = 0 /\ userAge = 0
  /\ between = 0
  /\ tryCount = 0 /\ tryAge = 0
  /\ straddled = FALSE
  /\ recent = Never(ConnLimit)
  /\ tries = Never(MaxAttempts)

-----------------------------------------------------------------------------
(* RateLimiter.                                                             *)

\* now.After(counter.expires)
Over(age) == age > Window

\* Allow opens a window.
Opens(count, age) == count = 0 \/ Over(age)

Counted(count, age, limit) ==
  IF Opens(count, age) THEN 1 ELSE IF count <= limit THEN count + 1 ELSE count

\* Defect: every message pushes the end of the window out.
SlidingAge(count, age) == 0

NewAge(count, age) == IF Opens(count, age) THEN 0 ELSE age

\* Defect: one message too many.
WithinOrAtLimit(count, limit) == count <= limit + 1

Within(count, limit) == count <= limit

\* Defect: counters are removed in the middle of their window.
AnyCounter(count, age) == count # 0

\* What cleanup removes.
Stale(count, age) == count # 0 /\ Over(age)

-----------------------------------------------------------------------------

\* checkRateLimit, first half: the limit per connection, which goes by the id.
ConnCheck ==
  /\ between < Pumps
  /\ connCount' = Counted(connCount, connAge, ConnLimit)
  /\ connAge' = NewAge(connCount, connAge)
  /\ IF Within(connCount', ConnLimit)
       THEN /\ between' = between + 1
            /\ recent' = Passed(recent)
       ELSE UNCHANGED <<between, recent>>
  /\ UNCHANGED <<user, attempts, straddled>>

\* Second half: the limit per user, which goes by the same id.
UserCheck ==
  /\ between > 0
  /\ between' = between - 1
  /\ userCount' = Counted(userCount, userAge, UserLimit)
  /\ userAge' = NewAge(userCount, userAge)
  /\ straddled' = IF Opens(userCount, userAge) THEN between > 1 ELSE straddled
  /\ UNCHANGED <<conn, attempts, recent>>

ConnCleanup ==
  /\ Stale(connCount, connAge)
  /\ connCount' = 0
  /\ connAge' = 0
  /\ UNCHANGED <<user, between, attempts, straddled, recent>>

UserCleanup ==
  /\ Stale(userCount, userAge)
  /\ userCount' = 0
  /\ userAge' = 0
  /\ UNCHANGED <<conn, between, attempts, straddled, recent>>

\* rateLimiter.Allow in auth.go: a refused attempt is not counted.
AgentAttempt ==
  LET opens == tryCount = 0 \/ tryAge > Window
  IN /\ opens \/ tryCount < MaxAttempts
     /\ tryCount' = IF opens THEN 1 ELSE tryCount + 1
     /\ tryAge' = IF opens THEN 0 ELSE tryAge
     /\ tries' = Passed(tries)
     /\ UNCHANGED <<conn, user, between, straddled, recent>>

\* rateLimiter.Clean
AgentClean ==
  /\ Stale(tryCount, tryAge)
  /\ tryCount' = 0
  /\ tryAge' = 0
  /\ UNCHANGED <<conn, user, between, tries, straddled, recent>>

Older(count, age) == IF count # 0 /\ age <= Window THEN age + 1 ELSE age
AllOlder(ages) == [i \in DOMAIN ages |-> IF ages[i] <= Window THEN ages[i] + 1 ELSE ages[i]]

Tick ==
  /\ connAge' = Older(connCount, connAge)
  /\ userAge' = Older(userCount, userAge)
  /\ tryAge' = Older(tryCount, tryAge)
  /\ recent' = AllOlder(recent)
  /\ tries' = AllOlder(tries)
  /\ UNCHANGED <<connCount, userCount, tryCount, between, straddled>>

Next ==
  \/ ConnCheck
  \/ UserCheck
  \/ ConnCleanup
  \/ UserCleanup
  \/ AgentAttempt
  \/ AgentClean
  \/ Tick

\* Time passes, a pump that passed the first check goes on to the second, and
\* the id keeps sending and trying to connect.
Fairness ==
  /\ WF_vars(Tick)
  /\ WF_vars(ConnCheck)
  /\ WF_vars(UserCheck)
  /\ WF_vars(AgentAttempt)

Spec == Init /\ [][Next]_vars /\ Fairness

-----------------------------------------------------------------------------
(* Properties.                                                              *)

TypeOK ==
  /\ connCount \in 0..(ConnLimit + 1) /\ connAge \in 0..(Window + 1)
  /\ userCount \in 0..(UserLimit + 1) /\ userAge \in 0..(Window + 1)
  /\ tryCount \in 0..MaxAttempts /\ tryAge \in 0..(Window + 1)
  /\ between \in 0..Pumps
  /\ straddled \in BOOLEAN
  /\ recent \in Ages(ConnLimit) /\ tries \in Ages(MaxAttempts)

(* userRateLimiter is there to hold a user who reconnects (middleware.go:   *)
(* 153-155), but messageRateLimiter goes by the same id, lets half as many  *)
(* through, and its windows cannot begin more often: the second check never *)
(* refuses a message, over any time and number of connections, except in a  *)
(* window that began while other messages were between their two checks.    *)
UserLimitIdle == ~straddled => userCount <= UserLimit

(* Whatever the windows, the cleanup and the number of connections: in the  *)
(* length of a window at most twice the limit passes, one burst at the end  *)
(* of a window and one at the start of the next.                            *)
BurstBound ==
  /\ recent[2 * ConnLimit + 1] > Window
  /\ tries[2 * MaxAttempts + 1] > Window

(* An id that never stops sending, however much is refused meanwhile, gets  *)
(* messages through again and again, and an agent gets to connect: counting *)
(* the refused messages does not push the end of the window out.            *)
GetsThrough == []<>(recent[1] = 0) /\ []<>(tries[1] = 0)

=============================================================================
