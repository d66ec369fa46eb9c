---------------------------- MODULE LimitsProofs ----------------------------
(***************************************************************************)
(* Theorems about the limiters in memory: those of the WebSocket side      *)
(* (RateLimits) and the one of HTTP requests with its tiers (TierLimit).   *)
(*                                                                         *)
(* RateLimits: the limit per user never refuses a message, and in the      *)
(* length of a window at most twice a limit passes, for all limits with    *)
(* the second at least twice the first, all window lengths and any number  *)
(* of connections.                                                         *)
(*                                                                         *)
(* UserLimitIdle is not inductive: it does not say why the count stays     *)
(* low.  LimitInv compares the two windows.  While the connection's window *)
(* is the older one, all that the user's window has counted, and all that  *)
(* is still between the checks, was let through in that one window.  When  *)
(* it is the younger one, a single older window may have contributed as    *)
(* well; a third would have to begin after the user's window is over.      *)
(*                                                                         *)
(* BurstBound speaks of the (2 * limit + 1)-th last message only, BurstInv *)
(* of all the last ones and in which window they passed: the ones before   *)
(* this window are older than it, and all but a limit of those more than a *)
(* window old.                                                             *)
(*                                                                         *)
(* TierLimit: two bursts of a tier, an honest Retry-After and a tier that  *)
(* is the one in the database, for all tiers, windows and administrators.  *)
(***************************************************************************)
EXTENDS RateLimits, TierLimit, Integers, TLAPS

-----------------------------------------------------------------------------
(* RateLimits.                                                              *)

\* What the first check let through in its present window.
Let == IF connCount <= ConnLimit THEN connCount ELSE ConnLimit

LimitInv ==
  ~straddled =>
    /\ userCount <= 2 * ConnLimit
    /\ userCount # 0 /\ ~Over(userAge) =>
         /\ connCount = 0 => userCount + between <= ConnLimit
         /\ connCount # 0 /\ connAge > userAge => userCount + between <= Let
         /\ connCount # 0 /\ connAge <= userAge => userCount + between <= ConnLimit + Let

BurstInv(hits, age, limit, ages) ==
  LET this == IF hits <= limit THEN hits ELSE limit
  IN \A i \in 1..(2 * limit + 1) :
       /\ i > this => ages[i] > age \/ ages[i] > Window
       /\ i > this + limit => ages[i] > Window
       /\ hits = 0 \/ age > Window => ages[i] > 0

IInv == TypeOK /\ LimitInv

LEMMA PassedType ==
  ASSUME NEW limit \in Nat \ {0}, NEW ages \in Ages(limit)
  PROVE  Passed(ages) \in Ages(limit)
  BY LimitAssumption DEF Passed, Ages

LEMMA AllOlderType ==
  ASSUME NEW limit \in Nat \ {0}, NEW ages \in Ages(limit)
  PROVE  AllOlder(ages) \in Ages(limit)
  BY LimitAssumption DEF AllOlder, Ages

(* Every counter keeps its type: windows and counts stop where a limiter    *)
(* no longer tells them apart.                                              *)
LEMMA TypeStep == TypeOK /\ [Next]_vars => TypeOK'
<1> SUFFICES ASSUME TypeOK, [Next]_vars PROVE TypeOK'
  OBVIOUS
<1> USE LimitAssumption DEF TypeOK
<1>1. CASE ConnCheck
  <2>1. connCount' \in 0..(ConnLimit + 1) /\ connAge' \in 0..(Window + 1)
    BY <1>1 DEF ConnCheck, Counted, NewAge, Opens, Over
  <2>2. between' \in 0..Pumps /\ recent' \in Ages(ConnLimit)
    <3>1. CASE Within(connCount', ConnLimit)
      <4>1. between < Pumps /\ between' = between + 1
        BY <1>1, <3>1 DEF ConnCheck
      <4>2. recent' = Passed(recent)
        BY <1>1, <3>1 DEF ConnCheck
      <4> QED
        BY <4>1, <4>2, PassedType
    <3>2. CASE ~Within(connCount', ConnLimit)
      BY <1>1, <3>2 DEF ConnCheck
    <3> QED
      BY <3>1, <3>2
  <2> QED
    BY <1>1, <2>1, <2>2 DEF ConnCheck, user, attempts
<1>2. CASE UserCheck
  <2>1. userCount' \in 0..(UserLimit + 1) /\ userAge' \in 0..(Window + 1)
    BY <1>2 DEF UserCheck, Counted, NewAge, Opens, Over
  <2>2. straddled' \in BOOLEAN
    <3>1. (between > 1) \in BOOLEAN
      OBVIOUS
    <3> QED
      BY <1>2, <3>1 DEF UserCheck
  <2> QED
    BY <1>2, <2>1, <2>2 DEF UserCheck, conn, attempts
<1>3. CASE ConnCleanup
  BY <1>3 DEF ConnCleanup, user, attempts
<1>4. CASE UserCleanup
  BY <1>4 DEF UserCleanup, conn, attempts
<1>5. CASE AgentAttempt
  <2>1. tries' \in Ages(MaxAttempts)
    BY <1>5, PassedType DEF AgentAttempt
  <2> QED
    BY <1>5, <2>1 DEF AgentAttempt, conn, user
<1>6. CASE AgentClean
  BY <1>6 DEF AgentClean, conn, user
<1>7. CASE Tick
  <2>1. AllOlder(recent) \in Ages(ConnLimit) /\ AllOlder(tries) \in Ages(MaxAttempts)
    BY AllOlderType
  <2> QED
    BY <1>7, <2>1 DEF Tick, Older
<1>8. CASE UNCHANGED vars
  BY <1>8 DEF vars, conn, user, attempts
<1> QED
  BY <1>1, <1>2, <1>3, <1>4, <1>5, <1>6, <1>7, <1>8 DEF Next

(* How the two windows compare is kept by both checks, by both cleanups and *)
(* by the clock.                                                            *)
LEMMA LimitStep == IInv /\ [Next]_vars => LimitInv'
<1> SUFFICES ASSUME IInv, [Next]_vars PROVE LimitInv'
  OBVIOUS
<1> USE LimitAssumption DEF IInv, TypeOK, LimitInv, Let, Over
<1>1. CASE ConnCheck
  <2>1. UNCHANGED <<userCount, userAge, straddled>>
    BY <1>1 DEF ConnCheck, user
  <2>2. CASE Opens(connCount, connAge)
    <3>1. connCount' = 1 /\ connAge' = 0 /\ between' = between + 1
      BY <1>1, <2>2 DEF ConnCheck, Counted, NewAge, Within
    <3> QED
      BY <2>1, <2>2, <3>1 DEF Opens
  <2>3. CASE ~Opens(connCount, connAge)
    BY <1>1, <2>1, <2>3 DEF ConnCheck, Counted, NewAge, Within, Opens
  <2> QED
    BY <2>2, <2>3
<1>2. CASE UserCheck
  <2>1. UNCHANGED <<connCount, connAge>> /\ between > 0 /\ between' = between - 1
    BY <1>2 DEF UserCheck, conn
  <2>2. CASE Opens(userCount, userAge)
    <3>1. userCount' = 1 /\ userAge' = 0 /\ (~straddled' => ~(between > 1))
      BY <1>2, <2>2 DEF UserCheck, Counted, NewAge
    <3> QED
      BY <2>1, <3>1
  <2>3. CASE ~Opens(userCount, userAge)
    BY <1>2, <2>1, <2>3 DEF UserCheck, Counted, NewAge, Opens
  <2> QED
    BY <2>2, <2>3
<1>3. CASE ConnCleanup
  BY <1>3 DEF ConnCleanup, Stale, user
<1>4. CASE UserCleanup
  BY <1>4 DEF UserCleanup, conn
<1>5. CASE AgentAttempt
  BY <1>5 DEF AgentAttempt, conn, user
<1>6. CASE AgentClean
  BY <1>6 DEF AgentClean, conn, user
<1>7. CASE Tick
  BY <1>7 DEF Tick, Older
<1>8. CASE UNCHANGED vars
  BY <1>8 DEF vars, conn, user
<1> QED
  BY <1>1, <1>2, <1>3, <1>4, <1>5, <1>6, <1>7, <1>8 DEF Next

(* Every counter keeps its type, and the windows of the two limiters of     *)
(* checkRateLimit (middleware.go:157-190) compare as LimitInv says.         *)
THEOREM Invariance == Spec => []IInv
<1>1. Init => IInv
  <2>1. Init => recent \in Ages(ConnLimit) /\ tries \in Ages(MaxAttempts)
    BY LimitAssumption DEF Init, Never, Ages
  <2>2. Init => LimitInv
    BY LimitAssumption DEF Init, LimitInv
  <2>3. Init => straddled \in BOOLEAN
    BY DEF Init
  <2> QED
    BY <2>1, <2>2, <2>3, LimitAssumption DEF Init, IInv, TypeOK
<1>2. IInv /\ [Next]_vars => IInv'
  BY TypeStep, LimitStep DEF IInv
<1> QED
  BY <1>1, <1>2, PTL DEF Spec

(* For all limits, windows and numbers of connections, the second check of  *)
(* checkRateLimit never refuses a message, unless others were between their *)
(* two checks when the window of the user began.                            *)
THEOREM UserLimitIdleHolds == Spec => []UserLimitIdle
<1>1. IInv => UserLimitIdle
  BY LimitAssumption DEF IInv, TypeOK, LimitInv, UserLimitIdle
<1> QED
  BY <1>1, Invariance, PTL

-----------------------------------------------------------------------------
(* Bursts.                                                                  *)

\* A message that passes is the latest, in a new window or in this one.
LEMMA PassKeepsBurst ==
  ASSUME NEW limit \in Nat \ {0}, NEW ages \in Ages(limit), NEW hits \in Nat,
         NEW age \in 0..(Window + 1), BurstInv(hits, age, limit, ages),
         Opens(hits, age) \/ hits < limit
  PROVE  BurstInv(IF Opens(hits, age) THEN 1 ELSE hits + 1, NewAge(hits, age), limit, Passed(ages))
<1> USE LimitAssumption DEF Ages
<1>1. \A i \in 1..(2 * limit + 1) :
        /\ i = 1 => Passed(ages)[i] = 0
        /\ i # 1 => i - 1 \in 1..(2 * limit + 1) /\ Passed(ages)[i] = ages[i - 1]
  BY DEF Passed
<1>2. CASE Opens(hits, age)
  <2>1. ASSUME NEW i \in 1..(2 * limit + 1)
        PROVE  /\ i > 1 => Passed(ages)[i] > 0
               /\ i > 1 + limit => Passed(ages)[i] > Window
    <3>1. CASE i = 1
      BY <3>1
    <3>2. CASE i # 1
      BY <1>1, <1>2, <3>2 DEF BurstInv, Opens, Over
    <3> QED
      BY <3>1, <3>2
  <2>2. BurstInv(1, 0, limit, Passed(ages))
    BY <2>1 DEF BurstInv
  <2> QED
    BY <1>2, <2>2 DEF NewAge
<1>3. CASE ~Opens(hits, age)
  <2>1. hits # 0 /\ age <= Window /\ hits < limit
    BY <1>3 DEF Opens, Over
  <2>2. ASSUME NEW i \in 1..(2 * limit + 1)
        PROVE  /\ i > hits + 1 => Passed(ages)[i] > age \/ Passed(ages)[i] > Window
               /\ i > hits + 1 + limit => Passed(ages)[i] > Window
    <3>1. CASE i = 1
      BY <2>1, <3>1
    <3>2. CASE i # 1
      BY <1>1, <2>1, <3>2 DEF BurstInv
    <3> QED
      BY <3>1, <3>2
  <2>3. BurstInv(hits + 1, age, limit, Passed(ages))
    BY <2>1, <2>2 DEF BurstInv
  <2> QED
    BY <1>3, <2>3 DEF NewAge
<1> QED
  BY <1>2, <1>3

\* A refused message changes no more than the count.
LEMMA RefusalKeepsBurst ==
  ASSUME NEW limit \in Nat \ {0}, NEW ages \in Ages(limit), NEW hits \in Nat, NEW more \in Nat,
         NEW age \in 0..(Window + 1), BurstInv(hits, age, limit, ages), hits >= limit, more > limit
  PROVE  BurstInv(more, age, limit, ages)
<1>1. (IF hits <= limit THEN hits ELSE limit) = limit /\ (IF more <= limit THEN more ELSE limit) = limit
  OBVIOUS
<1>2. hits # 0 /\ more # 0
  OBVIOUS
<1> QED
  BY <1>1, <1>2 DEF BurstInv

\* Messages and windows grow older together.
LEMMA TickKeepsBurst ==
  ASSUME NEW limit \in Nat \ {0}, NEW ages \in Ages(limit), NEW hits \in Nat,
         NEW age \in 0..(Window + 1), BurstInv(hits, age, limit, ages)
  PROVE  BurstInv(hits, Older(hits, age), limit, AllOlder(ages))
<1> USE LimitAssumption DEF Ages
<1>1. \A i \in 1..(2 * limit + 1) :
        AllOlder(ages)[i] = IF ages[i] <= Window THEN ages[i] + 1 ELSE ages[i]
  BY DEF AllOlder
<1> QED
  BY <1>1 DEF BurstInv, Older

\* A window that is over can be forgotten.
LEMMA CleanupKeepsBurst ==
  ASSUME NEW limit \in Nat \ {0}, NEW ages \in Ages(limit), NEW hits \in Nat,
         NEW age \in 0..(Window + 1), BurstInv(hits, age, limit, ages), Stale(hits, age)
  PROVE  BurstInv(0, 0, limit, ages)
  BY LimitAssumption DEF BurstInv, Stale, Over, Ages

LEMMA BurstStep ==
  ASSUME TypeOK, [Next]_vars,
         BurstInv(connCount, connAge, ConnLimit, recent), BurstInv(tryCount, tryAge, MaxAttempts, tries)
  PROVE  /\ BurstInv(connCount', connAge', ConnLimit, recent')
         /\ BurstInv(tryCount', tryAge', MaxAttempts, tries')
<1> USE LimitAssumption DEF TypeOK
<1>1. CASE ConnCheck
  <2>1. UNCHANGED <<tryCount, tryAge, tries>>
    BY <1>1 DEF ConnCheck, attempts
  <2>2. CASE Opens(connCount, connAge) \/ connCount < ConnLimit
    <3>1. /\ connCount' = IF Opens(connCount, connAge) THEN 1 ELSE connCount + 1
          /\ connAge' = NewAge(connCount, connAge)
      BY <1>1, <2>2 DEF ConnCheck, Counted
    <3>2. recent' = Passed(recent)
      BY <1>1, <2>2, <3>1 DEF ConnCheck, Within
    <3> QED
      BY <2>1, <2>2, <3>1, <3>2, PassKeepsBurst
  <2>3. CASE ~Opens(connCount, connAge) /\ connCount >= ConnLimit
    <3>1. connCount' > ConnLimit /\ connCount' \in Nat /\ connAge' = connAge
      BY <1>1, <2>3 DEF ConnCheck, Counted, NewAge
    <3>2. recent' = recent
      BY <1>1, <3>1 DEF ConnCheck, Within
    <3> QED
      BY <2>1, <2>3, <3>1, <3>2, RefusalKeepsBurst
  <2> QED
    BY <2>2, <2>3
<1>2. CASE ConnCleanup
  BY <1>2, CleanupKeepsBurst DEF ConnCleanup, attempts
<1>3. CASE AgentAttempt
  <2>1. UNCHANGED <<connCount, connAge, recent>>
    BY <1>3 DEF AgentAttempt, conn
  <2>2. /\ Opens(tryCount, tryAge) \/ tryCount < MaxAttempts
        /\ tryCount' = IF Opens(tryCount, tryAge) THEN 1 ELSE tryCount + 1
        /\ tryAge' = NewAge(tryCount, tryAge) /\ tries' = Passed(tries)
    BY <1>3 DEF AgentAttempt, Opens, Over, NewAge
  <2> QED
    BY <2>1, <2>2, PassKeepsBurst
<1>4. CASE AgentClean
  BY <1>4, CleanupKeepsBurst DEF AgentClean, conn
<1>5. CASE Tick
  BY <1>5, TickKeepsBurst DEF Tick
<1>6. CASE UserCheck \/ UserCleanup \/ UNCHANGED vars
  BY <1>6 DEF UserCheck, UserCleanup, vars, conn, attempts
<1> QED
  BY <1>1, <1>2, <1>3, <1>4, <1>5, <1>6 DEF Next

(* Both limiters, the RateLimiter of middleware.go and the one of auth.go,  *)
(* for all limits and window lengths: of one more than twice the limit, the *)
(* first passed more than a window before the last, however the cleanup and *)
(* the borders of windows fall.                                             *)
THEOREM BurstBoundHolds == Spec => []BurstBound
<1> DEFINE Bursts == /\ BurstInv(connCount, connAge, ConnLimit, recent)
                     /\ BurstInv(tryCount, tryAge, MaxAttempts, tries)
<1>1. Init => Bursts
  BY LimitAssumption DEF Init, BurstInv, Never
<1>2. IInv /\ Bursts /\ [Next]_vars => Bursts'
  BY BurstStep DEF IInv
<1>3. IInv /\ Bursts => BurstBound
  <2> SUFFICES ASSUME IInv, Bursts PROVE BurstBound
    OBVIOUS
  <2>1. 2 * ConnLimit + 1 \in 1..(2 * ConnLimit + 1) /\ 2 * MaxAttempts + 1 \in 1..(2 * MaxAttempts + 1)
    BY LimitAssumption
  <2> QED
    BY <2>1, LimitAssumption DEF BurstInv, BurstBound, IInv, TypeOK
<1> QED
  BY <1>1, <1>2, <1>3, Invariance, PTL DEF Spec

-----------------------------------------------------------------------------
(* TierLimit.                                                               *)

\* The parts of TierTypeOK about numbers, and the others.
NumberOK ==
  /\ now \in 0..MaxTime
  /\ count \in Nat
  /\ windowEnd \in 0..(now + TierWindow)
  /\ requests \in 0..MaxRequests
  /\ passed \in Seq(0..MaxTime)
  /\ promise \in Nat

TierOK ==
  /\ tier \in Tiers
  /\ row \in Tiers \cup {0}
  /\ admin \in [Admins -> {"idle", "persist", "done", "cut"}]
  /\ want \in [Admins -> Tiers]

FlagOK == present \in BOOLEAN /\ excused \in BOOLEAN

LEMMA TierParts == TierTypeOK <=> NumberOK /\ TierOK /\ FlagOK
  BY Zenon DEF TierTypeOK, NumberOK, TierOK, FlagOK

LEMMA TierInitType == TierInit => TierTypeOK
<1> SUFFICES ASSUME TierInit PROVE TierTypeOK
  OBVIOUS
<1>1. NumberOK BY TierAssumption DEF TierInit, NumberOK
<1>2. TierOK BY TierAssumption DEF TierInit, TierOK
<1>3. FlagOK BY Zenon DEF TierInit, FlagOK
<1> QED BY <1>1, <1>2, <1>3, TierParts

LEMMA CountType ==
  ASSUME TierTypeOK, Count
  PROVE /\ tier' \in Tiers /\ count' \in Nat /\ windowEnd' \in 0..(now + TierWindow)
        /\ now <= windowEnd' /\ windowEnd' = NewEnd /\ present' = TRUE
        /\ NewEnd - now \in Nat
  BY TierAssumption DEF TierTypeOK, Count, GetTier, OpensWindow, NewEnd

LEMMA TierNextType == TierTypeOK /\ [TierNext]_tierVars => TierTypeOK'
<1> SUFFICES ASSUME TierTypeOK, [TierNext]_tierVars PROVE TierTypeOK'
  OBVIOUS
<1> USE TierAssumption
<1>1. CASE Admit
  <2>1. requests' \in 0..MaxRequests BY <1>1 DEF Admit, Count, TierTypeOK
  <2>2. passed' \in Seq(0..MaxTime) BY <1>1 DEF Admit, TierTypeOK
  <2> QED BY <1>1, <2>1, <2>2, CountType DEF Admit, Count, TierTypeOK
<1>2. CASE Refuse
  <2>1. requests' \in 0..MaxRequests BY <1>2 DEF Refuse, Count, TierTypeOK
  <2>2. NewEnd - now \in Nat BY <1>2, CountType DEF Refuse
  <2>3. (NewEnd - now) \div Second \in Nat BY <2>2
  <2>4. promise' \in Nat BY <1>2, <2>3 DEF Refuse, RetryAfter, TierTypeOK
  <2> QED BY <1>2, <2>1, <2>4, CountType DEF Refuse, Count, TierTypeOK
<1>3. ASSUME NEW a \in Admins, NEW t \in Tiers, SetTier(a, t) PROVE TierTypeOK'
  <2>1. NumberOK' BY <1>3, TierParts DEF SetTier, NumberOK
  <2>2. TierOK' BY <1>3, TierParts DEF SetTier, TierOK
  <2>3. FlagOK' BY <1>3, TierParts, Zenon DEF SetTier, FlagOK
  <2> QED BY <2>1, <2>2, <2>3, TierParts, PTL
<1>4. ASSUME NEW a \in Admins, PersistTier(a) \/ PersistFails(a) PROVE TierTypeOK'
  <2>1. NumberOK' BY <1>4, TierParts DEF PersistTier, PersistFails, entry, NumberOK
  <2>2. TierOK' BY <1>4, TierParts DEF PersistTier, PersistFails, entry, TierOK
  <2>3. FlagOK' BY <1>4, TierParts, Zenon DEF PersistTier, PersistFails, entry, FlagOK
  <2> QED BY <2>1, <2>2, <2>3, TierParts, PTL
<1>5. CASE CleanupOnce
  <2>1. NumberOK' BY <1>5, TierParts DEF CleanupOnce, NumberOK
  <2>2. TierOK' BY <1>5, TierParts DEF CleanupOnce, TierOK
  <2>3. FlagOK' BY <1>5, TierParts, Zenon DEF CleanupOnce, FlagOK
  <2> QED BY <2>1, <2>2, <2>3, TierParts, PTL
<1>6. CASE Restart
  <2>1. NumberOK' BY <1>6, TierParts DEF Restart, StartWith, NumberOK
  <2>2. TierOK' BY <1>6, TierParts DEF Restart, StartWith, ToLoad, AtWork, TierOK
  <2>3. FlagOK' BY <1>6, TierParts DEF Restart, StartWith, ToLoad, FlagOK
  <2> QED BY <2>1, <2>2, <2>3, TierParts, PTL
<1>7. CASE RestartLoadFails
  <2>1. NumberOK' BY <1>7, TierParts DEF RestartLoadFails, StartWith, NumberOK
  <2>2. TierOK' BY <1>7, TierParts DEF RestartLoadFails, StartWith, AtWork, TierOK
  <2>3. FlagOK' BY <1>7, TierParts DEF RestartLoadFails, StartWith, FlagOK
  <2> QED BY <2>1, <2>2, <2>3, TierParts, PTL
<1>8. CASE TierTick
  BY <1>8 DEF TierTick, TierTypeOK, entry
<1>9. CASE UNCHANGED tierVars
  BY <1>9 DEF tierVars, TierTypeOK, entry
<1> QED
  BY <1>1, <1>2, <1>3, <1>4, <1>5, <1>6, <1>7, <1>8, <1>9 DEF TierNext

(* Types, and that a window never ends later than one window from now       *)
(* (rate_limit_tiers.go:103 and 111).                                       *)
THEOREM TierTypeOKHolds == TierSpec => []TierTypeOK
  BY TierInitType, TierNextType, PTL DEF TierSpec

-----------------------------------------------------------------------------
(* Retry-After.                                                             *)

\* Once a promise is made, the entry is gone, or its window ends before the promise, or
\* it has room.
PromiseInv == promise > 0 => ~present \/ windowEnd < promise \/ count < tier

\* Seconds rounded down, and one more, are longer than what was rounded.
LEMMA RoundedUp ==
  ASSUME NEW x \in Nat, NEW s \in Nat \ {0}
  PROVE x \div s \in Nat /\ (x \div s + 1) * s > x
<1> DEFINE q == x \div s
           p == q * s
           m == x % s
<1>1. q \in Nat /\ m \in Int /\ m < s /\ x = p + m
  OBVIOUS
<1> HIDE DEF q, m
<1>2. (q + 1) * s = p + s /\ p \in Int BY <1>1
<1> HIDE DEF p
<1>3. (q + 1) * s > x BY <1>1, <1>2
<1> QED BY <1>1, <1>3 DEF q

LEMMA NextPromise == TierTypeOK /\ PromiseInv /\ [TierNext]_tierVars => PromiseInv'
<1> SUFFICES ASSUME TierTypeOK, PromiseInv, [TierNext]_tierVars PROVE PromiseInv'
  OBVIOUS
<1> USE TierAssumption
<1>1. CASE Admit
  BY <1>1 DEF Admit, PromiseInv
<1>2. CASE Refuse
  <2>1. NewEnd - now \in Nat BY <1>2, CountType DEF Refuse
  <2>2. RetryAfter * Second > NewEnd - now /\ RetryAfter \in Nat BY <2>1, RoundedUp DEF RetryAfter
  <2>3. RetryAfter * Second \in Nat BY <2>2
  <2>4. now \in Nat BY DEF TierTypeOK
  <2>5. windowEnd' = NewEnd /\ windowEnd' \in 0..(now + TierWindow)
    BY <1>2, CountType DEF Refuse
  <2>6. promise' = now + RetryAfter * Second BY <1>2 DEF Refuse
  <2>7. windowEnd' < promise'
    BY <2>1, <2>2, <2>3, <2>4, <2>5, <2>6
  <2> QED BY <2>7 DEF PromiseInv
<1>3. ASSUME NEW a \in Admins, NEW t \in Tiers, SetTier(a, t) PROVE PromiseInv'
  BY <1>3 DEF SetTier, PromiseInv
<1>4. ASSUME NEW a \in Admins, PersistTier(a) \/ PersistFails(a) PROVE PromiseInv'
  BY <1>4 DEF PersistTier, PersistFails, PromiseInv, entry
<1>5. CASE CleanupOnce
  BY <1>5 DEF CleanupOnce, PromiseInv
<1>6. CASE Restart
  BY <1>6 DEF Restart, StartWith, ToLoad, PromiseInv, TierTypeOK
<1>7. CASE RestartLoadFails
  BY <1>7 DEF RestartLoadFails, StartWith, PromiseInv, TierTypeOK
<1>8. CASE TierTick
  BY <1>8 DEF TierTick, PromiseInv, entry
<1>9. CASE UNCHANGED tierVars
  BY <1>9 DEF tierVars, PromiseInv, entry
<1> QED
  BY <1>1, <1>2, <1>3, <1>4, <1>5, <1>6, <1>7, <1>8, <1>9 DEF TierNext

(* A user who waits as long as Retry-After says (rate_limit_tiers.go:122)   *)
(* is let through, whatever happens in the meantime.                        *)
THEOREM RetryIsHonestHolds == TierSpec => []RetryIsHonest
<1>1. TierInit => PromiseInv BY DEF TierInit, PromiseInv
<1>2. TierTypeOK /\ PromiseInv => RetryIsHonest
  BY TierAssumption DEF TierTypeOK, PromiseInv, RetryIsHonest, GetRemaining, OpensWindow, GetTier
<1> QED BY <1>1, <1>2, TierInitType, TierNextType, NextPromise, PTL DEF TierSpec

-----------------------------------------------------------------------------
(* Tiers in memory and in the database.                                     *)

RowTier == IF row = 0 THEN Free ELSE row

\* Without an excuse one change at most is under way; it has set the limiter, and
\* otherwise limiter and row agree.
AgreeInv ==
  ~excused =>
    /\ \A a \in Admins : AtWork(a) => GetTier = want[a] /\ \A b \in Admins : AtWork(b) => b = a
    /\ (\A a \in Admins : ~AtWork(a)) => GetTier = RowTier

LEMMA NextAgree == TierTypeOK /\ AgreeInv /\ [TierNext]_tierVars => AgreeInv'
<1> SUFFICES ASSUME TierTypeOK, AgreeInv, [TierNext]_tierVars PROVE AgreeInv'
  OBVIOUS
<1> USE TierAssumption DEF AgreeInv, AtWork, GetTier, RowTier, TierTypeOK
<1>1. CASE Admit \/ Refuse
  BY <1>1 DEF Admit, Refuse, Count
<1>2. ASSUME NEW a \in Admins, NEW t \in Tiers, SetTier(a, t) PROVE AgreeInv'
  BY <1>2 DEF SetTier
<1>3. ASSUME NEW a \in Admins, PersistTier(a) PROVE AgreeInv'
  BY <1>3 DEF PersistTier, entry
<1>4. ASSUME NEW a \in Admins, PersistFails(a) PROVE AgreeInv'
  BY <1>4 DEF PersistFails, entry
<1>5. CASE CleanupOnce
  BY <1>5 DEF CleanupOnce
<1>6. CASE Restart
  BY <1>6 DEF Restart, StartWith, ToLoad
<1>7. CASE RestartLoadFails
  BY <1>7 DEF RestartLoadFails
<1>8. CASE TierTick
  BY <1>8 DEF TierTick, entry
<1>9. CASE UNCHANGED tierVars
  BY <1>9 DEF tierVars, entry
<1> QED
  BY <1>1, <1>2, <1>3, <1>4, <1>5, <1>6, <1>7, <1>8, <1>9 DEF TierNext

(* The limiter enforces the tier in the database, unless the last start     *)
(* could not load it or, since then, changes of tier overlapped, one was    *)
(* not stored, or the cleanup removed the entry (rate_limit_tiers.go:190,   *)
(* 258-282 and 342-346).                                                    *)
THEOREM TierMatchesRowHolds == TierSpec => []TierMatchesRow
<1>1. TierInit => AgreeInv BY TierAssumption DEF TierInit, AgreeInv, AtWork, GetTier, RowTier
<1>2. AgreeInv => TierMatchesRow BY DEF AgreeInv, TierMatchesRow, RowTier
<1> QED BY <1>1, <1>2, TierInitType, TierNextType, NextAgree, PTL DEF TierSpec

-----------------------------------------------------------------------------
(* Bursts.                                                                  *)

\* What the present window has let through.
ThisWindow == IF count <= tier THEN count ELSE tier

\* In which window requests passed: without an entry, all of them more than a window ago;
\* with one, those before its window more than a window before its end, and all but a
\* burst of these more than two.
BurstAt(i) ==
  /\ ~present => passed[i] + TierWindow < now
  /\ present =>
       /\ passed[i] <= windowEnd
       /\ i <= Len(passed) - ThisWindow => passed[i] + TierWindow < windowEnd
       /\ i <= Len(passed) - ThisWindow - tier => passed[i] + 2 * TierWindow < windowEnd

TierBurstInv == \A i \in 1..Len(passed) : BurstAt(i)

LEMMA AdmitBurst == TierTypeOK /\ TierBurstInv /\ Admit => TierBurstInv'
<1> SUFFICES ASSUME TierTypeOK, TierBurstInv, Admit PROVE TierBurstInv'
  OBVIOUS
<1> USE TierAssumption
<1>1. /\ now \in Nat /\ count \in Nat /\ tier \in Nat \ {0} /\ windowEnd \in Nat /\ Len(passed) \in Nat
      /\ \A i \in 1..Len(passed) : passed[i] \in Nat
  BY DEF TierTypeOK
<1>2. /\ Len(passed') = Len(passed) + 1
      /\ \A i \in 1..Len(passed) : passed'[i] = passed[i]
      /\ passed'[Len(passed) + 1] = now
  BY DEF Admit, TierTypeOK
<1>3. /\ present' = TRUE /\ tier' = GetTier /\ count' <= tier' /\ tier' \in Nat \ {0}
      /\ windowEnd' = NewEnd /\ count' = IF OpensWindow THEN 1 ELSE count + 1
  BY DEF Admit, Count, GetTier, TierTypeOK
<1>4. ThisWindow' = count'
  BY <1>3 DEF ThisWindow
<1>5. CASE ~present
  <2>1. windowEnd' = now + TierWindow /\ count' = 1
    BY <1>3, <1>5 DEF NewEnd, OpensWindow
  <2>2. \A i \in 1..Len(passed) : passed[i] + TierWindow < now
    BY <1>5 DEF TierBurstInv, BurstAt
  <2>3. ASSUME NEW i \in 1..Len(passed') PROVE BurstAt(i)'
    <3>1. CASE i = Len(passed) + 1
      BY <1>1, <1>2, <1>3, <1>4, <2>1, <3>1 DEF BurstAt
    <3>2. CASE i # Len(passed) + 1
      <4>1. i \in 1..Len(passed) /\ passed'[i] = passed[i] /\ passed[i] \in Nat
        BY <1>1, <1>2, <3>2
      <4> QED BY <1>1, <1>2, <1>3, <1>4, <2>1, <2>2, <4>1 DEF BurstAt
    <3> QED BY <3>1, <3>2
  <2> QED BY <2>3 DEF TierBurstInv
<1>6. CASE present /\ now > windowEnd
  <2>1. windowEnd' = now + TierWindow /\ count' = 1 /\ tier' = tier
    BY <1>3, <1>6 DEF NewEnd, OpensWindow, GetTier
  <2>2. \A i \in 1..Len(passed) :
          /\ passed[i] < now
          /\ i <= Len(passed) - tier => passed[i] + TierWindow < now
    BY <1>1, <1>6 DEF TierBurstInv, BurstAt, ThisWindow
  <2>3. ASSUME NEW i \in 1..Len(passed') PROVE BurstAt(i)'
    <3>1. CASE i = Len(passed) + 1
      BY <1>1, <1>2, <1>3, <1>4, <2>1, <3>1 DEF BurstAt
    <3>2. CASE i # Len(passed) + 1
      <4>1. i \in 1..Len(passed) /\ passed'[i] = passed[i] /\ passed[i] \in Nat
        BY <1>1, <1>2, <3>2
      <4> QED BY <1>1, <1>2, <1>3, <1>4, <2>1, <2>2, <4>1 DEF BurstAt
    <3> QED BY <3>1, <3>2
  <2> QED BY <2>3 DEF TierBurstInv
<1>7. CASE present /\ ~(now > windowEnd)
  <2>1. windowEnd' = windowEnd /\ count' = count + 1 /\ tier' = tier
    BY <1>3, <1>7 DEF NewEnd, OpensWindow, GetTier
  <2>2. ThisWindow = count
    BY <1>1, <1>3, <2>1 DEF ThisWindow
  <2>3. ASSUME NEW i \in 1..Len(passed') PROVE BurstAt(i)'
    <3>1. CASE i = Len(passed) + 1
      BY <1>1, <1>2, <1>3, <1>4, <1>7, <2>1, <3>1 DEF BurstAt
    <3>2. CASE i # Len(passed) + 1
      <4>1. i \in 1..Len(passed) /\ passed'[i] = passed[i] /\ passed[i] \in Nat
        BY <1>1, <1>2, <3>2
      <4>2. BurstAt(i)
        BY <4>1 DEF TierBurstInv
      <4> QED BY <1>1, <1>2, <1>3, <1>4, <1>7, <2>1, <2>2, <4>1, <4>2 DEF BurstAt
    <3> QED BY <3>1, <3>2
  <2> QED BY <2>3 DEF TierBurstInv
<1> QED BY <1>5, <1>6, <1>7

LEMMA NextBurst == TierTypeOK /\ TierBurstInv /\ [TierNext]_tierVars => TierBurstInv'
<1> SUFFICES ASSUME TierTypeOK, TierBurstInv, [TierNext]_tierVars PROVE TierBurstInv'
  OBVIOUS
<1> USE TierAssumption
<1>1. CASE Admit
  BY <1>1, AdmitBurst
<1>2. CASE Refuse
  <2>1. /\ present' = TRUE /\ tier' = GetTier /\ count' > tier' /\ tier' \in Nat \ {0}
        /\ windowEnd' = NewEnd /\ count' = (IF OpensWindow THEN 1 ELSE count + 1) /\ passed' = passed
    BY <1>2 DEF Refuse, Count, GetTier, TierTypeOK
  <2>2. present /\ ~(now > windowEnd)
    BY <2>1 DEF OpensWindow
  <2>3. tier' = tier /\ windowEnd' = windowEnd /\ count' = count + 1
    BY <2>1, <2>2 DEF OpensWindow, NewEnd, GetTier
  <2>4. ThisWindow = tier /\ ThisWindow' = tier
    BY <2>1, <2>3 DEF ThisWindow, TierTypeOK
  <2> QED BY <2>1, <2>2, <2>3, <2>4 DEF TierBurstInv, BurstAt
<1>3. ASSUME NEW a \in Admins, NEW t \in Tiers, SetTier(a, t) PROVE TierBurstInv'
  <2>1. passed' = <<>>
    BY <1>3 DEF SetTier
  <2> QED BY <2>1 DEF TierBurstInv
<1>4. ASSUME NEW a \in Admins, PersistTier(a) \/ PersistFails(a) PROVE TierBurstInv'
  BY <1>4 DEF PersistTier, PersistFails, entry, TierBurstInv, BurstAt, ThisWindow
<1>5. CASE CleanupOnce
  <2>1. present /\ now > windowEnd /\ now - windowEnd > Grace /\ present' = FALSE /\ UNCHANGED <<passed, now>>
    BY <1>5 DEF CleanupOnce, EntryStale
  <2>2. \A i \in 1..Len(passed) : passed[i] <= windowEnd /\ passed[i] \in Nat
    BY <2>1 DEF TierBurstInv, BurstAt, TierTypeOK
  <2>3. now \in Nat /\ windowEnd \in Nat
    BY DEF TierTypeOK
  <2>4. \A i \in 1..Len(passed) : passed[i] + TierWindow < now
    BY <2>1, <2>2, <2>3
  <2> QED BY <2>1, <2>4 DEF TierBurstInv, BurstAt
<1>6. CASE Restart
  <2>1. passed' = <<>>
    BY <1>6 DEF Restart, StartWith
  <2> QED BY <2>1 DEF TierBurstInv
<1>7. CASE RestartLoadFails
  <2>1. passed' = <<>>
    BY <1>7 DEF RestartLoadFails, StartWith
  <2> QED BY <2>1 DEF TierBurstInv
<1>8. CASE TierTick
  <2>1. UNCHANGED <<present, passed, windowEnd, tier, count>> /\ now' = now + 1 /\ now \in Nat
    BY <1>8 DEF TierTick, entry, TierTypeOK
  <2>2. \A i \in 1..Len(passed) : passed[i] \in Nat
    BY DEF TierTypeOK
  <2> QED BY <2>1, <2>2 DEF TierBurstInv, BurstAt, ThisWindow
<1>9. CASE UNCHANGED tierVars
  BY <1>9 DEF tierVars, entry, TierBurstInv, BurstAt, ThisWindow
<1> QED
  BY <1>1, <1>2, <1>3, <1>4, <1>5, <1>6, <1>7, <1>8, <1>9 DEF TierNext

(* At most two bursts of the tier pass in the length of a window, for all   *)
(* tiers and window lengths and with the cleanup at any moment, as it waits *)
(* longer than a window (rate_limit_tiers.go:108-120 and 190).              *)
THEOREM AtMostTwoBurstsHolds == TierSpec => []AtMostTwoBursts
<1>1. TierInit => TierBurstInv
  BY DEF TierInit, TierBurstInv
<1>2. TierTypeOK /\ TierBurstInv => AtMostTwoBursts
  <2> SUFFICES ASSUME TierTypeOK, TierBurstInv, Len(passed) > 2 * GetTier
               PROVE  passed[Len(passed) - 2 * GetTier] + TierWindow < now
    BY DEF AtMostTwoBursts
  <2>1. /\ now \in Nat /\ count \in Nat /\ tier \in Nat \ {0} /\ GetTier \in Nat \ {0}
        /\ windowEnd \in Nat /\ windowEnd <= now + TierWindow /\ Len(passed) \in Nat
        /\ \A i \in 1..Len(passed) : passed[i] \in Nat
    BY TierAssumption DEF TierTypeOK, GetTier
  <2>2. PICK i \in 1..Len(passed) : i = Len(passed) - 2 * GetTier
    <3>1. Len(passed) - 2 * GetTier \in 1..Len(passed)
      BY <2>1
    <3> QED BY <3>1
  <2>3. CASE ~present
    BY <2>2, <2>3 DEF TierBurstInv, BurstAt
  <2>4. CASE present
    <3>1. GetTier = tier /\ ThisWindow <= tier /\ ThisWindow \in Nat
      BY <2>1, <2>4 DEF GetTier, ThisWindow
    <3>2. i <= Len(passed) - ThisWindow - tier
      BY <2>1, <2>2, <3>1
    <3>3. passed[i] + 2 * TierWindow < windowEnd
      BY <2>4, <3>2 DEF TierBurstInv, BurstAt
    <3>4. passed[i] + TierWindow < now
      BY <2>1, <3>3, TierAssumption
    <3> QED BY <2>2, <3>4
  <2> QED BY <2>3, <2>4
<1> QED BY <1>1, <1>2, TierInitType, TierNextType, NextBurst, PTL DEF TierSpec
=============================================================================
