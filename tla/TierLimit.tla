------------------------------ MODULE TierLimit ------------------------------
(***************************************************************************)
(* The per-user limit on HTTP requests with its tiers                      *)
(* (server/rate_limit_tiers.go), for one user: the entry in memory with    *)
(* its fixed window, the tier in the database, administrators that change  *)
(* it, the periodic cleanup and restarts.                                  *)
(*                                                                         *)
(* A tier is the number of requests it allows in a window (60, 300, 1500); *)
(* all windows are a minute long.  Every method of the limiter holds       *)
(* trl.mu and is one step; changing the limiter and the row in the         *)
(* database are two.  Time is counted in ticks, Second of them to a        *)
(* second.                                                                 *)
(***************************************************************************)
EXTENDS Naturals, Sequences

CONSTANTS Tiers, Free, \* tiers and the one of a user without an entry
          TierWindow,  \* length of a window
          Second,      \* one second
          Grace,       \* how long an expired entry is kept (10 minutes)
          Admins,      \* requests to change the tier; each is made once
          MaxTime,     \* bound on the clock
          MaxRequests  \* bound on the requests of the user

ASSUME TierAssumption ==
  /\ Tiers \subseteq Nat \ {0} /\ Free \in Tiers
  /\ TierWindow \in Nat \ {0} /\ Second \in Nat \ {0}
  /\ Grace \in Nat /\ Grace >= TierWindow
  /\ MaxTime \in Nat /\ MaxRequests \in Nat

VARIABLES
  now,
  present, tier, count, windowEnd,  \* trl.limits[userID]
  row,       \* the tier in user_rate_limit_tiers, 0 without a row
  admin,     \* how far each request to change the tier is
  want,      \* the tier it asks for
  requests,  \* requests of the user so far
  passed,    \* when requests were allowed, since the last change or restart
  promise,   \* when the Retry-After of the last refusal is over, 0 if none is due
  excused    \* why memory and row may differ: see TierMatchesRow

entry == <<present, tier, count, windowEnd>>
tierVars == <<now, entry, row, admin, want, requests, passed, promise, excused>>

\* An empty limiter and no row.
TierInit ==
  /\ now = 0
  /\ present = FALSE /\ tier = Free /\ count = 0 /\ windowEnd = 0
  /\ row = 0
  /\ admin = [a \in Admins |-> "idle"]
  /\ want = [a \in Admins |-> Free]
  /\ requests = 0
  /\ passed = <<>>
  /\ promise = 0
  /\ excused = FALSE

-----------------------------------------------------------------------------

\* GetTier
GetTier == IF present THEN tier ELSE Free

\* A request now opens a window: there is no entry, or its window is over.
OpensWindow == ~present \/ now > windowEnd

\* GetRemaining
GetRemaining ==
  IF OpensWindow THEN GetTier ELSE IF count < tier THEN tier - count ELSE 0

NewEnd == IF OpensWindow THEN now + TierWindow ELSE windowEnd

\* What Allow does to the entry, whatever it answers.
Count ==
  /\ requests < MaxRequests
  /\ requests' = requests + 1
  /\ present' = TRUE
  /\ tier' = GetTier
  /\ count' = IF OpensWindow THEN 1 ELSE count + 1
  /\ windowEnd' = NewEnd
  /\ UNCHANGED <<now, row, admin, want, excused>>

\* Allow: true.
Admit ==
  /\ Count
  /\ count' <= tier'
  /\ passed' = Append(passed, now)
  /\ promise' = 0

\* Defect: what is left of a second is not waited for.
RetryAfterRoundedDown == (NewEnd - now) \div Second

\* Retry-After, in seconds.
RetryAfter == (NewEnd - now) \div Second + 1

\* Allow: false.
Refuse ==
  /\ Count
  /\ count' > tier'
  /\ promise' = now + RetryAfter * Second
  /\ UNCHANGED passed

-----------------------------------------------------------------------------

AtWork(a) == admin[a] = "persist"

\* SetTier: the window starts anew.
SetTier(a, t) ==
  /\ admin[a] = "idle"
  /\ admin' = [admin EXCEPT ![a] = "persist"]
  /\ want' = [want EXCEPT ![a] = t]
  /\ present' = TRUE
  /\ tier' = t
  /\ count' = 0
  /\ windowEnd' = now + TierWindow
  /\ passed' = <<>>
  /\ excused' = (excused \/ \E b \in Admins : AtWork(b))
  /\ UNCHANGED <<now, row, requests, promise>>

PersistTier(a) ==
  /\ AtWork(a)
  /\ admin' = [admin EXCEPT ![a] = "done"]
  /\ row' = want[a]
  /\ UNCHANGED <<now, entry, want, requests, passed, promise, excused>>

\* A failure, for one because there is no such user, is logged.
PersistFails(a) ==
  /\ AtWork(a)
  /\ admin' = [admin EXCEPT ![a] = "done"]
  /\ excused' = TRUE
  /\ UNCHANGED <<now, entry, row, want, requests, passed, promise>>

\* Defect: an entry is removed as soon as the ticker meets it.
AnyEntry == TRUE

EntryStale == now > windowEnd /\ now - windowEnd > Grace

\* The entry goes, and with it a tier that is not in the code's default.
CleanupOnce ==
  /\ present /\ EntryStale
  /\ present' = FALSE /\ tier' = Free /\ count' = 0 /\ windowEnd' = 0
  /\ excused' = (excused \/ tier # Free)
  /\ UNCHANGED <<now, row, admin, want, requests, passed, promise>>

\* Defect: tiers are not loaded at start.
NothingToLoad == FALSE

\* loadTiersFromDB skips the tier that users have anyway.
ToLoad == row \notin {0, Free}

\* The process ends and starts with an entry of the user, or without one.
StartWith(loaded) ==
  /\ present' = loaded
  /\ tier' = IF loaded THEN row ELSE Free
  /\ count' = 0
  /\ windowEnd' = IF loaded THEN now + TierWindow ELSE 0
  /\ admin' = [a \in Admins |-> IF AtWork(a) THEN "cut" ELSE admin[a]]
  /\ passed' = <<>>
  /\ UNCHANGED <<now, row, want, requests, promise>>

\* The process restarts; loadTiersFromDB.
Restart ==
  /\ StartWith(ToLoad)
  /\ excused' = FALSE

\* The query, its cursor or the scan of the row fails: main starts the server
\* all the same, without the tier of the user.
RestartLoadFails ==
  /\ ToLoad
  /\ StartWith(FALSE)
  /\ excused' = TRUE

TierTick ==
  /\ now < MaxTime
  /\ now' = now + 1
  /\ UNCHANGED <<entry, row, admin, want, requests, passed, promise, excused>>

TierNext ==
  \/ Admit
  \/ Refuse
  \/ \E a \in Admins : (\E t \in Tiers : SetTier(a, t)) \/ PersistTier(a) \/ PersistFails(a)
  \/ CleanupOnce
  \/ Restart
  \/ RestartLoadFails
  \/ TierTick

TierSpec == TierInit /\ [][TierNext]_tierVars

-----------------------------------------------------------------------------
(* Properties.                                                              *)

(* Types of the limiter; a window never ends later than one window from now *)
(* (rate_limit_tiers.go:103 and 111), so nobody is locked out for longer.   *)
TierTypeOK ==
  /\ now \in 0..MaxTime
  /\ present \in BOOLEAN
  /\ tier \in Tiers
  /\ count \in Nat
  /\ windowEnd \in 0..(now + TierWindow)
  /\ row \in Tiers \cup {0}
  /\ admin \in [Admins -> {"idle", "persist", "done", "cut"}]
  /\ want \in [Admins -> Tiers]
  /\ requests \in 0..MaxRequests
  /\ passed \in Seq(0..MaxTime)
  /\ promise \in Nat
  /\ excused \in BOOLEAN

(* In no stretch of time of one window's length does a user get through     *)
(* more than two bursts of his tier, cleanups included, as long as nobody   *)
(* changes it and the server does not restart (fixed windows,               *)
(* rate_limit_tiers.go:108-120 and 190): the request before the last two    *)
(* bursts is older than a window.                                           *)
AtMostTwoBursts ==
  Len(passed) > 2 * GetTier => passed[Len(passed) - 2 * GetTier] + TierWindow < now

(* A user who was refused and waits for as long as Retry-After says         *)
(* (rate_limit_tiers.go:122) is let through, whatever administrators, the   *)
(* cleanup and restarts do in the meantime.                                 *)
RetryIsHonest == promise > 0 /\ now >= promise => GetRemaining > 0

(* When no change of tier is under way, the limiter enforces the tier in    *)
(* the database, unless the last start could not load it                    *)
(* (rate_limit_tiers.go:258-268 and 282, the error ignored at main.go:521)  *)
(* or, since that start, two changes overlapped, one was not stored, or the *)
(* cleanup removed the entry with its tier (190 and 342-346).  A change     *)
(* that a crash cut short does not excuse it: the start loads what the row  *)
(* says, and no trace of the other tier is left.                            *)
TierMatchesRow ==
  ~excused /\ (\A a \in Admins : ~AtWork(a)) => GetTier = IF row = 0 THEN Free ELSE row
=============================================================================
