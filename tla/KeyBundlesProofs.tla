-------------------------- MODULE KeyBundlesProofs --------------------------
(***************************************************************************)
(* Theorems about KeyBundles, for any number of requests and faults.       *)
(***************************************************************************)
EXTENDS KeyBundles, FiniteSetTheorems, TLAPS

Steps == {"idle", "select", "delete", "stamp", "insert", "identity", "signed",
          "onetime", "consume", "answered", "refused", "cut"}

\* A request that has not begun has read and written nothing.
IdleInv ==
  \A r \in Requests : pc[r] = "idle" => op[r] = None

\* Which steps belong to which request, and that a bundle past its first step has a key.
StepInv ==
  \A r \in Requests :
    /\ pc[r] \in {"select", "delete"} => op[r] = "identity"
    /\ pc[r] = "insert" => op[r] \in Types
    /\ op[r] = "bundle" /\ pc[r] \in {"signed", "onetime", "consume", "answered"}
         => gotIdentity[r] # None
    /\ pc[r] = "delete" => gotIdentity[r] # None

\* Rows come from uploads that were answered.
RowInv == \A k \in rows : op[k] \in Types /\ pc[k] = "answered"

\* What a request has read was uploaded, by an upload of that type that was answered.
GotInv ==
  \A r \in Requests :
    /\ gotIdentity[r] # None => op[gotIdentity[r]] = "identity"
    /\ gotOneTime[r] # None =>
         /\ op[gotOneTime[r]] = "onetime" /\ pc[gotOneTime[r]] = "answered"
         /\ op[r] = "bundle" /\ pc[r] \in {"consume", "answered", "cut"}
    /\ pc[r] = "consume" => gotOneTime[r] # None

\* The first of an ordered pair has ended, and the second has begun.
BeforeInv == \A r, s \in Requests : <<r, s>> \in before => Ended(r) /\ pc[s] # "idle"

TypeInv == TypeOK /\ IdleInv /\ StepInv /\ RowInv /\ GotInv /\ BeforeInv

USE DEF Steps, Types

LEMMA StampType == \A S \in SUBSET Requests : Cardinality(S) \in Nat
  BY FS_Subset, FS_CardinalityType, KeyAssumption

LEMMA InitType == Init => TypeInv
  BY KeyAssumption
  DEF Init, TypeInv, TypeOK, IdleInv, StepInv, RowInv, GotInv, BeforeInv, At, Ended

\* Every kind of step preserves the types and what goes with them.
LEMMA NextType == TypeInv /\ [Next]_vars => TypeInv'
<1> SUFFICES ASSUME TypeInv, [Next]_vars PROVE TypeInv'
  OBVIOUS
<1> USE KeyAssumption
<1>1. ASSUME NEW r \in Requests, NEW type \in Types, NEW k \in KeyIds, BeginUpload(r, type, k)
      PROVE TypeInv'
  <2> USE <1>1
  <2>1. TypeOK' BY DEF BeginUpload, FirstStep, Begin, Goto, got, TypeInv, TypeOK, At, Ended
  <2>2. (IdleInv /\ StepInv /\ RowInv /\ GotInv)'
    BY DEF BeginUpload, FirstStep, Begin, Goto, got, TypeInv, TypeOK, IdleInv, StepInv, RowInv, GotInv
  <2>3. BeforeInv' BY DEF BeginUpload, FirstStep, Begin, Goto, got, TypeInv, TypeOK, BeforeInv, Ended
  <2> QED BY <2>1, <2>2, <2>3 DEF TypeInv
<1>2. ASSUME NEW r \in Requests, BeginBundle(r) PROVE TypeInv'
  <2> USE <1>2
  <2>1. TypeOK' BY DEF BeginBundle, Begin, Goto, got, TypeInv, TypeOK, At, Ended
  <2>2. (IdleInv /\ StepInv /\ RowInv /\ GotInv)'
    BY DEF BeginBundle, Begin, Goto, got, TypeInv, TypeOK, IdleInv, StepInv, RowInv, GotInv
  <2>3. BeforeInv' BY DEF BeginBundle, Begin, Goto, got, TypeInv, TypeOK, BeforeInv, Ended
  <2> QED BY <2>1, <2>2, <2>3 DEF TypeInv
<1>3. ASSUME NEW r \in Requests, SignedStamp(r) PROVE TypeInv'
  <2>1. Cardinality({s \in Requests : created[s] > 0}) \in Nat
    BY StampType
  <2> QED BY <1>3, <2>1 DEF SignedStamp, At, Goto, got, TypeInv, TypeOK, IdleInv, StepInv, RowInv,
       GotInv, BeforeInv, Ended
<1>4. ASSUME NEW r \in Requests, IdentitySelect(r) PROVE TypeInv'
  BY <1>4 DEF IdentitySelect, At, Goto, Fails, Keys, got, request, TypeInv, TypeOK, IdleInv, StepInv,
     RowInv, GotInv, BeforeInv, Ended
<1>5. ASSUME NEW r \in Requests, IdentityDelete(r) PROVE TypeInv'
  BY <1>5 DEF IdentityDelete, At, Goto, Fails, Replaced, got, request, TypeInv, TypeOK, IdleInv,
     StepInv, RowInv, GotInv, BeforeInv, Ended
<1>6. ASSUME NEW r \in Requests, Insert(r) PROVE TypeInv'
  BY <1>6 DEF Insert, At, Goto, Fails, got, request, TypeInv, TypeOK, IdleInv,
     StepInv, RowInv, GotInv, BeforeInv, Ended
<1>7. ASSUME NEW r \in Requests, BundleIdentity(r) PROVE TypeInv'
  BY <1>7 DEF BundleIdentity, At, Goto, Fails, Keys, got, request, TypeInv, TypeOK, IdleInv, StepInv,
     RowInv, GotInv, BeforeInv, Ended
<1>8. ASSUME NEW r \in Requests, BundleSigned(r) PROVE TypeInv'
  BY <1>8 DEF BundleSigned, At, Goto, Fails, Keys, got, request, TypeInv, TypeOK, IdleInv, StepInv,
     RowInv, GotInv, BeforeInv, Ended
<1>9. ASSUME NEW r \in Requests, BundleOneTime(r) PROVE TypeInv'
  BY <1>9 DEF BundleOneTime, At, Goto, Fails, Keys, got, request, TypeInv, TypeOK, IdleInv, StepInv,
     RowInv, GotInv, BeforeInv, Ended
<1>10. ASSUME NEW r \in Requests, BundleConsume(r) PROVE TypeInv'
  BY <1>10 DEF BundleConsume, At, Goto, Fails, Consumed, got, request, TypeInv, TypeOK, IdleInv,
     StepInv, RowInv, GotInv, BeforeInv, Ended
<1>11. CASE Crash
  BY <1>11 DEF Crash, InFlight, got, request, TypeInv, TypeOK, IdleInv,
     StepInv, RowInv, GotInv, BeforeInv, Ended, At
<1>12. CASE UNCHANGED vars
  BY <1>12 DEF vars, got, request, TypeInv, TypeOK, IdleInv, StepInv, RowInv, GotInv, BeforeInv,
     Ended, At
<1> QED
  BY <1>1, <1>2, <1>3, <1>4, <1>5, <1>6, <1>7, <1>8, <1>9, <1>10, <1>11, <1>12 DEF Next

(* Types hold in every reachable state, and a bundle that is answered has   *)
(* an identity key (e2e.go:158-162).                                        *)
THEOREM TypeOKHolds == Spec => []TypeOK
<1>1. TypeInv => TypeOK BY DEF TypeInv
<1> QED BY <1>1, InitType, NextType, PTL DEF Spec

-----------------------------------------------------------------------------
(* One-time keys.                                                           *)

\* The key in a bundle that was answered without a failure is no longer in the table.
ConsumedInv ==
  \A b \in Requests :
    At(b, "bundle", "answered") /\ b \notin faulty /\ gotOneTime[b] # None
      => gotOneTime[b] \notin rows

OneTimeInv == ConsumedInv /\ OneTimeKeyOnce /\ KeysAccounted

LEMMA InitOneTime == Init => OneTimeInv
  BY KeyAssumption DEF Init, OneTimeInv, ConsumedInv, OneTimeKeyOnce, KeysAccounted, At

\* A step that deletes only a key that a request has taken, or one of another type, and
\* stores only the key of the request that makes it, keeps the three facts.
LEMMA NextOneTime == TypeInv /\ OneTimeInv /\ [Next]_vars => OneTimeInv'
<1> SUFFICES ASSUME TypeInv, OneTimeInv, [Next]_vars PROVE OneTimeInv'
  OBVIOUS
<1> USE KeyAssumption DEF OneTimeInv, ConsumedInv, OneTimeKeyOnce, KeysAccounted, TypeInv,
       TypeOK, At, Goto
<1>1. ASSUME NEW r \in Requests, NEW type \in Types, NEW k \in KeyIds, BeginUpload(r, type, k)
      PROVE OneTimeInv'
  BY <1>1 DEF BeginUpload, FirstStep, Begin, got, IdleInv, GotInv, Ended
<1>2. ASSUME NEW r \in Requests, BeginBundle(r) PROVE OneTimeInv'
  BY <1>2 DEF BeginBundle, Begin, got, IdleInv, GotInv, Ended
<1>3. ASSUME NEW r \in Requests, SignedStamp(r) PROVE OneTimeInv'
  BY <1>3 DEF SignedStamp, got, BeforeInv, Ended
<1>4. ASSUME NEW r \in Requests, IdentitySelect(r) PROVE OneTimeInv'
  BY <1>4 DEF IdentitySelect, Fails, got, request, BeforeInv, Ended
<1>5. ASSUME NEW r \in Requests, IdentityDelete(r) PROVE OneTimeInv'
  BY <1>5 DEF IdentityDelete, Fails, Replaced, got, request, GotInv, BeforeInv, StepInv, Ended
<1>6. ASSUME NEW r \in Requests, Insert(r) PROVE OneTimeInv'
  BY <1>6 DEF Insert, Fails, got, request, GotInv, BeforeInv, Ended
<1>7. ASSUME NEW r \in Requests, BundleIdentity(r) PROVE OneTimeInv'
  BY <1>7 DEF BundleIdentity, Fails, got, request, BeforeInv, Ended
<1>8. ASSUME NEW r \in Requests, BundleSigned(r) PROVE OneTimeInv'
  BY <1>8 DEF BundleSigned, Fails, got, request, BeforeInv, Ended
<1>9. ASSUME NEW r \in Requests, BundleOneTime(r) PROVE OneTimeInv'
  BY <1>9 DEF BundleOneTime, Keys, Fails, got, request, GotInv, BeforeInv, Ended
<1>10. ASSUME NEW r \in Requests, BundleConsume(r) PROVE OneTimeInv'
  BY <1>10 DEF BundleConsume, Fails, Consumed, got, request, GotInv, BeforeInv, Ended
<1>11. CASE Crash
  BY <1>11 DEF Crash, InFlight, got, request, BeforeInv, Ended
<1>12. CASE UNCHANGED vars
  BY <1>12 DEF vars, got, request
<1> QED
  BY <1>1, <1>2, <1>3, <1>4, <1>5, <1>6, <1>7, <1>8, <1>9, <1>10, <1>11, <1>12 DEF Next

(* No two bundles hold the same one-time key unless they were fetched at    *)
(* the same time or the first was not deleted (e2e.go:174-184).             *)
THEOREM OneTimeKeyOnceHolds == Spec => []OneTimeKeyOnce
<1>1. OneTimeInv => OneTimeKeyOnce BY DEF OneTimeInv
<1> QED BY <1>1, InitType, NextType, InitOneTime, NextOneTime, PTL DEF Spec

(* A stored one-time key is in the table until a request takes it           *)
(* (e2e.go:177-183).                                                        *)
THEOREM KeysAccountedHolds == Spec => []KeysAccounted
<1>1. OneTimeInv => KeysAccounted BY DEF OneTimeInv
<1> QED BY <1>1, InitType, NextType, InitOneTime, NextOneTime, PTL DEF Spec

-----------------------------------------------------------------------------
(* Identity keys.                                                           *)

\* An orderly upload deletes the only identity key there is, and stores its own when
\* there is none.
ReplaceInv ==
  ~Disorderly =>
    /\ \A j, k \in Keys("identity") : j = k
    /\ \A r \in Requests : At(r, "identity", "delete") => Keys("identity") \subseteq {gotIdentity[r]}
    /\ \A r \in Requests : At(r, "identity", "insert") => Keys("identity") = {}

\* Two uploads of an identity key that are under way overlap.
LEMMA InFlightOverlap ==
  ASSUME TypeInv, NEW r \in Requests, NEW s \in Requests, r # s, InFlight(r), InFlight(s)
  PROVE Overlap(r, s)
  BY DEF TypeInv, BeforeInv, Overlap, InFlight

\* What has happened stays on the record.
LEMMA DisorderlyStays == TypeInv /\ [Next]_vars /\ Disorderly => Disorderly'
<1> SUFFICES ASSUME TypeInv, [Next]_vars, Disorderly PROVE Disorderly'
  OBVIOUS
<1> USE KeyAssumption
<1> DEFINE Kept == /\ faulty \subseteq faulty'
                   /\ \A r \in Requests : op[r] = "identity" => op'[r] = "identity" /\ pc'[r] # "idle"
                   /\ \A r, s \in Requests :
                        op[s] = "identity" /\ <<r, s>> \notin before => <<r, s>> \notin before'
<1>1. ASSUME NEW r \in Requests, NEW o \in Types \cup {"bundle"}, NEW step \in Steps \ {"idle"},
             Begin(r, o, step)
      PROVE Kept
  BY <1>1 DEF Begin, Goto, TypeInv, TypeOK, IdleInv
<1>2. ASSUME UNCHANGED <<op, before>>, faulty \subseteq faulty',
             \A r \in Requests : pc[r] # "idle" => pc'[r] # "idle"
      PROVE Kept
  BY <1>2 DEF TypeInv, IdleInv
<1>3. ASSUME NEW r \in Requests, NEW step \in Steps \ {"idle"}, Goto(r, step)
      PROVE \A s \in Requests : pc[s] # "idle" => pc'[s] # "idle"
  BY <1>3 DEF Goto, TypeInv, TypeOK
<1>4. Kept
  <2>1. CASE \E r \in Requests : BeginBundle(r) \/ \E type \in Types, k \in KeyIds : BeginUpload(r, type, k)
    BY <2>1, <1>1 DEF BeginBundle, BeginUpload, FirstStep
  <2>2. CASE \E r \in Requests : IdentitySelect(r) \/ IdentityDelete(r) \/ SignedStamp(r) \/ Insert(r)
    BY <2>2, <1>2, <1>3 DEF IdentitySelect, IdentityDelete, SignedStamp, Insert, Fails, request
  <2>3. CASE \E r \in Requests :
               BundleIdentity(r) \/ BundleSigned(r) \/ BundleOneTime(r) \/ BundleConsume(r)
    BY <2>3, <1>2, <1>3 DEF BundleIdentity, BundleSigned, BundleOneTime, BundleConsume, Fails, request
  <2>4. CASE Crash
    BY <2>4, <1>2 DEF Crash, request
  <2>5. CASE UNCHANGED vars
    BY <2>5, <1>2 DEF vars, request
  <2> QED BY <2>1, <2>2, <2>3, <2>4, <2>5 DEF Next
<1> QED BY <1>4 DEF Disorderly, Overlap

LEMMA InitReplace == Init => ReplaceInv
  BY KeyAssumption DEF Init, ReplaceInv, Keys, At

\* A step after which the history is orderly was taken in an orderly one, with at most
\* one upload of an identity key under way.
LEMMA NextReplace == TypeInv /\ ReplaceInv /\ [Next]_vars => ReplaceInv'
<1> SUFFICES ASSUME TypeInv, ReplaceInv, [Next]_vars, ~Disorderly' PROVE ReplaceInv'
  BY DEF ReplaceInv
<1> USE KeyAssumption DEF Goto, TypeInv, TypeOK, At
<1>0. ~Disorderly BY DisorderlyStays
<1>a. \A r, s \in Requests :
        op[r] = "identity" /\ op[s] = "identity" /\ InFlight(r) /\ InFlight(s) => r = s
  BY <1>0, InFlightOverlap DEF Disorderly
<1>b. \A r \in Requests : op'[r] = "identity" => r \notin faulty'
  BY DEF Disorderly
<1> USE <1>0 DEF ReplaceInv, Keys
<1>1. ASSUME NEW r \in Requests, NEW type \in Types, NEW k \in KeyIds, BeginUpload(r, type, k)
      PROVE ReplaceInv'
  BY <1>1 DEF BeginUpload, FirstStep, Begin, got, IdleInv, RowInv
<1>2. ASSUME NEW r \in Requests, BeginBundle(r) PROVE ReplaceInv'
  BY <1>2 DEF BeginBundle, Begin, got, IdleInv, RowInv
<1>3. ASSUME NEW r \in Requests, SignedStamp(r) PROVE ReplaceInv'
  BY <1>3 DEF SignedStamp, got
<1>4. ASSUME NEW r \in Requests, IdentitySelect(r) PROVE ReplaceInv'
  BY <1>4, <1>a, <1>b DEF IdentitySelect, Fails, got, request, InFlight, Ended
<1>5. ASSUME NEW r \in Requests, IdentityDelete(r) PROVE ReplaceInv'
  BY <1>5, <1>a, <1>b DEF IdentityDelete, Fails, Replaced, got, request, InFlight, Ended
<1>6. ASSUME NEW r \in Requests, Insert(r) PROVE ReplaceInv'
  BY <1>6, <1>a DEF Insert, Fails, got, request, InFlight, Ended
<1>7. ASSUME NEW r \in Requests, BundleIdentity(r) PROVE ReplaceInv'
  BY <1>7 DEF BundleIdentity, Fails, got, request
<1>8. ASSUME NEW r \in Requests, BundleSigned(r) PROVE ReplaceInv'
  BY <1>8 DEF BundleSigned, Fails, got, request
<1>9. ASSUME NEW r \in Requests, BundleOneTime(r) PROVE ReplaceInv'
  BY <1>9 DEF BundleOneTime, Fails, got, request
<1>10. ASSUME NEW r \in Requests, BundleConsume(r) PROVE ReplaceInv'
  BY <1>10 DEF BundleConsume, Fails, Consumed, got, request
<1>11. CASE Crash
  BY <1>11 DEF Crash, InFlight, got, request
<1>12. CASE UNCHANGED vars
  BY <1>12 DEF vars, got, request
<1> QED
  BY <1>1, <1>2, <1>3, <1>4, <1>5, <1>6, <1>7, <1>8, <1>9, <1>10, <1>11, <1>12 DEF Next

(* "one identity key per owner" (e2e.go:84), unless uploads overlap or      *)
(* statements fail, however many uploads there are.                         *)
THEOREM OneIdentityHolds == Spec => []OneIdentity
<1>1. ReplaceInv => OneIdentity BY DEF ReplaceInv, OneIdentity
<1> QED BY <1>1, InitType, NextType, InitReplace, NextReplace, PTL DEF Spec

LEMMA InitStays == Init => IdentityStays
  BY KeyAssumption DEF Init, IdentityStays, Keys, At

\* Only the DELETE of an upload takes the last identity key away.
LEMMA NextStays == TypeInv /\ IdentityStays /\ [Next]_vars => IdentityStays'
<1> SUFFICES ASSUME TypeInv, IdentityStays, [Next]_vars PROVE IdentityStays'
  OBVIOUS
<1> USE KeyAssumption DEF Goto, TypeInv, TypeOK, At, IdentityStays, Keys
<1>1. ASSUME NEW r \in Requests, NEW type \in Types, NEW k \in KeyIds, BeginUpload(r, type, k)
      PROVE IdentityStays'
  BY <1>1 DEF BeginUpload, FirstStep, Begin, got, IdleInv, RowInv
<1>2. ASSUME NEW r \in Requests, BeginBundle(r) PROVE IdentityStays'
  BY <1>2 DEF BeginBundle, Begin, got, IdleInv, RowInv
<1>3. ASSUME NEW r \in Requests, SignedStamp(r) PROVE IdentityStays'
  BY <1>3 DEF SignedStamp, got
<1>4. ASSUME NEW r \in Requests, IdentitySelect(r) PROVE IdentityStays'
  BY <1>4 DEF IdentitySelect, Fails, got, request
<1>5. ASSUME NEW r \in Requests, IdentityDelete(r) PROVE IdentityStays'
  BY <1>5 DEF IdentityDelete, Fails, Replaced, got, request, StepInv
<1>6. ASSUME NEW r \in Requests, Insert(r) PROVE IdentityStays'
  BY <1>6 DEF Insert, Fails, got, request
<1>7. ASSUME NEW r \in Requests, BundleIdentity(r) PROVE IdentityStays'
  BY <1>7 DEF BundleIdentity, Fails, got, request
<1>8. ASSUME NEW r \in Requests, BundleSigned(r) PROVE IdentityStays'
  BY <1>8 DEF BundleSigned, Fails, got, request
<1>9. ASSUME NEW r \in Requests, BundleOneTime(r) PROVE IdentityStays'
  BY <1>9 DEF BundleOneTime, Fails, got, request
<1>10. ASSUME NEW r \in Requests, BundleConsume(r) PROVE IdentityStays'
  BY <1>10 DEF BundleConsume, Fails, Consumed, got, request, GotInv
<1>11. CASE Crash
  BY <1>11 DEF Crash, InFlight, Ended, got, request
<1>12. CASE UNCHANGED vars
  BY <1>12 DEF vars, got, request
<1> QED
  BY <1>1, <1>2, <1>3, <1>4, <1>5, <1>6, <1>7, <1>8, <1>9, <1>10, <1>11, <1>12 DEF Next

(* An owner with an identity key has one again after every replacement      *)
(* (e2e.go:84-103) that was neither cut short nor refused.                  *)
THEOREM IdentityStaysHolds == Spec => []IdentityStays
  BY InitType, NextType, InitStays, NextStays, PTL DEF Spec

-----------------------------------------------------------------------------
(* What a bundle holds is current.                                          *)

\* The requests that have asked for the time.
Stamped == {s \in Requests : created[s] > 0}

\* Times of signed keys: who has one, that none is in the future, and that an
\* upload that began after another had ended has a later one.
StampInv ==
  /\ \A r \in Requests : created[r] > 0 => op[r] = "signed" /\ pc[r] \notin {"idle", "stamp"}
  /\ \A r \in Requests : op[r] = "signed" /\ pc[r] \in {"insert", "answered"} => created[r] > 0
  /\ \A r \in Requests : created[r] <= Cardinality(Stamped)
  /\ \A u, v \in Requests :
       <<u, v>> \in before /\ created[u] > 0 /\ created[v] > 0 => created[u] < created[v]

\* A signed key that was stored stays, and a bundle has read one or none.
SignedInv ==
  /\ \A r \in Requests : At(r, "signed", "answered") => r \in rows
  /\ \A b \in Requests : gotSigned[b] # None =>
       op[gotSigned[b]] = "signed" /\ pc[b] \notin {"idle", "identity", "signed"}

\* Nothing is read before a request begins; an identity key whose replacement was
\* answered is gone.
IdentityInv ==
  /\ \A b \in Requests : pc[b] = "idle" => gotIdentity[b] = None
  /\ \A b \in Requests : op[b] = "bundle" /\ gotIdentity[b] # None => pc[b] # "identity"
  /\ ~Disorderly => \A u, v \in Requests :
       <<u, v>> \in before /\ op[u] = "identity" /\ At(v, "identity", "answered") => u \notin rows

CurrentInv == StampInv /\ SignedInv /\ IdentityInv /\ BundleIsCurrent

LEMMA InitCurrent == Init => CurrentInv
<1> SUFFICES ASSUME Init PROVE CurrentInv
  OBVIOUS
<1> USE KeyAssumption
<1>1. StampInv
  <2>1. Cardinality(Stamped) \in Nat
    BY StampType DEF Stamped
  <2> QED BY <2>1 DEF Init, StampInv
<1>2. SignedInv /\ IdentityInv /\ BundleIsCurrent
  BY DEF Init, SignedInv, IdentityInv, BundleIsCurrent, At
<1> QED BY <1>1, <1>2 DEF CurrentInv

\* Asking for the time makes one more request that has.
LEMMA StampStep ==
  ASSUME TypeInv, StampInv, NEW r \in Requests, SignedStamp(r)
  PROVE  StampInv'
<1> USE KeyAssumption
<1> DEFINE n == Cardinality(Stamped)
<1>1. /\ op[r] = "signed" /\ pc[r] = "stamp" /\ created[r] = 0
      /\ created' = [created EXCEPT ![r] = n + 1]
      /\ pc' = [pc EXCEPT ![r] = "insert"]
      /\ UNCHANGED <<op, before>>
  BY DEF SignedStamp, At, Goto, Stamped, StampInv, TypeInv, TypeOK
<1>2. n \in Nat
  BY StampType DEF Stamped
<1>3. IsFiniteSet(Stamped) /\ r \notin Stamped
  <2>1. Stamped \subseteq Requests /\ IsFiniteSet(Requests)
    BY DEF Stamped
  <2>2. IsFiniteSet(Stamped)
    BY <2>1, FS_Subset
  <2> QED BY <1>1, <2>2 DEF Stamped
<1>4. Stamped' = Stamped \cup {r}
  <2> HIDE DEF n
  <2>1. \A u \in Requests : created'[u] = IF u = r THEN n + 1 ELSE created[u]
    BY <1>1 DEF TypeInv, TypeOK
  <2>2. n + 1 > 0
    BY <1>2
  <2> QED BY <2>1, <2>2 DEF Stamped
<1>5. Cardinality(Stamped') = n + 1
  BY <1>3, <1>4, FS_AddElement
<1>6. ~Ended(r)
  BY <1>1 DEF Ended
<1> HIDE DEF n
<1>7. \A u \in Requests : created[u] <= n
  BY DEF StampInv, n
<1>8. \A u \in Requests : created'[u] = IF u = r THEN n + 1 ELSE created[u]
  BY <1>1 DEF TypeInv, TypeOK
<1>9. \A u \in Requests : pc'[u] = IF u = r THEN "insert" ELSE pc[u]
  BY <1>1 DEF TypeInv, TypeOK
<1>10. \A u, v \in Requests : <<u, v>> \in before => u # r
  BY <1>6 DEF TypeInv, BeforeInv
<1>11. \A u, v \in Requests :
         <<u, v>> \in before' /\ created'[u] > 0 /\ created'[v] > 0 => created'[u] < created'[v]
  BY <1>1, <1>2, <1>7, <1>8, <1>10 DEF StampInv, TypeInv, TypeOK
<1>12. \A u \in Requests : created'[u] <= Cardinality(Stamped')
  BY <1>2, <1>5, <1>7, <1>8 DEF TypeInv, TypeOK
<1>13. \A u \in Requests : created'[u] > 0 => op'[u] = "signed" /\ pc'[u] \notin {"idle", "stamp"}
  BY <1>1, <1>8, <1>9 DEF StampInv
<1>14. \A u \in Requests : op'[u] = "signed" /\ pc'[u] \in {"insert", "answered"} => created'[u] > 0
  BY <1>1, <1>2, <1>8, <1>9 DEF StampInv
<1> QED BY <1>11, <1>12, <1>13, <1>14 DEF StampInv

\* Every other step leaves the times alone.
LEMMA StampKept ==
  ASSUME TypeInv, StampInv, UNCHANGED created,
         \A r \in Requests : created[r] > 0 => op'[r] = "signed" /\ pc'[r] \notin {"idle", "stamp"},
         \A r \in Requests : op'[r] = "signed" /\ pc'[r] \in {"insert", "answered"} =>
           op[r] = "signed" /\ pc[r] \in {"insert", "answered"},
         \A u, v \in Requests : <<u, v>> \in before' \ before => created[v] = 0
  PROVE  StampInv'
<1>1. Stamped' = Stamped
  BY DEF Stamped
<1>2. \A u, v \in Requests :
        <<u, v>> \in before' /\ created'[u] > 0 /\ created'[v] > 0 => created'[u] < created'[v]
  BY DEF StampInv
<1> QED BY <1>1, <1>2 DEF StampInv

LEMMA NextStamp == TypeInv /\ StampInv /\ [Next]_vars => StampInv'
<1> SUFFICES ASSUME TypeInv, StampInv, [Next]_vars PROVE StampInv'
  OBVIOUS
<1> USE KeyAssumption DEF Goto, At
<1>0. \A r \in Requests : pc[r] = "idle" => created[r] = 0
  BY DEF StampInv, TypeInv, TypeOK
<1>1. ASSUME NEW r \in Requests, NEW type \in Types, NEW k \in KeyIds, BeginUpload(r, type, k)
      PROVE StampInv'
  BY <1>0, <1>1, StampKept DEF BeginUpload, FirstStep, Begin, StampInv, TypeInv, TypeOK
<1>2. ASSUME NEW r \in Requests, BeginBundle(r) PROVE StampInv'
  BY <1>0, <1>2, StampKept DEF BeginBundle, Begin, StampInv, TypeInv, TypeOK
<1>3. ASSUME NEW r \in Requests, SignedStamp(r) PROVE StampInv'
  BY <1>3, StampStep
<1>4. ASSUME NEW r \in Requests, IdentitySelect(r) \/ IdentityDelete(r) PROVE StampInv'
  BY <1>4, StampKept DEF IdentitySelect, IdentityDelete, Fails, request, StampInv, TypeInv, TypeOK
<1>5. ASSUME NEW r \in Requests, Insert(r) PROVE StampInv'
  BY <1>5, StampKept DEF Insert, Fails, request, StampInv, TypeInv, TypeOK
<1>6. ASSUME NEW r \in Requests,
             BundleIdentity(r) \/ BundleSigned(r) \/ BundleOneTime(r) \/ BundleConsume(r)
      PROVE StampInv'
  BY <1>6, StampKept
     DEF BundleIdentity, BundleSigned, BundleOneTime, BundleConsume, Fails, request, StampInv,
         TypeInv, TypeOK
<1>7. CASE Crash
  BY <1>7, StampKept DEF Crash, InFlight, Ended, request, StampInv, TypeInv, TypeOK
<1>8. CASE UNCHANGED vars
  BY <1>8, StampKept DEF vars, request, StampInv
<1> QED BY <1>1, <1>2, <1>3, <1>4, <1>5, <1>6, <1>7, <1>8 DEF Next

\* Only the keys that were read are deleted, and those are of another type.
LEMMA NextSigned == TypeInv /\ SignedInv /\ [Next]_vars => SignedInv'
<1> SUFFICES ASSUME TypeInv, SignedInv, [Next]_vars PROVE SignedInv'
  OBVIOUS
<1> USE KeyAssumption DEF Goto, At, SignedInv, TypeInv, TypeOK
<1>1. ASSUME NEW r \in Requests, NEW type \in Types, NEW k \in KeyIds, BeginUpload(r, type, k)
      PROVE SignedInv'
  BY <1>1 DEF BeginUpload, FirstStep, Begin, got, IdleInv
<1>2. ASSUME NEW r \in Requests, BeginBundle(r) PROVE SignedInv'
  BY <1>2 DEF BeginBundle, Begin, got, IdleInv
<1>3. ASSUME NEW r \in Requests, SignedStamp(r) PROVE SignedInv'
  BY <1>3 DEF SignedStamp, got
<1>4. ASSUME NEW r \in Requests, IdentitySelect(r) PROVE SignedInv'
  BY <1>4 DEF IdentitySelect, Fails, got, request
<1>5. ASSUME NEW r \in Requests, IdentityDelete(r) PROVE SignedInv'
  BY <1>5 DEF IdentityDelete, Fails, Replaced, got, request, GotInv, StepInv
<1>6. ASSUME NEW r \in Requests, Insert(r) PROVE SignedInv'
  BY <1>6 DEF Insert, Fails, got, request
<1>7. ASSUME NEW r \in Requests, BundleIdentity(r) PROVE SignedInv'
  BY <1>7 DEF BundleIdentity, Fails, got, request
<1>8. ASSUME NEW r \in Requests, BundleSigned(r) PROVE SignedInv'
  BY <1>8 DEF BundleSigned, Keys, Fails, got, request
<1>9. ASSUME NEW r \in Requests, BundleOneTime(r) PROVE SignedInv'
  BY <1>9 DEF BundleOneTime, Fails, got, request
<1>10. ASSUME NEW r \in Requests, BundleConsume(r) PROVE SignedInv'
  BY <1>10 DEF BundleConsume, Fails, Consumed, got, request, GotInv
<1>11. CASE Crash
  BY <1>11 DEF Crash, InFlight, Ended, got, request
<1>12. CASE UNCHANGED vars
  BY <1>12 DEF vars, got, request
<1> QED
  BY <1>1, <1>2, <1>3, <1>4, <1>5, <1>6, <1>7, <1>8, <1>9, <1>10, <1>11, <1>12 DEF Next

\* When the replacement is inserted there is no other identity key (ReplaceInv).
LEMMA NextIdentity == TypeInv /\ ReplaceInv /\ IdentityInv /\ [Next]_vars => IdentityInv'
<1> SUFFICES ASSUME TypeInv, ReplaceInv, IdentityInv, [Next]_vars PROVE IdentityInv'
  OBVIOUS
<1>0. ~Disorderly' => ~Disorderly
  BY DisorderlyStays
<1> USE KeyAssumption, <1>0 DEF Goto, At, IdentityInv, TypeInv, TypeOK
<1>1. ASSUME NEW r \in Requests, NEW type \in Types, NEW k \in KeyIds, BeginUpload(r, type, k)
      PROVE IdentityInv'
  BY <1>1 DEF BeginUpload, FirstStep, Begin, got, IdleInv, BeforeInv, RowInv
<1>2. ASSUME NEW r \in Requests, BeginBundle(r) PROVE IdentityInv'
  BY <1>2 DEF BeginBundle, Begin, got, IdleInv, BeforeInv, RowInv
<1>3. ASSUME NEW r \in Requests, SignedStamp(r) PROVE IdentityInv'
  BY <1>3 DEF SignedStamp, got
<1>4. ASSUME NEW r \in Requests, IdentitySelect(r) PROVE IdentityInv'
  BY <1>4 DEF IdentitySelect, Fails, got, request
<1>5. ASSUME NEW r \in Requests, IdentityDelete(r) PROVE IdentityInv'
  BY <1>5 DEF IdentityDelete, Fails, got, request
<1>6. ASSUME NEW r \in Requests, Insert(r) PROVE IdentityInv'
  BY <1>6 DEF Insert, Fails, got, request, ReplaceInv, Keys, BeforeInv, Ended
<1>7. ASSUME NEW r \in Requests, BundleIdentity(r) PROVE IdentityInv'
  BY <1>7 DEF BundleIdentity, Fails, got, request
<1>8. ASSUME NEW r \in Requests, BundleSigned(r) PROVE IdentityInv'
  BY <1>8 DEF BundleSigned, Fails, got, request
<1>9. ASSUME NEW r \in Requests, BundleOneTime(r) PROVE IdentityInv'
  BY <1>9 DEF BundleOneTime, Fails, got, request
<1>10. ASSUME NEW r \in Requests, BundleConsume(r) PROVE IdentityInv'
  BY <1>10 DEF BundleConsume, Fails, got, request
<1>11. CASE Crash
  BY <1>11 DEF Crash, InFlight, Ended, got, request
<1>12. CASE UNCHANGED vars
  BY <1>12 DEF vars, got, request
<1> QED
  BY <1>1, <1>2, <1>3, <1>4, <1>5, <1>6, <1>7, <1>8, <1>9, <1>10, <1>11, <1>12 DEF Next

\* A bundle reads the signed key with the latest time, and an identity key that is there.
LEMMA NextBundle ==
  TypeInv /\ StampInv /\ SignedInv /\ IdentityInv /\ BundleIsCurrent /\ [Next]_vars
    => BundleIsCurrent'
<1> SUFFICES ASSUME TypeInv, StampInv, SignedInv, IdentityInv, BundleIsCurrent, [Next]_vars
             PROVE BundleIsCurrent'
  OBVIOUS
<1>0. ~Disorderly' => ~Disorderly
  BY DisorderlyStays
<1> USE KeyAssumption, <1>0 DEF Goto, At, BundleIsCurrent, TypeInv, TypeOK
<1>1. ASSUME NEW r \in Requests, NEW type \in Types, NEW k \in KeyIds, BeginUpload(r, type, k)
      PROVE BundleIsCurrent'
  BY <1>1 DEF BeginUpload, FirstStep, Begin, got, BeforeInv, Ended
<1>2. ASSUME NEW r \in Requests, BeginBundle(r) PROVE BundleIsCurrent'
  <2>1. gotSigned[r] = None /\ gotIdentity[r] = None
    BY <1>2 DEF BeginBundle, Begin, SignedInv, IdentityInv
  <2> QED BY <1>2, <2>1 DEF BeginBundle, Begin, got, BeforeInv, Ended
<1>3. ASSUME NEW r \in Requests, SignedStamp(r) PROVE BundleIsCurrent'
  BY <1>3 DEF SignedStamp, got
<1>4. ASSUME NEW r \in Requests, IdentitySelect(r) PROVE BundleIsCurrent'
  BY <1>4 DEF IdentitySelect, Fails, got, request
<1>5. ASSUME NEW r \in Requests, IdentityDelete(r) PROVE BundleIsCurrent'
  BY <1>5 DEF IdentityDelete, Fails, got, request
<1>6. ASSUME NEW r \in Requests, Insert(r) PROVE BundleIsCurrent'
  BY <1>6 DEF Insert, Fails, got, request, BeforeInv, Ended
<1>7. ASSUME NEW r \in Requests, BundleIdentity(r) PROVE BundleIsCurrent'
  BY <1>7 DEF BundleIdentity, Keys, Fails, got, request, IdentityInv
<1>8. ASSUME NEW r \in Requests, BundleSigned(r) PROVE BundleIsCurrent'
  <2>1. CASE Fails(r, "onetime") \/ UNCHANGED gotSigned
    BY <1>8, <2>1 DEF BundleSigned, Fails, got, request
  <2>2. ASSUME NEW k \in Keys("signed"), Latest(k), gotSigned' = [gotSigned EXCEPT ![r] = k],
               UNCHANGED <<rows, request, gotIdentity, gotOneTime, faulty, before>>,
               Goto(r, "onetime")
        PROVE BundleIsCurrent'
    <3>1. ASSUME NEW u \in Requests, NEW v \in Requests,
                 <<u, v>> \in before, op[v] = "signed", pc[v] = "answered"
          PROVE  k # u
      <4>1. v \in Keys("signed") /\ created[v] > 0
        BY <3>1 DEF SignedInv, StampInv, Keys
      <4>2. created[k] >= created[v]
        BY <2>2, <4>1 DEF Latest
      <4> QED BY <2>2, <3>1, <4>1, <4>2 DEF StampInv, Keys
    <3> QED BY <1>8, <2>2, <3>1 DEF BundleSigned, request
  <2> QED BY <1>8, <2>1, <2>2 DEF BundleSigned, got
<1>9. ASSUME NEW r \in Requests, BundleOneTime(r) PROVE BundleIsCurrent'
  BY <1>9 DEF BundleOneTime, Fails, got, request
<1>10. ASSUME NEW r \in Requests, BundleConsume(r) PROVE BundleIsCurrent'
  BY <1>10 DEF BundleConsume, Fails, got, request
<1>11. CASE Crash
  BY <1>11 DEF Crash, InFlight, Ended, got, request
<1>12. CASE UNCHANGED vars
  BY <1>12 DEF vars, got, request
<1> QED
  BY <1>1, <1>2, <1>3, <1>4, <1>5, <1>6, <1>7, <1>8, <1>9, <1>10, <1>11, <1>12 DEF Next

(* However many uploads and fetches overlap, fail or are cut by a crash, no *)
(* bundle holds a signed key (e2e.go:167) whose replacement had been stored *)
(* when it was asked for, nor, in an orderly history, an identity key.      *)
THEOREM BundleIsCurrentHolds == Spec => []BundleIsCurrent
<1>1. TypeInv /\ ReplaceInv /\ CurrentInv /\ [Next]_vars => CurrentInv'
  BY NextStamp, NextSigned, NextIdentity, NextBundle DEF CurrentInv
<1>2. CurrentInv => BundleIsCurrent
  BY DEF CurrentInv
<1> QED
  BY <1>1, <1>2, InitType, NextType, InitReplace, NextReplace, InitCurrent, PTL DEF Spec
=============================================================================
