----------------------------- MODULE KeyBundles -----------------------------
(***************************************************************************)
(* The public keys of one owner (table key_bundles, server/e2e.go) and the *)
(* requests that upload and fetch them at the same time.                   *)
(*                                                                         *)
(* Every SQL statement is a step, any of them may fail, and the server may *)
(* crash in between; no handler uses a transaction.  A row is named by the *)
(* request that stored it, and its type is what that request asked for.    *)
(* The text of keys and signatures, and requests that are refused before   *)
(* they reach the database, are left out.  So is the count of one-time     *)
(* keys, which only reads.                                                 *)
(***************************************************************************)
EXTENDS Naturals, FiniteSets

CONSTANTS Requests,   \* handler invocations; each serves one request
          First,      \* the request that stored an identity key in the past, if any
          KeyIds,     \* numbers owners give to their one-time keys
          MaxFaults,  \* bound on the requests with a statement that fails
          None

ASSUME KeyAssumption ==
  /\ First \in Requests /\ IsFiniteSet(Requests)
  /\ KeyIds \subseteq Nat /\ 0 \in KeyIds
  /\ MaxFaults \in Nat
  /\ None \notin Requests \cup {"identity", "signed", "onetime", "bundle"}

VARIABLES
  rows,        \* key_bundles
  op,          \* what a request is: an upload of some type, or a fetch of a bundle
  keyID,       \* key_id of the key it uploads
  created,     \* created_at of the signed key it uploads, 0 without
  pc,          \* the next statement of its handler
  gotIdentity, \* the row of each type it has read
  gotSigned,
  gotOneTime,
  faulty,      \* requests that had a statement fail
  before       \* pairs of requests of which the first had ended when the second began

got == <<gotIdentity, gotSigned, gotOneTime>>
request == <<op, keyID, created>>
vars == <<rows, request, pc, got, faulty, before>>

Types == {"identity", "signed", "onetime"}

\* A request is answered with what it asked for, or with an error, or a crash cut it.
Ended(r) == pc[r] \in {"answered", "refused", "cut"}
InFlight(r) == pc[r] # "idle" /\ ~Ended(r)

\* The rows of a type.
Keys(type) == {k \in rows : op[k] = type}

\* An owner who has uploaded an identity key, or nothing.
Init ==
  /\ op = [r \in Requests |-> IF r = First THEN "identity" ELSE None]
  /\ \/ rows = {First} /\ pc = [r \in Requests |-> IF r = First THEN "answered" ELSE "idle"]
     \/ rows = {} /\ pc = [r \in Requests |-> IF r = First THEN "refused" ELSE "idle"]
  /\ keyID = [r \in Requests |-> 0]
  /\ created = [r \in Requests |-> 0]
  /\ gotIdentity = [r \in Requests |-> None]
  /\ gotSigned = [r \in Requests |-> None]
  /\ gotOneTime = [r \in Requests |-> None]
  /\ faulty = {}
  /\ before = {}

-----------------------------------------------------------------------------

At(r, o, step) == op[r] = o /\ pc[r] = step

Goto(r, step) == pc' = [pc EXCEPT ![r] = step]

Begin(r, o, step) ==
  /\ pc[r] = "idle"
  /\ op' = [op EXCEPT ![r] = o]
  /\ Goto(r, step)
  /\ before' = before \cup {<<s, r>> : s \in {s \in Requests : Ended(s)}}
  /\ UNCHANGED <<rows, created, got, faulty>>

\* A statement of the request fails, and the handler goes on at step.
Fails(r, step) ==
  /\ Cardinality(faulty \cup {r}) <= MaxFaults
  /\ faulty' = faulty \cup {r}
  /\ Goto(r, step)
  /\ UNCHANGED <<rows, request, got, before>>

-----------------------------------------------------------------------------
(* Uploads.                                                                 *)

\* The first thing an upload does.
FirstStep == [identity |-> "select", signed |-> "stamp", onetime |-> "insert"]

BeginUpload(r, type, k) ==
  /\ Begin(r, type, FirstStep[type])
  /\ type # "onetime" => k = 0  \* nobody looks at it
  /\ keyID' = [keyID EXCEPT ![r] = k]

\* Any identity key; an error is taken for "there is none".
IdentitySelect(r) ==
  /\ At(r, "identity", "select")
  /\ \/ /\ \E k \in Keys("identity") : gotIdentity' = [gotIdentity EXCEPT ![r] = k]
        /\ Goto(r, "delete")
        /\ UNCHANGED <<rows, request, gotSigned, gotOneTime, faulty, before>>
     \/ /\ Keys("identity") = {}
        /\ Goto(r, "insert")
        /\ UNCHANGED <<rows, request, got, faulty, before>>
     \/ Fails(r, "insert")

\* Defect: the key that was found stays.
NothingReplaced(r) == {}

Replaced(r) == {gotIdentity[r]}

\* The error of the DELETE is dropped.
IdentityDelete(r) ==
  /\ At(r, "identity", "delete")
  /\ \/ /\ rows' = rows \ Replaced(r)
        /\ Goto(r, "insert")
        /\ UNCHANGED <<request, got, faulty, before>>
     \/ Fails(r, "insert")

\* time.Now() is evaluated before the INSERT is carried out.  Only the order of the
\* times of signed keys is looked at.
SignedStamp(r) ==
  /\ At(r, "signed", "stamp")
  /\ created' = [created EXCEPT ![r] = Cardinality({s \in Requests : created[s] > 0}) + 1]
  /\ Goto(r, "insert")
  /\ UNCHANGED <<rows, op, keyID, got, faulty, before>>

Insert(r) ==
  /\ op[r] \in Types /\ pc[r] = "insert"
  /\ \/ /\ rows' = rows \cup {r}
        /\ Goto(r, "answered")
        /\ UNCHANGED <<request, got, faulty, before>>
     \/ Fails(r, "refused")

-----------------------------------------------------------------------------
(* Fetching a bundle.                                                       *)

BeginBundle(r) ==
  /\ Begin(r, "bundle", "identity")
  /\ UNCHANGED keyID

\* Without an identity key there is no bundle.
BundleIdentity(r) ==
  /\ At(r, "bundle", "identity")
  /\ \/ /\ \E k \in Keys("identity") : gotIdentity' = [gotIdentity EXCEPT ![r] = k]
        /\ Goto(r, "signed")
        /\ UNCHANGED <<rows, request, gotSigned, gotOneTime, faulty, before>>
     \/ /\ Keys("identity") = {}
        /\ Goto(r, "refused")
        /\ UNCHANGED <<rows, request, got, faulty, before>>
     \/ Fails(r, "refused")

\* Defect: ORDER BY created_at, the oldest one first.
Earliest(k) == \A j \in Keys("signed") : created[k] <= created[j]

\* ORDER BY created_at DESC LIMIT 1
Latest(k) == \A j \in Keys("signed") : created[k] >= created[j]

\* An error is taken for "there is none".
BundleSigned(r) ==
  /\ At(r, "bundle", "signed")
  /\ \/ /\ \E k \in Keys("signed") :
             Latest(k) /\ gotSigned' = [gotSigned EXCEPT ![r] = k]
        /\ Goto(r, "onetime")
        /\ UNCHANGED <<rows, request, gotIdentity, gotOneTime, faulty, before>>
     \/ /\ Keys("signed") = {}
        /\ Goto(r, "onetime")
        /\ UNCHANGED <<rows, request, got, faulty, before>>
     \/ Fails(r, "onetime")

\* ORDER BY key_id ASC LIMIT 1
Lowest(k) == \A j \in Keys("onetime") : keyID[k] <= keyID[j]

BundleOneTime(r) ==
  /\ At(r, "bundle", "onetime")
  /\ \/ /\ \E k \in Keys("onetime") :
             Lowest(k) /\ gotOneTime' = [gotOneTime EXCEPT ![r] = k]
        /\ Goto(r, "consume")
        /\ UNCHANGED <<rows, request, gotIdentity, gotSigned, faulty, before>>
     \/ /\ Keys("onetime") = {}
        /\ Goto(r, "answered")
        /\ UNCHANGED <<rows, request, got, faulty, before>>
     \/ Fails(r, "answered")

\* Defects: nothing is deleted; all keys of the owner are.
NothingConsumed(r) == {}
OwnerConsumed(r) == rows

Consumed(r) == {gotOneTime[r]}

\* The error of the DELETE is dropped.
BundleConsume(r) ==
  /\ At(r, "bundle", "consume")
  /\ \/ /\ rows' = rows \ Consumed(r)
        /\ Goto(r, "answered")
        /\ UNCHANGED <<request, got, faulty, before>>
     \/ Fails(r, "answered")

-----------------------------------------------------------------------------

\* The process ends and starts again; the requests it was serving have no answer.
Crash ==
  /\ \E r \in Requests : InFlight(r)
  /\ pc' = [r \in Requests |-> IF InFlight(r) THEN "cut" ELSE pc[r]]
  /\ UNCHANGED <<rows, request, got, faulty, before>>

Next ==
  \/ \E r \in Requests :
       \/ \E type \in Types, k \in KeyIds : BeginUpload(r, type, k)
       \/ IdentitySelect(r) \/ IdentityDelete(r) \/ SignedStamp(r) \/ Insert(r)
       \/ BeginBundle(r)
       \/ BundleIdentity(r) \/ BundleSigned(r) \/ BundleOneTime(r) \/ BundleConsume(r)
  \/ Crash

Spec == Init /\ [][Next]_vars

-----------------------------------------------------------------------------
(* Properties.                                                              *)

(* Types; a bundle that is answered has an identity key (e2e.go:158-162).   *)
TypeOK ==
  /\ rows \subseteq Requests
  /\ op \in [Requests -> Types \cup {"bundle", None}]
  /\ keyID \in [Requests -> KeyIds]
  /\ created \in [Requests -> Nat]
  /\ pc \in [Requests -> {"idle", "select", "delete", "stamp", "insert", "identity", "signed",
                          "onetime", "consume", "answered", "refused", "cut"}]
  /\ gotIdentity \in [Requests -> Requests \cup {None}]
  /\ gotSigned \in [Requests -> Requests \cup {None}]
  /\ gotOneTime \in [Requests -> Requests \cup {None}]
  /\ faulty \subseteq Requests
  /\ before \subseteq Requests \X Requests
  /\ \A b \in Requests : At(b, "bundle", "answered") => gotIdentity[b] # None

Overlap(r, s) ==
  r # s /\ pc[r] # "idle" /\ pc[s] # "idle" /\ <<r, s>> \notin before /\ <<s, r>> \notin before

(* "Consume (delete) the one-time pre-key" (e2e.go:182): two bundles hold   *)
(* the same one-time key only if they were fetched at the same time, or the *)
(* first of them failed to delete it or was cut by a crash.                 *)
OneTimeKeyOnce ==
  \A b, c \in Requests :
    /\ <<b, c>> \in before /\ gotOneTime[b] # None /\ gotOneTime[b] = gotOneTime[c]
    => b \in faulty \/ pc[b] = "cut"

(* Two uploads of an identity key overlapped, or one had a failed statement.*)
Disorderly ==
  \E r \in Requests : op[r] = "identity" /\
    (r \in faulty \/ \E s \in Requests : op[s] = "identity" /\ Overlap(r, s))

(* "one identity key per owner" (e2e.go:84), unless uploads overlap or      *)
(* statements fail.                                                         *)
OneIdentity == Disorderly \/ \A j, k \in Keys("identity") : j = k

(* An owner with an identity key keeps one through replacements, except     *)
(* between the DELETE and the INSERT of an upload (e2e.go:93 and 100), or   *)
(* when an upload that had found the old key failed or was cut after that.  *)
IdentityStays ==
  (\E r \in Requests : At(r, "identity", "answered")) /\ Keys("identity") = {}
    => \E r \in Requests : op[r] = "identity" /\ gotIdentity[r] # None
                           /\ pc[r] \in {"insert", "refused", "cut"}

(* No bundle holds a key whose replacement had been answered when the       *)
(* bundle was asked for: neither a signed key (e2e.go:167) nor, in an       *)
(* orderly history, an identity key.                                        *)
BundleIsCurrent ==
  \A b, u, v \in Requests :
    op[b] = "bundle" /\ <<u, v>> \in before /\ <<v, b>> \in before /\ pc[v] = "answered" =>
      /\ op[v] = "signed" => gotSigned[b] # u
      /\ op[v] = "identity" /\ ~Disorderly => gotIdentity[b] # u

(* A stored one-time key is in the table until a request has taken it       *)
(* (e2e.go:177-183); fetching one key costs the owner no other.             *)
KeysAccounted ==
  \A k \in Requests : At(k, "onetime", "answered") =>
    k \in rows \/ \E b \in Requests : gotOneTime[b] = k
=============================================================================
