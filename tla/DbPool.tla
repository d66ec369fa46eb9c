------------------------------- MODULE DbPool -------------------------------
(***************************************************************************)
(* The connection pool that all handlers share (openDatabase in            *)
(* server/dbdriver.go) and the requests that use it.  A history request    *)
(* (getConversationMessages) runs one query and, for every row of it while *)
(* its rows are open, a second one (getMessageReactions): it holds one     *)
(* pooled connection and waits for another.  All other requests hold one   *)
(* connection for one statement at a time.                                 *)
(*                                                                         *)
(* database/sql is external: a query takes a free connection or, when      *)
(* PoolSize are in use, waits in a queue without a deadline.               *)
(***************************************************************************)
EXTENDS Naturals, FiniteSets

CONSTANTS Readers,   \* concurrent history requests
          Others,    \* concurrent requests of one statement
          PoolSize,  \* SetMaxOpenConns: 1 for SQLite, 25 for PostgreSQL
          MaxRows    \* bound on the messages of a conversation

ASSUME PoolAssumption ==
  /\ IsFiniteSet(Readers) /\ IsFiniteSet(Others)
  /\ Readers \cap Others = {}
  /\ PoolSize \in Nat \ {0}
  /\ MaxRows \in Nat

VARIABLES
  reader,  \* where each history request is
  left,    \* rows of its outer query still to come
  other    \* where each other request is

poolVars == <<reader, left, other>>

\* The requests that hold a connection: a reader in its inner query holds two.
Outer == {r \in Readers : reader[r] \in {"rows", "inner wait", "inner"}}
Inner == {r \in Readers : reader[r] = "inner"}
Single == {o \in Others : other[o] = "exec"}

InUse == Cardinality(Outer) + Cardinality(Inner) + Cardinality(Single)

\* Defect: a limit that is one too small.
FreeButOne == InUse < PoolSize - 1

Free == InUse < PoolSize

PoolInit ==
  /\ reader = [r \in Readers |-> "idle"]
  /\ left = [r \in Readers |-> 0]
  /\ other = [o \in Others |-> "idle"]

-----------------------------------------------------------------------------

ReaderGoes(r, from, to) ==
  /\ reader[r] = from
  /\ reader' = [reader EXCEPT ![r] = to]
  /\ UNCHANGED other

\* handleGetMessages calls getConversationMessages.
GetMessages(r) ==
  /\ ReaderGoes(r, "idle", "wait")
  /\ UNCHANGED left

\* db.Query: the rows it returns keep their connection.
OuterQuery(r) ==
  /\ Free
  /\ ReaderGoes(r, "wait", "rows")
  /\ \E n \in 0..MaxRows : left' = [left EXCEPT ![r] = n]

\* Defect: the loop reads the same row again and again.
NextRowAgain(r) ==
  /\ left[r] > 0
  /\ ReaderGoes(r, "rows", "inner wait")
  /\ UNCHANGED left

\* rows.Next and Scan, then getMessageReactions for that message.
NextRow(r) ==
  /\ left[r] > 0
  /\ ReaderGoes(r, "rows", "inner wait")
  /\ left' = [left EXCEPT ![r] = @ - 1]

InnerQuery(r) ==
  /\ Free
  /\ ReaderGoes(r, "inner wait", "inner")
  /\ UNCHANGED left

\* The deferred rows.Close of getMessageReactions.
InnerClose(r) ==
  /\ ReaderGoes(r, "inner", "rows")
  /\ UNCHANGED left

\* rows.Next has no more rows, and the deferred rows.Close.
OuterClose(r) ==
  /\ left[r] = 0
  /\ ReaderGoes(r, "rows", "idle")
  /\ UNCHANGED left

OtherGoes(o, from, to) ==
  /\ other[o] = from
  /\ other' = [other EXCEPT ![o] = to]
  /\ UNCHANGED <<reader, left>>

Statement(o) == OtherGoes(o, "idle", "wait")

Exec(o) == Free /\ OtherGoes(o, "wait", "exec")

ExecDone(o) == OtherGoes(o, "exec", "idle")

-----------------------------------------------------------------------------

ReaderRuns(r) == NextRow(r) \/ InnerClose(r) \/ OuterClose(r)

PoolNext ==
  \/ \E r \in Readers : GetMessages(r) \/ OuterQuery(r) \/ InnerQuery(r) \/ ReaderRuns(r)
  \/ \E o \in Others : Statement(o) \/ Exec(o) \/ ExecDone(o)

(* Handlers run on, and database/sql hands a connection that is returned to *)
(* one of the queries that wait, in no order that it documents: one that    *)
(* finds a free connection again and again is taken to get it at last.      *)
Fairness ==
  /\ \A r \in Readers :
       /\ SF_poolVars(OuterQuery(r))
       /\ SF_poolVars(InnerQuery(r))
       /\ WF_poolVars(ReaderRuns(r))
  /\ \A o \in Others : SF_poolVars(Exec(o)) /\ WF_poolVars(ExecDone(o))

PoolSpec == PoolInit /\ [][PoolNext]_poolVars /\ Fairness

-----------------------------------------------------------------------------
(* Properties.                                                              *)

(* Types of the requests; rows.Next is never called past the last row        *)
(* (conversations.go:165).                                                  *)
PoolTypeOK ==
  /\ reader \in [Readers -> {"idle", "wait", "rows", "inner wait", "inner"}]
  /\ left \in [Readers -> 0..MaxRows]
  /\ other \in [Others -> {"idle", "wait", "exec"}]

\* Every connection is held by a history request that waits for another one.
Stuck ==
  /\ ~Free
  /\ Inner = {} /\ Single = {}
  /\ \A r \in Outer : reader[r] = "inner wait"

(* As long as there are fewer concurrent history requests than connections, *)
(* they cannot all hold one and wait for a second (conversations.go:171).   *)
NeverStuck == Cardinality(Readers) < PoolSize => ~Stuck

(* "getConversationMessages retrieves messages for a conversation, ordered  *)
(* by time." (conversations.go:141): a history request returns.             *)
HistoryReturns == \A r \in Readers : reader[r] = "wait" ~> reader[r] = "idle"
=============================================================================
