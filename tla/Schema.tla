------------------------------- MODULE Schema -------------------------------
(***************************************************************************)
(* Who brings the SQLite database to its schema: the migration command     *)
(* am-migrate (server/cmd/am-migrate/main.go), which applies and rolls     *)
(* back numbered migrations and records them in schema_migrations, and the *)
(* server itself, which at every start (initSchema in main.go) creates    *)
(* what is missing.  Neither uses a transaction, so every SQL statement is *)
(* a step, two programs may run at the same time and each may be killed    *)
(* between two statements.                                                 *)
(*                                                                         *)
(* The schema is the set of tables that exist, with those of their columns *)
(* and foreign key actions on which the two programs differ or which were  *)
(* added later; everything else comes with the table.  Where a program is  *)
(* is a position: the list of statements it executes, for `up` and `down`  *)
(* the one of a version, and the line it has reached in it.  Indexes and   *)
(* the rows of the tables are left out; schema_migrations is created by    *)
(* either program before it is used and never dropped.  am-migrate opens   *)
(* the database without foreign keys, so a DROP TABLE does not fail.       *)
(***************************************************************************)
EXTENDS Naturals, Sequences, Functions

CONSTANTS Tools,     \* invocations of am-migrate that may run at the same time
          Server,    \* the server
          Targets,   \* values of -target
          MaxRuns    \* bound: programs started

ASSUME SchemaAssumption ==
  /\ Server \notin Tools
  /\ Targets \subseteq 0..8
  /\ MaxRuns \in Nat

VARIABLES
  tables,    \* the tables that exist
  parts,     \* and their optional parts
  recorded,  \* schema_migrations
  at,        \* where each program is
  runs,      \* programs started
  clash,     \* a rollback ran at the same time as another program
  cut,       \* a rollback or a start was killed and no start has completed since
  quiet,     \* no rollback ran since the current start of the server began
  ready,     \* a start completed, with quiet, and no rollback ran since
  origin,    \* the database the first program found
  upRan      \* am-migrate has applied migrations

vars == <<tables, parts, recorded, at, runs, clash, cut, quiet, ready, origin, upRan>>

Programs == Tools \cup {Server}

-----------------------------------------------------------------------------
(* Statements.                                                              *)

Create(t, ps) == [op |-> "create", table |-> t, parts |-> ps]
Plain(t) == Create(t, {})
AddColumn(t, c) == [op |-> "add", table |-> t, parts |-> {c}]
DropTable(t) == [op |-> "drop", table |-> t]
Record(v) == [op |-> "record", version |-> v]
RecordOrIgnore(v) == [op |-> "record or ignore", version |-> v]
Unrecord(v) == [op |-> "unrecord", version |-> v]

Tables == {"agents", "users", "conversations", "device_tokens", "messages", "attachments",
           "key_bundles", "encrypted_messages", "reactions", "conversation_tags",
           "user_rate_limit_tiers", "notification_preferences", "offline_queue"}
AgentColumns == {"model", "personality", "specialty"}
Parts == AgentColumns \cup {"status", "read_at", "edited_at", "is_deleted", "cascade"}
Versions == 1..8

\* migrations[v].UpSQL
UpSQL == <<
  <<Create("agents", AgentColumns), Plain("users"), Plain("conversations"),
    Plain("device_tokens"), Plain("messages")>>,
  <<AddColumn("agents", "model"), AddColumn("agents", "personality"),
    AddColumn("agents", "specialty")>>,
  <<AddColumn("messages", "read_at")>>,
  <<Plain("attachments")>>,
  <<Plain("key_bundles"), Plain("encrypted_messages")>>,
  <<Plain("reactions"), Plain("conversation_tags")>>,
  <<AddColumn("messages", "edited_at"), AddColumn("messages", "is_deleted")>>,
  <<Plain("user_rate_limit_tiers")>> >>

\* migrations[v].DownSQL; columns stay.
DownSQL == <<
  <<DropTable("messages"), DropTable("device_tokens"), DropTable("conversations"),
    DropTable("users"), DropTable("agents")>>,
  <<>>,
  <<>>,
  <<DropTable("attachments")>>,
  <<DropTable("encrypted_messages"), DropTable("key_bundles")>>,
  <<DropTable("conversation_tags"), DropTable("reactions")>>,
  <<>>,
  <<DropTable("user_rate_limit_tiers")>> >>

\* sqliteSchema
SqliteSchema == <<
  Plain("users"), Create("agents", AgentColumns \cup {"status"}), Plain("conversations"),
  Plain("device_tokens"), Create("messages", {"edited_at", "is_deleted"}),
  Plain("attachments"), Plain("key_bundles"), Plain("encrypted_messages"),
  Plain("notification_preferences"), Plain("offline_queue") >>

\* Defect: the column that am-migrate's version 3 adds is left to it.
InlineMigrationsNoReadAt == <<
  AddColumn("agents", "model"), AddColumn("agents", "personality"),
  AddColumn("agents", "specialty"),
  AddColumn("messages", "edited_at"), AddColumn("messages", "is_deleted"),
  Create("reactions", {"cascade"}), Create("conversation_tags", {"cascade"}),
  Plain("user_rate_limit_tiers"), Plain("notification_preferences") >>

\* What initSchema does once it has looked into schema_migrations.
InlineMigrations == <<
  AddColumn("agents", "model"), AddColumn("agents", "personality"),
  AddColumn("agents", "specialty"),
  AddColumn("messages", "read_at"),
  AddColumn("messages", "edited_at"), AddColumn("messages", "is_deleted"),
  Create("reactions", {"cascade"}), Create("conversation_tags", {"cascade"}),
  Plain("user_rate_limit_tiers"), Plain("notification_preferences") >>

-----------------------------------------------------------------------------
(* Positions.                                                               *)

\* At line l of what stage does for version v; up and down go on to target.
Position(stage, v, l, target) ==
  [stage |-> stage, version |-> v, line |-> l, target |-> target]

Ended == Position("ended", 0, 0, 0)
Alter == Position("alter", 0, 1, 0)

\* Defect: the record is written before the statements are executed.
UpCodeRecordFirst(v) == <<Record(v)>> \o UpSQL[v]

\* The statements of a version and then the record.
UpCode(v) == Append(UpSQL[v], Record(v))

DownCode(v) == Append(DownSQL[v], Unrecord(v))

\* initSchema executes SqliteSchema, fills an empty schema_migrations, and goes on
\* with the inline migrations.
Code(q) ==
  CASE q.stage = "up"     -> UpCode(q.version)
    [] q.stage = "down"   -> DownCode(q.version)
    [] q.stage = "create" -> SqliteSchema
    [] q.stage = "record" -> <<RecordOrIgnore(q.version)>>
    [] q.stage = "alter"  -> InlineMigrations
    [] q.stage = "ended"  -> <<>>

\* The loops over versions, with v the next one.
UpFrom(v, target) == IF v <= target THEN Position("up", v, 1, target) ELSE Ended
DownFrom(v, target) == IF v > target THEN Position("down", v, 1, target) ELSE Ended
RecordFrom(v) == IF v <= 8 THEN Position("record", v, 1, 0) ELSE Alter

\* The position after a statement.
After(q) ==
  IF q.stage \in {"create", "alter"} \/ q.line < Len(Code(q))
    THEN [q EXCEPT !.line = @ + 1]
    ELSE CASE q.stage = "up"     -> UpFrom(q.version + 1, q.target)
           [] q.stage = "down"   -> DownFrom(q.version - 1, q.target)
           [] q.stage = "record" -> RecordFrom(q.version + 1)

\* MAX(version), 0 when there is none.
CurrentVersion == CHOOSE v \in recorded \cup {0} : \A w \in recorded : w <= v

\* What was there before the program had migrations.
OldRelease == {"users", "agents", "conversations", "messages"}

Init ==
  /\ origin \in {"empty", "old"}
  /\ tables = (IF origin = "old" THEN OldRelease ELSE {})
  /\ parts = [t \in Tables |-> {}]
  /\ recorded = {}
  /\ at = [p \in Programs |-> Ended]
  /\ runs = 0
  /\ clash = FALSE
  /\ cut = FALSE
  /\ quiet = FALSE
  /\ ready = FALSE
  /\ upRan = FALSE

-----------------------------------------------------------------------------

Idle(p) == at[p].stage = "ended"
RollingBack == \E p \in Programs : at[p].stage = "down"

\* A program begins.  What am-migrate will do depends on a read it makes first
\* (line 0), the target is its argument.
Start(p, stage, line, target) ==
  /\ Idle(p)
  /\ runs < MaxRuns
  /\ runs' = runs + 1
  /\ at' = [at EXCEPT ![p] = Position(stage, 0, line, target)]
  /\ clash' = (clash \/ RollingBack \/ (stage = "down" /\ \E q \in Programs : ~Idle(q)))
  /\ quiet' = IF stage = "create" THEN ~RollingBack ELSE quiet /\ stage # "down"
  /\ ready' = (ready /\ stage = "up")
  /\ upRan' = (upRan \/ stage = "up")
  /\ UNCHANGED <<tables, parts, recorded, cut, origin>>

MigrateUp(p) == \E target \in Targets : Start(p, "up", 0, target)
MigrateDown(p) == \E target \in Targets : Start(p, "down", 0, target)
StartServer == Start(Server, "create", 1, 0)

Goes(p, q) == at' = [at EXCEPT ![p] = q]

\* Defect: the versions of a rollback begin one too low.
ReadVersionBelow(p) ==
  /\ at[p].stage \in {"up", "down"} /\ at[p].line = 0
  /\ Goes(p, IF at[p].stage = "up" THEN UpFrom(CurrentVersion + 1, at[p].target)
             ELSE DownFrom(CurrentVersion - 1, at[p].target))
  /\ UNCHANGED <<tables, parts, recorded, cut, ready>>

\* getCurrentVersion, and with it all that up or down will do.
ReadVersion(p) ==
  /\ at[p].stage \in {"up", "down"} /\ at[p].line = 0
  /\ Goes(p, IF at[p].stage = "up" THEN UpFrom(CurrentVersion + 1, at[p].target)
             ELSE DownFrom(CurrentVersion, at[p].target))
  /\ UNCHANGED <<tables, parts, recorded, cut, ready>>

\* SELECT COUNT(*): an empty schema_migrations is filled.
CountMigrations(p) ==
  /\ at[p].stage = "create" /\ at[p].line > Len(SqliteSchema)
  /\ Goes(p, IF recorded = {} THEN RecordFrom(1) ELSE Alter)
  /\ UNCHANGED <<tables, parts, recorded, cut, ready>>

\* CREATE TABLE IF NOT EXISTS
ExecCreate(p, s) ==
  /\ s.op = "create"
  /\ tables' = tables \cup {s.table}
  /\ parts' = IF s.table \in tables THEN parts ELSE [parts EXCEPT ![s.table] = s.parts]
  /\ Goes(p, After(at[p]))
  /\ UNCHANGED recorded

\* ALTER TABLE ADD COLUMN.  Both programs go on after a duplicate column; the
\* server goes on after any error.
ExecAdd(p, s) ==
  /\ s.op = "add"
  /\ \/ /\ s.table \in tables
        /\ parts' = [parts EXCEPT ![s.table] = @ \cup s.parts]
        /\ Goes(p, After(at[p]))
     \/ /\ s.table \notin tables
        /\ UNCHANGED parts
        /\ Goes(p, IF p = Server THEN After(at[p]) ELSE Ended)
  /\ UNCHANGED <<tables, recorded>>

\* DROP TABLE IF EXISTS
ExecDrop(p, s) ==
  /\ s.op = "drop"
  /\ tables' = tables \ {s.table}
  /\ parts' = [parts EXCEPT ![s.table] = {}]
  /\ Goes(p, After(at[p]))
  /\ UNCHANGED recorded

\* INSERT INTO schema_migrations: a version that is there is an error for
\* am-migrate and ignored by the server.
ExecRecord(p, s) ==
  /\ s.op \in {"record", "record or ignore"}
  /\ recorded' = recorded \cup {s.version}
  /\ Goes(p, IF s.op = "record" /\ s.version \in recorded THEN Ended ELSE After(at[p]))
  /\ UNCHANGED <<tables, parts>>

ExecUnrecord(p, s) ==
  /\ s.op = "unrecord"
  /\ recorded' = recorded \ {s.version}
  /\ Goes(p, After(at[p]))
  /\ UNCHANGED <<tables, parts>>

Execute(p) ==
  /\ at[p].line > 0
  /\ at[p].line <= Len(Code(at[p]))
  /\ LET s == Code(at[p])[at[p].line]
     IN \/ ExecCreate(p, s)
        \/ ExecAdd(p, s)
        \/ ExecDrop(p, s)
        \/ ExecRecord(p, s)
        \/ ExecUnrecord(p, s)
  /\ UNCHANGED <<cut, ready>>

\* initSchema returns and the server goes on.
Serve(p) ==
  /\ at[p].stage = "alter" /\ at[p].line > Len(InlineMigrations)
  /\ Goes(p, Ended)
  /\ ready' = quiet
  /\ cut' = (cut /\ ~quiet)
  /\ UNCHANGED <<tables, parts, recorded>>

Continue(p) ==
  /\ ReadVersion(p) \/ CountMigrations(p) \/ Execute(p) \/ Serve(p)
  /\ UNCHANGED <<runs, clash, quiet, origin, upRan>>

\* The program is killed between two statements.
Killed(p) ==
  /\ ~Idle(p)
  /\ Goes(p, Ended)
  /\ cut' = (cut \/ at[p].stage # "up")
  /\ UNCHANGED <<tables, parts, recorded, runs, clash, quiet, ready, origin, upRan>>

Next ==
  \/ StartServer
  \/ \E p \in Tools : MigrateUp(p) \/ MigrateDown(p)
  \/ \E p \in Programs : Continue(p) \/ Killed(p)

Spec == Init /\ [][Next]_vars

-----------------------------------------------------------------------------
(* Properties.                                                              *)

(* Types: the only tables and parts are those of the statements, and only   *)
(* the eight migrations are ever recorded (cmd/am-migrate/main.go:28-222).  *)
TypeOK ==
  /\ tables \in SUBSET Tables
  /\ parts \in [Tables -> SUBSET Parts]
  /\ recorded \in SUBSET Versions
  /\ DOMAIN at = Programs
  /\ runs \in 0..MaxRuns
  /\ clash \in BOOLEAN /\ cut \in BOOLEAN /\ quiet \in BOOLEAN /\ ready \in BOOLEAN
  /\ origin \in {"empty", "old"} /\ upRan \in BOOLEAN

\* The table of the statement is there, and the column it adds.
Done(s) == s.table \in tables /\ (s.op = "add" => s.parts \subseteq parts[s.table])

\* The statements of either program that define the schema.
Defining == Range(SqliteSchema) \cup Range(InlineMigrations) \cup UNION {Range(UpSQL[v]) : v \in Versions}

\* The optional parts a table has when one of the programs creates it.
Lacking == UNION {s.parts \ parts[s.table] : s \in {r \in Defining : r.op = "create"}}

AllIdle == \A p \in Programs : Idle(p)

(* `up` skips every version up to MAX(version) (main.go:319-345), so a gap  *)
(* below it would never be filled.  Whatever is killed, and whoever records *)
(* at the same time, there is no gap; only a rollback that overlaps with    *)
(* another program can make one.                                            *)
NoGaps == ~clash => recorded = 1..CurrentVersion

(* What is recorded is there: once all programs have ended, every table and *)
(* column of a recorded migration exists, although nothing is a transaction *)
(* and an `up` may have been killed anywhere.  Two things break it: a       *)
(* rollback, which drops before it deletes the record, or a first start,    *)
(* which records before it creates, was killed; and a clash.                *)
RecordedIsThere ==
  AllIdle /\ ~clash /\ ~cut => \A v \in recorded : \A s \in Range(UpSQL[v]) : Done(s)

\* What the server's own statements give and am-migrate's do not: /presence
\* reads agents.status, deleting messages relies on the cascades.
ServerOnly == {"status", "cascade"}

(* initSchema repairs: however the database came about, after gaps, killed  *)
(* runs and clashes, a start that no rollback overlapped leaves every table *)
(* and column the server uses, except, on a database that am-migrate or an  *)
(* old release created, what CREATE TABLE IF NOT EXISTS cannot add.         *)
StartRepairs ==
  ready => /\ \A s \in Defining : Done(s)
           /\ Lacking \subseteq (IF upRan \/ origin = "old" THEN ServerOnly ELSE {})

=============================================================================
