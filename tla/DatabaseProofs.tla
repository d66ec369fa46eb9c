--------------------------- MODULE DatabaseProofs ---------------------------
(***************************************************************************)
(* Theorems about the database: how it gets its schema (Schema) and the    *)
(* pool of connections to it (DbPool).                                     *)
(*                                                                         *)
(* Schema: gaps, what is recorded and what a start repairs, for any number *)
(* of programs started at any time, killed anywhere and with any targets.  *)
(* The lists of statements enter in a few facts about them, proved first:  *)
(* what kind of statements they hold, that a rollback drops nothing that   *)
(* an earlier version needs, and that the server's own lists define all    *)
(* that am-migrate's do.  The rest goes by lines and versions: SchemaInv   *)
(* says for every program what its position implies.                       *)
(*                                                                         *)
(* DbPool: any number of history requests and others and any pool size.    *)
(***************************************************************************)
EXTENDS Schema, DbPool, SequenceTheorems, FiniteSetTheorems, TLAPS

-----------------------------------------------------------------------------
(* The lists of statements.                                                 *)

Definition == [op : {"create", "add"}, table : Tables, parts : SUBSET Parts]
Dropping == [op : {"drop"}, table : Tables]

LEMMA StatementTypes ==
  /\ \A t \in Tables : \A ps \in SUBSET Parts : Create(t, ps) \in Definition
  /\ \A t \in Tables : Plain(t) \in Definition
  /\ \A t \in Tables : \A c \in Parts : AddColumn(t, c) \in Definition
  /\ \A t \in Tables : DropTable(t) \in Dropping
BY DEF Create, Plain, AddColumn, DropTable, Definition, Dropping

LEMMA SqliteType == SqliteSchema \in Seq(Definition) /\ Len(SqliteSchema) \in Nat
<1>1. Create("agents", AgentColumns \cup {"status"}) \in Definition
  BY StatementTypes DEF Tables, Parts
<1>2. Create("messages", {"edited_at", "is_deleted"}) \in Definition
  BY StatementTypes DEF Tables, Parts
<1>3. \A t \in Tables : Plain(t) \in Definition
  BY StatementTypes
<1>4. QED
  BY <1>1, <1>2, <1>3 DEF SqliteSchema, Tables

LEMMA InlineType == InlineMigrations \in Seq(Definition) /\ Len(InlineMigrations) \in Nat
<1>1. \A t \in {"reactions", "conversation_tags"} : Create(t, {"cascade"}) \in Definition
  BY StatementTypes DEF Tables, Parts
<1>2. \A t \in Tables : Plain(t) \in Definition
  BY StatementTypes
<1>3. \A t \in {"agents", "messages"} : \A c \in Parts : AddColumn(t, c) \in Definition
  BY StatementTypes DEF Tables
<1>4. QED
  BY <1>1, <1>2, <1>3 DEF InlineMigrations, Tables, Parts, AgentColumns

LEMMA Eight == \A v \in Versions : v = 1 \/ v = 2 \/ v = 3 \/ v = 4 \/ v = 5 \/ v = 6 \/ v = 7 \/ v = 8
BY DEF Versions

LEMMA UpType == \A v \in Versions : UpSQL[v] \in Seq(Definition) /\ Len(UpSQL[v]) \in Nat
<1>1. Create("agents", AgentColumns) \in Definition
  BY StatementTypes DEF Tables, Parts
<1>2. \A t \in Tables : Plain(t) \in Definition
  BY StatementTypes
<1>3. \A t \in {"agents", "messages"} : \A c \in Parts : AddColumn(t, c) \in Definition
  BY StatementTypes DEF Tables
<1> SUFFICES ASSUME NEW v \in Versions PROVE UpSQL[v] \in Seq(Definition)
  BY LenProperties
<1>4. CASE v = 1
  BY <1>1, <1>2, <1>4 DEF UpSQL, Tables
<1>5. CASE v = 2
  BY <1>3, <1>5 DEF UpSQL, Parts, AgentColumns
<1>6. CASE v = 3
  BY <1>3, <1>6 DEF UpSQL, Parts, AgentColumns
<1>7. CASE v = 4
  BY <1>2, <1>7 DEF UpSQL, Tables
<1>8. CASE v = 5
  BY <1>2, <1>8 DEF UpSQL, Tables
<1>9. CASE v = 6
  BY <1>2, <1>9 DEF UpSQL, Tables
<1>10. CASE v = 7
  BY <1>3, <1>10 DEF UpSQL, Parts, AgentColumns
<1>11. CASE v = 8
  BY <1>2, <1>11 DEF UpSQL, Tables
<1>12. QED
  BY <1>4, <1>5, <1>6, <1>7, <1>8, <1>9, <1>10, <1>11, Eight

LEMMA DownType == \A v \in Versions : DownSQL[v] \in Seq(Dropping) /\ Len(DownSQL[v]) \in Nat
<1>1. \A t \in Tables : DropTable(t) \in Dropping
  BY StatementTypes
<1> SUFFICES ASSUME NEW v \in Versions PROVE DownSQL[v] \in Seq(Dropping)
  BY LenProperties
<1>2. CASE v = 1
  BY <1>1, <1>2 DEF DownSQL, Tables
<1>3. CASE v \in {2, 3, 7}
  <2>1. DownSQL[v] = <<>>
    BY <1>3 DEF DownSQL
  <2>2. QED
    BY <2>1
<1>4. CASE v = 4
  BY <1>1, <1>4 DEF DownSQL, Tables
<1>5. CASE v = 5
  BY <1>1, <1>5 DEF DownSQL, Tables
<1>6. CASE v = 6
  BY <1>1, <1>6 DEF DownSQL, Tables
<1>7. CASE v = 8
  BY <1>1, <1>7 DEF DownSQL, Tables
<1>8. QED
  BY <1>2, <1>3, <1>4, <1>5, <1>6, <1>7, Eight

(* The tables of each version.                                              *)
UpTables(v) ==
  CASE v = 1 -> {"agents", "users", "conversations", "device_tokens", "messages"}
    [] v = 2 -> {"agents"}
    [] v = 3 -> {"messages"}
    [] v = 4 -> {"attachments"}
    [] v = 5 -> {"key_bundles", "encrypted_messages"}
    [] v = 6 -> {"reactions", "conversation_tags"}
    [] v = 7 -> {"messages"}
    [] v = 8 -> {"user_rate_limit_tiers"}

LEMMA UpTable == \A v \in Versions : \A i \in 1..Len(UpSQL[v]) : UpSQL[v][i].table \in UpTables(v)
<1> SUFFICES ASSUME NEW v \in Versions, NEW i \in 1..Len(UpSQL[v]) PROVE UpSQL[v][i].table \in UpTables(v)
  OBVIOUS
<1>1. CASE v = 1
  BY <1>1 DEF UpSQL, UpTables, Create, Plain
<1>2. CASE v = 2
  BY <1>2 DEF UpSQL, UpTables, AddColumn
<1>3. CASE v = 3
  BY <1>3 DEF UpSQL, UpTables, AddColumn
<1>4. CASE v = 4
  BY <1>4 DEF UpSQL, UpTables, Create, Plain
<1>5. CASE v = 5
  BY <1>5 DEF UpSQL, UpTables, Create, Plain
<1>6. CASE v = 6
  BY <1>6 DEF UpSQL, UpTables, Create, Plain
<1>7. CASE v = 7
  BY <1>7 DEF UpSQL, UpTables, AddColumn
<1>8. CASE v = 8
  BY <1>8 DEF UpSQL, UpTables, Create, Plain
<1>9. QED
  BY <1>1, <1>2, <1>3, <1>4, <1>5, <1>6, <1>7, <1>8, Eight

LEMMA DownTable ==
  \A v \in Versions : \A i \in 1..Len(DownSQL[v]) :
    v \in {1, 4, 5, 6, 8} /\ DownSQL[v][i].table \in UpTables(v)
<1> SUFFICES ASSUME NEW v \in Versions, NEW i \in 1..Len(DownSQL[v])
             PROVE  v \in {1, 4, 5, 6, 8} /\ DownSQL[v][i].table \in UpTables(v)
  OBVIOUS
<1>1. CASE v = 1
  BY <1>1 DEF DownSQL, UpTables, DropTable
<1>2. CASE v \in {2, 3, 7}
  BY <1>2 DEF DownSQL
<1>4. CASE v = 4
  BY <1>4 DEF DownSQL, UpTables, DropTable
<1>5. CASE v = 5
  BY <1>5 DEF DownSQL, UpTables, DropTable
<1>6. CASE v = 6
  BY <1>6 DEF DownSQL, UpTables, DropTable
<1>8. CASE v = 8
  BY <1>8 DEF DownSQL, UpTables, DropTable
<1>9. QED
  BY <1>1, <1>2, <1>4, <1>5, <1>6, <1>8, Eight

(* Rolling back a version drops no table of an earlier one.                 *)
LEMMA DropsOwn ==
  ASSUME NEW v \in Versions, NEW w \in Versions, w < v,
         NEW i \in 1..Len(DownSQL[v]), NEW j \in 1..Len(UpSQL[w])
  PROVE  DownSQL[v][i].table # UpSQL[w][j].table
<1>1. UpTables(v) \cap UpTables(w) = {}
  <2>1. v \in {4, 5, 6, 8}
    BY DownTable, Eight
  <2>2. CASE w \in {1, 2, 3}
    BY <2>1, <2>2 DEF UpTables
  <2>3. CASE w \in {4, 5, 6, 7}
    BY <2>1, <2>3 DEF UpTables
  <2>4. QED
    BY <2>2, <2>3, Eight
<1>2. QED
  BY <1>1, DownTable, UpTable

-----------------------------------------------------------------------------
(* What the server's lists define.                                          *)

ServerCreates == {s \in Range(SqliteSchema) \cup Range(InlineMigrations) : s.op = "create"}

InlineTables == {"reactions", "conversation_tags", "user_rate_limit_tiers"}
SqliteTables == Tables \ InlineTables
EditColumns == {"read_at", "edited_at", "is_deleted"}

(* The server's statements, by name.                                        *)
LEMMA ServerStatements ==
  /\ \A t \in SqliteTables :
       \E i \in 1..Len(SqliteSchema) : SqliteSchema[i].table = t
  /\ \A t \in InlineTables :
       \E i \in 1..Len(InlineMigrations) : InlineMigrations[i].table = t
  /\ \A c \in AgentColumns :
       \E i \in 1..Len(InlineMigrations) : InlineMigrations[i] = AddColumn("agents", c)
  /\ \A c \in EditColumns :
       \E i \in 1..Len(InlineMigrations) : InlineMigrations[i] = AddColumn("messages", c)
<1>1. /\ Len(SqliteSchema) = 10 /\ Len(InlineMigrations) = 10
  BY DEF SqliteSchema, InlineMigrations
<1>2. /\ SqliteSchema[1].table = "users" /\ SqliteSchema[2].table = "agents"
      /\ SqliteSchema[3].table = "conversations" /\ SqliteSchema[4].table = "device_tokens"
      /\ SqliteSchema[5].table = "messages" /\ SqliteSchema[6].table = "attachments"
      /\ SqliteSchema[7].table = "key_bundles" /\ SqliteSchema[8].table = "encrypted_messages"
      /\ SqliteSchema[9].table = "notification_preferences"
      /\ SqliteSchema[10].table = "offline_queue"
  BY DEF SqliteSchema, Plain, Create
<1>3. /\ InlineMigrations[7].table = "reactions" /\ InlineMigrations[8].table = "conversation_tags"
      /\ InlineMigrations[9].table = "user_rate_limit_tiers"
  BY DEF InlineMigrations, Plain, Create
<1>4. /\ InlineMigrations[1] = AddColumn("agents", "model")
      /\ InlineMigrations[2] = AddColumn("agents", "personality")
      /\ InlineMigrations[3] = AddColumn("agents", "specialty")
      /\ InlineMigrations[4] = AddColumn("messages", "read_at")
      /\ InlineMigrations[5] = AddColumn("messages", "edited_at")
      /\ InlineMigrations[6] = AddColumn("messages", "is_deleted")
  BY DEF InlineMigrations
<1>5. \A t \in SqliteTables : \E i \in 1..10 : SqliteSchema[i].table = t
  BY <1>2 DEF SqliteTables, InlineTables, Tables
<1>6. \A t \in InlineTables : \E i \in 1..10 : InlineMigrations[i].table = t
  BY <1>3 DEF InlineTables
<1>7. \A c \in AgentColumns : \E i \in 1..10 : InlineMigrations[i] = AddColumn("agents", c)
  BY <1>4 DEF AgentColumns
<1>8. \A c \in EditColumns : \E i \in 1..10 : InlineMigrations[i] = AddColumn("messages", c)
  BY <1>4 DEF EditColumns
<1>9. QED
  BY <1>1, <1>5, <1>6, <1>7, <1>8

(* An ALTER TABLE of the server is about a table it has just created.       *)
LEMMA AltersOwn ==
  \A i \in 1..Len(InlineMigrations) :
    InlineMigrations[i].op = "add" =>
      \E j \in 1..Len(SqliteSchema) : SqliteSchema[j].table = InlineMigrations[i].table
<1>1. \A i \in 1..Len(InlineMigrations) :
        InlineMigrations[i].op = "add" => InlineMigrations[i].table \in {"agents", "messages"}
  BY DEF InlineMigrations, Plain, Create, AddColumn
<1>2. "agents" \in SqliteTables /\ "messages" \in SqliteTables
  BY DEF SqliteTables, InlineTables, Tables
<1>3. QED
  BY <1>1, <1>2, ServerStatements

(* Once all of the server's statements are done, am-migrate's are too.      *)
LEMMA ServerDefines ==
  ASSUME \A i \in 1..Len(SqliteSchema) : Done(SqliteSchema[i]),
         \A i \in 1..Len(InlineMigrations) : Done(InlineMigrations[i])
  PROVE  /\ \A v \in Versions : \A i \in 1..Len(UpSQL[v]) : Done(UpSQL[v][i])
         /\ \A s \in Defining : Done(s)
<1>1. \A t \in Tables : t \in tables
  <2>1. \A i \in 1..Len(SqliteSchema) : SqliteSchema[i].table \in tables
    BY DEF Done
  <2>2. \A i \in 1..Len(InlineMigrations) : InlineMigrations[i].table \in tables
    BY DEF Done
  <2>3. \A t \in Tables : t \in SqliteTables \/ t \in InlineTables
    BY DEF SqliteTables
  <2>4. QED
    BY <2>1, <2>2, <2>3, ServerStatements
<1>2. \A t, c : (\E i \in 1..Len(InlineMigrations) : InlineMigrations[i] = AddColumn(t, c))
                  => c \in parts[t]
  BY DEF Done, AddColumn
<1>3. \A c \in AgentColumns : Done(AddColumn("agents", c))
  <2>1. \A c \in AgentColumns : c \in parts["agents"]
    BY <1>2, ServerStatements
  <2>2. "agents" \in tables
    BY <1>1 DEF Tables
  <2>3. QED
    BY <2>1, <2>2 DEF Done, AddColumn
<1>4. \A c \in EditColumns : Done(AddColumn("messages", c))
  <2>1. \A c \in EditColumns : c \in parts["messages"]
    BY <1>2, ServerStatements
  <2>2. "messages" \in tables
    BY <1>1 DEF Tables
  <2>3. QED
    BY <2>1, <2>2 DEF Done, AddColumn
<1>5. ASSUME NEW v \in Versions, NEW i \in 1..Len(UpSQL[v]) PROVE Done(UpSQL[v][i])
  <2>1. CASE v = 2
    <3>1. UpSQL[v][i] \in {AddColumn("agents", c) : c \in AgentColumns}
      BY <2>1 DEF UpSQL, AgentColumns
    <3>2. QED
      BY <1>3, <3>1
  <2>2. CASE v \in {3, 7}
    <3>1. UpSQL[v][i] \in {AddColumn("messages", c) : c \in EditColumns}
      <4>1. CASE v = 3
        BY <4>1 DEF UpSQL, EditColumns
      <4>2. CASE v = 7
        BY <4>2 DEF UpSQL, EditColumns
      <4>3. QED
        BY <2>2, <4>1, <4>2
    <3>2. QED
      BY <1>4, <3>1
  <2>3. CASE v \in {1, 4, 5, 6, 8}
    <3>1. UpSQL[v][i].op = "create"
      <4>1. CASE v = 1
        BY <4>1 DEF UpSQL, Plain, Create
      <4>2. CASE v = 4
        BY <4>2 DEF UpSQL, Plain, Create
      <4>3. CASE v = 5
        BY <4>3 DEF UpSQL, Plain, Create
      <4>4. CASE v = 6
        BY <4>4 DEF UpSQL, Plain, Create
      <4>5. CASE v = 8
        BY <4>5 DEF UpSQL, Plain, Create
      <4>6. QED
        BY <2>3, <4>1, <4>2, <4>3, <4>4, <4>5
    <3>2. UpSQL[v][i] \in Definition
      BY UpType, ElementOfSeq
    <3>3. UpSQL[v][i].table \in Tables
      BY <3>2 DEF Definition
    <3>4. QED
      BY <1>1, <3>1, <3>3 DEF Done
  <2>4. QED
    BY <2>1, <2>2, <2>3, Eight
<1>6. ASSUME NEW s \in Defining PROVE Done(s)
  <2>1. CASE s \in Range(SqliteSchema)
    BY <2>1, SqliteType DEF Range
  <2>2. CASE s \in Range(InlineMigrations)
    BY <2>2, InlineType DEF Range
  <2>3. CASE \E v \in Versions : s \in Range(UpSQL[v])
    BY <1>5, <2>3, UpType DEF Range
  <2>4. QED
    BY <2>1, <2>2, <2>3 DEF Defining
<1>7. QED
  BY <1>5, <1>6

(* Of am-migrate's tables only agents comes with columns that were added    *)
(* later.                                                                   *)
LEMMA UpCreates ==
  ASSUME NEW v \in Versions, NEW i \in 1..Len(UpSQL[v]), UpSQL[v][i].op = "create"
  PROVE  UpSQL[v][i].parts = {} \/ (UpSQL[v][i].table = "agents" /\ UpSQL[v][i].parts = AgentColumns)
<1>1. CASE v = 1
  BY <1>1 DEF UpSQL, Plain, Create
<1>2. CASE v = 2
  BY <1>2 DEF UpSQL, AddColumn
<1>3. CASE v = 3
  BY <1>3 DEF UpSQL, AddColumn
<1>4. CASE v = 4
  BY <1>4 DEF UpSQL, Plain, Create
<1>5. CASE v = 5
  BY <1>5 DEF UpSQL, Plain, Create
<1>6. CASE v = 6
  BY <1>6 DEF UpSQL, Plain, Create
<1>7. CASE v = 7
  BY <1>7 DEF UpSQL, AddColumn
<1>8. CASE v = 8
  BY <1>8 DEF UpSQL, Plain, Create
<1>9. QED
  BY <1>1, <1>2, <1>3, <1>4, <1>5, <1>6, <1>7, <1>8, Eight

(* What the server's CREATE TABLE gives.                                    *)
SqliteParts(t) ==
  IF t = "agents" THEN AgentColumns \cup {"status"}
  ELSE IF t = "messages" THEN {"edited_at", "is_deleted"} ELSE {}
InlineParts(t) == IF t \in {"reactions", "conversation_tags"} THEN {"cascade"} ELSE {}

LEMMA SqlitePartsAre ==
  \A i \in 1..Len(SqliteSchema) : SqliteSchema[i].parts = SqliteParts(SqliteSchema[i].table)
BY DEF SqliteSchema, SqliteParts, Plain, Create

(* What a table lacks then is what am-migrate and old releases do not know. *)
LEMMA LacksServerOnly ==
  ASSUME \A s \in Defining : Done(s)
  PROVE  Lacking \subseteq ServerOnly
<1>1. \A t, c : (\E i \in 1..Len(InlineMigrations) : InlineMigrations[i] = AddColumn(t, c))
                  => c \in parts[t]
  <2>1. \A i \in 1..Len(InlineMigrations) : Done(InlineMigrations[i])
    BY InlineType DEF Defining, Range
  <2>2. QED
    BY <2>1 DEF Done, AddColumn
<1>2. /\ \A c \in AgentColumns : c \in parts["agents"]
      /\ \A c \in EditColumns : c \in parts["messages"]
  BY <1>1, ServerStatements
<1>3. ASSUME NEW s \in Defining, s.op = "create", NEW c \in s.parts
      PROVE  c \in parts[s.table] \/ c \in ServerOnly
  <2>1. CASE s \in Range(SqliteSchema)
    <3>1. PICK i \in 1..Len(SqliteSchema) : s = SqliteSchema[i]
      BY <2>1, SqliteType DEF Range
    <3>2. s.parts = SqliteParts(s.table)
      BY <3>1, SqlitePartsAre
    <3>3. QED
      BY <1>2, <1>3, <3>2 DEF SqliteParts, EditColumns, ServerOnly
  <2>2. CASE s \in Range(InlineMigrations)
    <3>1. PICK i \in 1..Len(InlineMigrations) : s = InlineMigrations[i]
      BY <2>2, InlineType DEF Range
    <3>2. s.parts = {} \/ s.parts = {"cascade"}
      BY <1>3, <3>1 DEF InlineMigrations, Plain, Create, AddColumn
    <3>3. QED
      BY <1>3, <3>2 DEF ServerOnly
  <2>3. CASE \E v \in Versions : s \in Range(UpSQL[v])
    <3>1. PICK v \in Versions : s \in Range(UpSQL[v])
      BY <2>3
    <3>2. PICK i \in 1..Len(UpSQL[v]) : s = UpSQL[v][i]
      BY <3>1, UpType DEF Range
    <3>3. s.parts = {} \/ (s.table = "agents" /\ s.parts = AgentColumns)
      BY <1>3, <3>2, UpCreates
    <3>4. QED
      BY <1>2, <1>3, <3>3
  <2>4. QED
    BY <2>1, <2>2, <2>3 DEF Defining
<1>4. QED
  BY <1>3 DEF Lacking

(* The server gives a table the same parts wherever it creates it.          *)
LEMMA SameParts ==
  ASSUME NEW s \in ServerCreates, NEW r \in ServerCreates, s.table = r.table
  PROVE  s.parts = r.parts
<1>1. \A i \in 1..Len(SqliteSchema) : SqliteSchema[i].table \in SqliteTables
  BY DEF SqliteSchema, Plain, Create, SqliteTables, InlineTables, Tables
<1>2. \A i \in 1..Len(InlineMigrations) : InlineMigrations[i].op = "create" =>
        /\ InlineMigrations[i].table \in InlineTables \cup {"notification_preferences"}
        /\ InlineMigrations[i].parts = InlineParts(InlineMigrations[i].table)
  BY DEF InlineMigrations, Plain, Create, AddColumn, InlineTables, InlineParts
<1>3. ASSUME NEW x \in ServerCreates
      PROVE  x.parts = SqliteParts(x.table) \cup InlineParts(x.table)
  <2>1. CASE x \in Range(SqliteSchema)
    <3>1. PICK i \in 1..Len(SqliteSchema) : x = SqliteSchema[i]
      BY <2>1, SqliteType DEF Range
    <3>2. x.parts = SqliteParts(x.table) /\ x.table \in SqliteTables
      BY <1>1, <3>1, SqlitePartsAre
    <3>3. InlineParts(x.table) = {}
      BY <3>2 DEF InlineParts, SqliteTables, InlineTables
    <3>4. QED
      BY <3>2, <3>3
  <2>2. CASE x \in Range(InlineMigrations)
    <3>1. PICK i \in 1..Len(InlineMigrations) : x = InlineMigrations[i]
      BY <2>2, InlineType DEF Range
    <3>2. /\ x.table \in InlineTables \cup {"notification_preferences"}
          /\ x.parts = InlineParts(x.table)
      BY <1>2, <3>1 DEF ServerCreates
    <3>3. SqliteParts(x.table) = {}
      BY <3>2 DEF SqliteParts, InlineTables
    <3>4. QED
      BY <3>2, <3>3
  <2>3. QED
    BY <2>1, <2>2 DEF ServerCreates
<1>4. QED
  BY <1>3

(* It gives every table what am-migrate gives it.                           *)
LEMMA ServerGivesMore ==
  ASSUME NEW s \in Defining, s.op = "create"
  PROVE  s.parts = {} \/ \E r \in ServerCreates : r.table = s.table /\ s.parts \subseteq r.parts
<1>1. CASE s \in Range(SqliteSchema) \cup Range(InlineMigrations)
  BY <1>1 DEF ServerCreates
<1>2. CASE \E v \in Versions : s \in Range(UpSQL[v])
  <2>1. PICK v \in Versions : s \in Range(UpSQL[v])
    BY <1>2
  <2>2. PICK i \in 1..Len(UpSQL[v]) : s = UpSQL[v][i]
    BY <2>1, UpType DEF Range
  <2>3. s.parts = {} \/ (s.table = "agents" /\ s.parts = AgentColumns)
    BY <2>2, UpCreates
  <2>4. Create("agents", AgentColumns \cup {"status"}) \in ServerCreates
    <3>1. SqliteSchema[2] = Create("agents", AgentColumns \cup {"status"}) /\ 2 \in 1..Len(SqliteSchema)
      BY DEF SqliteSchema
    <3>2. DOMAIN SqliteSchema = 1..Len(SqliteSchema)
      BY SqliteType
    <3>3. Create("agents", AgentColumns \cup {"status"}).op = "create"
      BY DEF Create
    <3>4. QED
      BY <3>1, <3>2, <3>3 DEF ServerCreates, Range
  <2>5. QED
    BY <2>3, <2>4 DEF Create
<1>3. QED
  BY <1>1, <1>2 DEF Defining

-----------------------------------------------------------------------------
(* Where programs are, and what a step of one does.                         *)

Stages == {"ended", "up", "down", "create", "record", "alter"}
Positions == [stage : Stages, version : 0..8, line : Nat, target : 0..8]

\* The lines a program can be at in each stage; am-migrate is at line 0 before its read.
LineOK(p, q) ==
  /\ q.stage = "ended" => q.line = 0
  /\ q.stage \in {"up", "down"} => p \in Tools
  /\ q.stage \in {"create", "record", "alter"} => p = Server
  /\ q.stage = "up" /\ q.line > 0 =>
       q.version \in 1..q.target /\ q.line <= Len(UpSQL[q.version]) + 1
  /\ q.stage = "down" /\ q.line > 0 =>
       q.version \in (q.target + 1)..8 /\ q.line <= Len(DownSQL[q.version]) + 1
  /\ q.stage = "create" => q.line \in 1..(Len(SqliteSchema) + 1)
  /\ q.stage = "record" => q.version \in Versions /\ q.line = 1
  /\ q.stage = "alter" => q.line \in 1..(Len(InlineMigrations) + 1)

PositionInv == at \in [Programs -> Positions] /\ \A p \in Programs : LineOK(p, at[p])

\* Without a clash a rollback is alone, and a start of the server quiet.
AloneInv ==
  /\ ~clash => \A p, q \in Programs : at[p].stage = "down" /\ p # q => Idle(q)
  /\ ~clash /\ ~Idle(Server) => quiet
  /\ quiet => ~RollingBack
  /\ ready => quiet

\* Without a clash versions are recorded from below and unrecorded from above.
GapInv ==
  ~clash =>
    /\ \A v \in recorded, w \in Versions : w < v => w \in recorded
    /\ \A p \in Programs :
         /\ at[p].stage \in {"up", "record"} /\ at[p].line > 0 =>
              \A w \in Versions : w < at[p].version => w \in recorded
         /\ at[p].stage = "down" /\ at[p].line > 0 =>
              at[p].version \in recorded /\ \A w \in recorded : w <= at[p].version

\* The first n of these statements have been executed and nothing undone.
DoneUpTo(code, n) == \A i \in 1..Len(code) : i < n => Done(code[i])

UpInv ==
  ~clash => \A p \in Programs :
    at[p].stage = "up" /\ at[p].line > 0 => DoneUpTo(UpSQL[at[p].version], at[p].line)

StartInv ==
  quiet =>
    /\ at[Server].stage = "create" => DoneUpTo(SqliteSchema, at[Server].line)
    /\ at[Server].stage \in {"record", "alter"} => \A i \in 1..Len(SqliteSchema) : Done(SqliteSchema[i])
    /\ at[Server].stage = "alter" => DoneUpTo(InlineMigrations, at[Server].line)

There(v) == \A i \in 1..Len(UpSQL[v]) : Done(UpSQL[v][i])

\* What is recorded and not there is being made by a start or undone by a rollback.
ThereInv ==
  ~clash /\ ~cut => \A v \in recorded :
    \/ There(v)
    \/ at[Server].stage \in {"record", "alter"}
    \/ \E p \in Programs : at[p].stage = "down" /\ at[p].line > 0 /\ at[p].version = v

RepairInv ==
  /\ ready => \A s \in Defining : Done(s)
  /\ ~upRan /\ origin = "empty" =>
       /\ \A p \in Programs : at[p].stage # "up"
       /\ \A s \in ServerCreates : s.table \in tables => s.parts \subseteq parts[s.table]

TypeInv == TypeOK /\ PositionInv
SchemaInv == TypeInv /\ AloneInv /\ GapInv /\ UpInv /\ StartInv /\ ThereInv /\ RepairInv

\* A step of p leaves the other programs where they are.
Moves(p) == at' = [at EXCEPT ![p] = at'[p]] /\ \A r \in Programs : r # p => at'[r] = at[r]

\* The program goes on to the next line, or ends.
Advances(p) ==
  /\ at'[p] \in Positions
  /\ at'[p].stage = at[p].stage /\ at'[p].version = at[p].version
  /\ at'[p].target = at[p].target /\ at'[p].line = at[p].line + 1
Stops(p) == at'[p] = Ended

\* Nothing is undone.
Grows == tables \subseteq tables' /\ \A t \in tables : parts[t] \subseteq parts'[t]

\* The statement s, a CREATE or an ALTER, is executed or fails.
Defines(p, s) ==
  /\ UNCHANGED recorded
  /\ Grows
  /\ \/ Done(s)' /\ Advances(p)
     \/ /\ s.op = "add" /\ s.table \notin tables
        /\ IF p = Server THEN Advances(p) ELSE Stops(p)
  /\ \A t \in tables' : t \notin tables => s.op = "create" /\ t = s.table /\ parts'[t] = s.parts

UpDefines(p) ==
  /\ p \in Tools /\ at[p].stage = "up" /\ at[p].version \in Versions
  /\ at[p].line \in 1..Len(UpSQL[at[p].version])
  /\ Defines(p, UpSQL[at[p].version][at[p].line])

UpRecords(p) ==
  /\ p \in Tools /\ at[p].stage = "up" /\ at[p].version \in Versions
  /\ at[p].line = Len(UpSQL[at[p].version]) + 1
  /\ recorded' = recorded \cup {at[p].version} /\ UNCHANGED <<tables, parts>>
  /\ Stops(p) \/ at'[p] = UpFrom(at[p].version + 1, at[p].target)

DownDrops(p) ==
  /\ p \in Tools /\ at[p].stage = "down" /\ at[p].version \in Versions
  /\ at[p].line \in 1..Len(DownSQL[at[p].version])
  /\ \E t \in Tables :
       /\ t = DownSQL[at[p].version][at[p].line].table
       /\ tables' = tables \ {t} /\ \A r \in Tables : r # t => parts'[r] = parts[r]
  /\ UNCHANGED recorded
  /\ Advances(p)

DownUnrecords(p) ==
  /\ p \in Tools /\ at[p].stage = "down" /\ at[p].version \in Versions
  /\ at[p].line = Len(DownSQL[at[p].version]) + 1
  /\ recorded' = recorded \ {at[p].version} /\ UNCHANGED <<tables, parts>>
  /\ at'[p] = DownFrom(at[p].version - 1, at[p].target)

ServerCreatesTable(p) ==
  /\ p = Server /\ at[p].stage = "create"
  /\ at[p].line \in 1..Len(SqliteSchema)
  /\ Defines(p, SqliteSchema[at[p].line])
  /\ SqliteSchema[at[p].line].op = "create"

ServerRecords(p) ==
  /\ p = Server /\ at[p].stage = "record" /\ at[p].version \in Versions
  /\ recorded' = recorded \cup {at[p].version} /\ UNCHANGED <<tables, parts>>
  /\ at'[p] = RecordFrom(at[p].version + 1)

ServerAlters(p) ==
  /\ p = Server /\ at[p].stage = "alter"
  /\ at[p].line \in 1..Len(InlineMigrations)
  /\ Defines(p, InlineMigrations[at[p].line])

Effects(p) ==
  \/ UpDefines(p) \/ UpRecords(p) \/ DownDrops(p) \/ DownUnrecords(p)
  \/ ServerCreatesTable(p) \/ ServerRecords(p) \/ ServerAlters(p)

(* A defining statement does what it says.                                  *)
LEMMA DefinesLemma ==
  ASSUME TypeInv, NEW p \in Programs, NEW s \in Definition, UNCHANGED recorded,
         Goes(p, After(at[p])) => Advances(p), Goes(p, Ended) => Stops(p),
         ExecCreate(p, s) \/ ExecAdd(p, s)
  PROVE  Defines(p, s) /\ tables' \in SUBSET Tables /\ parts' \in [Tables -> SUBSET Parts]
<1>1. /\ tables \in SUBSET Tables /\ parts \in [Tables -> SUBSET Parts]
      /\ s.table \in Tables /\ s.parts \in SUBSET Parts /\ s.op \in {"create", "add"}
  BY DEF TypeInv, TypeOK, Definition
<1>2. CASE ExecCreate(p, s)
  <2>1. /\ s.op = "create" /\ tables' = tables \cup {s.table} /\ Advances(p)
        /\ parts' = IF s.table \in tables THEN parts ELSE [parts EXCEPT ![s.table] = s.parts]
    BY <1>2 DEF ExecCreate
  <2>2. Done(s)'
    BY <2>1 DEF Done
  <2>3. tables' \in SUBSET Tables /\ parts' \in [Tables -> SUBSET Parts]
    BY <1>1, <2>1
  <2>4. \A t \in Tables : parts'[t] = IF t = s.table /\ t \notin tables THEN s.parts ELSE parts[t]
    BY <1>1, <2>1
  <2>5. Grows
    BY <1>1, <2>1, <2>4 DEF Grows
  <2>6. QED
    BY <1>1, <2>1, <2>2, <2>3, <2>4, <2>5 DEF Defines
<1>3. CASE ExecAdd(p, s)
  <2>1. s.op = "add" /\ tables' = tables
    BY <1>3 DEF ExecAdd
  <2>2. CASE s.table \in tables
    <3>1. parts' = [parts EXCEPT ![s.table] = @ \cup s.parts] /\ Advances(p)
      BY <1>3, <2>2 DEF ExecAdd
    <3>2. \A t \in Tables : parts'[t] = IF t = s.table THEN parts[t] \cup s.parts ELSE parts[t]
      BY <1>1, <3>1
    <3>3. parts' \in [Tables -> SUBSET Parts]
      BY <1>1, <3>1
    <3>4. Done(s)' /\ Grows
      BY <1>1, <2>1, <2>2, <3>2 DEF Done, Grows
    <3>5. QED
      BY <1>1, <2>1, <3>1, <3>3, <3>4 DEF Defines
  <2>3. CASE s.table \notin tables
    <3>1. parts' = parts /\ Goes(p, IF p = Server THEN After(at[p]) ELSE Ended)
      BY <1>3, <2>3 DEF ExecAdd
    <3>2. IF p = Server THEN Advances(p) ELSE Stops(p)
      BY <3>1
    <3>3. Grows
      BY <1>1, <2>1, <3>1 DEF Grows
    <3>4. QED
      BY <1>1, <2>1, <2>3, <3>1, <3>2, <3>3 DEF Defines
  <2>4. QED
    BY <2>2, <2>3
<1>4. QED
  BY <1>2, <1>3

(* The lists with their last statement.                                     *)
LEMMA CodeOf ==
  ASSUME NEW v \in Versions
  PROVE  /\ Len(UpCode(v)) = Len(UpSQL[v]) + 1
         /\ UpCode(v)[Len(UpSQL[v]) + 1] = Record(v)
         /\ \A i \in 1..Len(UpSQL[v]) : UpCode(v)[i] = UpSQL[v][i] /\ UpSQL[v][i] \in Definition
         /\ Len(DownCode(v)) = Len(DownSQL[v]) + 1
         /\ DownCode(v)[Len(DownSQL[v]) + 1] = Unrecord(v)
         /\ \A i \in 1..Len(DownSQL[v]) : DownCode(v)[i] = DownSQL[v][i] /\ DownSQL[v][i] \in Dropping
<1>1. UpSQL[v] \in Seq(Definition \cup {Record(v)}) /\ DownSQL[v] \in Seq(Dropping \cup {Unrecord(v)})
  BY UpType, DownType
<1>2. \A i \in 1..Len(UpSQL[v]) : UpSQL[v][i] \in Definition
  BY UpType, ElementOfSeq
<1>3. \A i \in 1..Len(DownSQL[v]) : DownSQL[v][i] \in Dropping
  BY DownType, ElementOfSeq
<1>4. QED
  BY <1>1, <1>2, <1>3, AppendProperties DEF UpCode, DownCode

LEMMA GoesTo ==
  ASSUME at \in [Programs -> Positions], NEW p \in Programs, NEW x, Goes(p, x)
  PROVE  at'[p] = x /\ Moves(p)
BY DEF Goes, Moves

(* What a step makes of the database and of its program.                    *)
LEMMA ExecuteEffects ==
  ASSUME TypeInv, NEW p \in Programs, Execute(p)
  PROVE  /\ Effects(p)
         /\ tables' \in SUBSET Tables /\ parts' \in [Tables -> SUBSET Parts]
         /\ recorded' \in SUBSET Versions
<1>1. /\ at \in [Programs -> Positions] /\ LineOK(p, at[p])
      /\ tables \in SUBSET Tables /\ parts \in [Tables -> SUBSET Parts] /\ recorded \in SUBSET Versions
  BY DEF TypeInv, TypeOK, PositionInv
<1>2. PICK q : q = at[p]
  OBVIOUS
<1>3. q \in Positions
  BY <1>1, <1>2
<1>4. /\ q.line \in Nat /\ q.version \in 0..8 /\ q.target \in 0..8 /\ q.line > 0
      /\ q.line <= Len(Code(q)) /\ q.stage # "ended"
  BY <1>1, <1>2, <1>3 DEF Positions, Execute, LineOK
<1>5. PICK s : s = Code(q)[q.line]
  OBVIOUS
<1>6. \/ ExecCreate(p, s) \/ ExecAdd(p, s) \/ ExecDrop(p, s)
      \/ ExecRecord(p, s) \/ ExecUnrecord(p, s)
  BY <1>2, <1>5 DEF Execute
<1>7. ASSUME q.stage \in {"create", "alter"} \/ q.line < Len(Code(q)) PROVE Goes(p, After(at[p])) => Advances(p)
  <2>1. After(q) = [q EXCEPT !.line = @ + 1]
    BY <1>7 DEF After
  <2>2. QED
    BY <1>1, <1>2, <1>3, <2>1, GoesTo DEF Advances, Positions
<1>8. Goes(p, Ended) => Stops(p)
  BY <1>1, GoesTo DEF Stops
<1>9. CASE q.stage = "up"
  <2>0. q.version \in Versions /\ p \in Tools
    BY <1>1, <1>2, <1>4, <1>9 DEF LineOK, Versions
  <2>1. PICK v : v = q.version
    OBVIOUS
  <2>2. Code(q) = UpCode(v) /\ Len(UpSQL[v]) \in Nat /\ v \in Versions
    BY <1>9, <2>0, <2>1, UpType DEF Code
  <2>3. CASE q.line <= Len(UpSQL[v])
    <3>1. q.line \in 1..Len(UpSQL[v])
      BY <1>4, <2>2, <2>3
    <3>2. s = UpSQL[v][q.line] /\ s \in Definition
      BY <1>5, <2>2, <3>1, CodeOf
    <3>3. q.line < Len(Code(q))
      BY <1>4, <2>2, <2>3, CodeOf
    <3>4. ExecCreate(p, s) \/ ExecAdd(p, s)
      BY <1>6, <3>2 DEF Definition, ExecDrop, ExecRecord, ExecUnrecord
    <3>5. recorded' = recorded
      BY <3>4 DEF ExecCreate, ExecAdd
    <3>6. Defines(p, s) /\ tables' \in SUBSET Tables /\ parts' \in [Tables -> SUBSET Parts]
      BY <1>7, <1>8, <3>2, <3>3, <3>4, <3>5, DefinesLemma
    <3>7. UpDefines(p)
      BY <1>2, <1>9, <2>0, <2>1, <3>1, <3>2, <3>6 DEF UpDefines
    <3>8. QED
      BY <1>1, <3>5, <3>6, <3>7 DEF Effects
  <2>4. CASE q.line = Len(UpSQL[v]) + 1
    <3>1. s = Record(v)
      BY <1>5, <2>2, <2>4, CodeOf
    <3>2. ExecRecord(p, s) /\ s.version = v
      BY <1>6, <3>1 DEF Record, ExecCreate, ExecAdd, ExecDrop, ExecUnrecord
    <3>3. After(q) = UpFrom(v + 1, q.target)
      <4>1. q.line = Len(Code(q))
        BY <2>2, <2>4, CodeOf
      <4>2. QED
        BY <1>4, <1>9, <2>1, <4>1 DEF After
    <3>4. Stops(p) \/ at'[p] = UpFrom(v + 1, q.target)
      BY <1>1, <1>2, <3>2, <3>3, GoesTo DEF ExecRecord, Stops
    <3>5. recorded' = recorded \cup {v} /\ UNCHANGED <<tables, parts>>
      BY <3>2 DEF ExecRecord
    <3>6. UpRecords(p)
      BY <1>2, <1>9, <2>0, <2>1, <2>4, <3>4, <3>5 DEF UpRecords
    <3>7. QED
      BY <1>1, <2>2, <3>5, <3>6 DEF Effects
  <2>5. QED
    BY <1>4, <2>2, <2>3, <2>4, CodeOf
<1>10. CASE q.stage = "down"
  <2>0. q.version \in Versions /\ p \in Tools
    BY <1>1, <1>2, <1>4, <1>10 DEF LineOK, Versions
  <2>1. PICK v : v = q.version
    OBVIOUS
  <2>2. Code(q) = DownCode(v) /\ Len(DownSQL[v]) \in Nat /\ v \in Versions
    BY <1>10, <2>0, <2>1, DownType DEF Code
  <2>3. CASE q.line <= Len(DownSQL[v])
    <3>1. q.line \in 1..Len(DownSQL[v])
      BY <1>4, <2>2, <2>3
    <3>2. s = DownSQL[v][q.line] /\ s \in Dropping
      BY <1>5, <2>2, <3>1, CodeOf
    <3>3. q.line < Len(Code(q))
      BY <1>4, <2>2, <2>3, CodeOf
    <3>4. ExecDrop(p, s)
      BY <1>6, <3>2 DEF Dropping, ExecCreate, ExecAdd, ExecRecord, ExecUnrecord
    <3>5. /\ tables' = tables \ {s.table} /\ parts' = [parts EXCEPT ![s.table] = {}]
          /\ recorded' = recorded /\ Advances(p) /\ s.table \in Tables
      BY <1>7, <3>2, <3>3, <3>4 DEF ExecDrop, Dropping
    <3>6. \A r \in Tables : r # s.table => parts'[r] = parts[r]
      BY <1>1, <3>5
    <3>7. DownDrops(p)
      BY <1>2, <1>10, <2>0, <2>1, <3>1, <3>2, <3>5, <3>6 DEF DownDrops
    <3>8. QED
      BY <1>1, <3>5, <3>7 DEF Effects
  <2>4. CASE q.line = Len(DownSQL[v]) + 1
    <3>1. s = Unrecord(v)
      BY <1>5, <2>2, <2>4, CodeOf
    <3>2. ExecUnrecord(p, s) /\ s.version = v
      BY <1>6, <3>1 DEF Unrecord, ExecCreate, ExecAdd, ExecDrop, ExecRecord
    <3>3. After(q) = DownFrom(v - 1, q.target)
      <4>1. q.line = Len(Code(q))
        BY <2>2, <2>4, CodeOf
      <4>2. QED
        BY <1>4, <1>10, <2>1, <4>1 DEF After
    <3>4. at'[p] = DownFrom(v - 1, q.target)
      BY <1>1, <1>2, <3>2, <3>3, GoesTo DEF ExecUnrecord
    <3>5. recorded' = recorded \ {v} /\ UNCHANGED <<tables, parts>>
      BY <3>2 DEF ExecUnrecord
    <3>6. DownUnrecords(p)
      BY <1>2, <1>10, <2>0, <2>1, <2>4, <3>4, <3>5 DEF DownUnrecords
    <3>7. QED
      BY <1>1, <2>2, <3>5, <3>6 DEF Effects
  <2>5. QED
    BY <1>4, <2>2, <2>3, <2>4, CodeOf
<1>11. CASE q.stage = "create"
  <2>1. Code(q) = SqliteSchema /\ p = Server
    BY <1>1, <1>2, <1>11 DEF Code, LineOK
  <2>2. q.line \in 1..Len(SqliteSchema)
    BY <1>4, <2>1, SqliteType
  <2>3. s = SqliteSchema[q.line] /\ s \in Definition /\ s.op = "create"
    <3>1. \A i \in 1..Len(SqliteSchema) : SqliteSchema[i].op = "create"
      BY DEF SqliteSchema, Plain, Create
    <3>2. QED
      BY <1>5, <2>1, <2>2, <3>1, SqliteType, ElementOfSeq
  <2>4. ExecCreate(p, s)
    BY <1>6, <2>3 DEF ExecAdd, ExecDrop, ExecRecord, ExecUnrecord
  <2>5. recorded' = recorded
    BY <2>4 DEF ExecCreate
  <2>6. Defines(p, s) /\ tables' \in SUBSET Tables /\ parts' \in [Tables -> SUBSET Parts]
    BY <1>7, <1>8, <1>11, <2>3, <2>4, <2>5, DefinesLemma
  <2>7. ServerCreatesTable(p)
    BY <1>2, <1>11, <2>1, <2>2, <2>3, <2>6 DEF ServerCreatesTable
  <2>8. QED
    BY <1>1, <2>5, <2>6, <2>7 DEF Effects
<1>12. CASE q.stage = "record"
  <2>0. q.version \in Versions /\ p = Server /\ q.line = 1
    BY <1>1, <1>2, <1>12 DEF LineOK
  <2>1. PICK v : v = q.version
    OBVIOUS
  <2>2. Code(q) = <<RecordOrIgnore(v)>>
    BY <1>12, <2>1 DEF Code
  <2>3. s = RecordOrIgnore(v) /\ Len(Code(q)) = 1
    BY <1>5, <2>0, <2>2
  <2>4. ExecRecord(p, s) /\ s.version = v /\ s.op # "record"
    BY <1>6, <2>3 DEF RecordOrIgnore, ExecCreate, ExecAdd, ExecDrop, ExecUnrecord
  <2>5. After(q) = RecordFrom(v + 1)
    BY <1>4, <1>12, <2>0, <2>1, <2>3 DEF After
  <2>6. at'[p] = RecordFrom(v + 1)
    BY <1>1, <1>2, <2>4, <2>5, GoesTo DEF ExecRecord
  <2>7. recorded' = recorded \cup {v} /\ UNCHANGED <<tables, parts>>
    BY <2>4 DEF ExecRecord
  <2>8. ServerRecords(p)
    BY <1>2, <1>12, <2>0, <2>1, <2>6, <2>7 DEF ServerRecords
  <2>9. QED
    BY <1>1, <2>0, <2>1, <2>7, <2>8 DEF Effects
<1>13. CASE q.stage = "alter"
  <2>1. Code(q) = InlineMigrations /\ p = Server
    BY <1>1, <1>2, <1>13 DEF Code, LineOK
  <2>2. q.line \in 1..Len(InlineMigrations)
    BY <1>4, <2>1, InlineType
  <2>3. s = InlineMigrations[q.line] /\ s \in Definition
    BY <1>5, <2>1, <2>2, InlineType, ElementOfSeq
  <2>4. ExecCreate(p, s) \/ ExecAdd(p, s)
    BY <1>6, <2>3 DEF Definition, ExecDrop, ExecRecord, ExecUnrecord
  <2>5. recorded' = recorded
    BY <2>4 DEF ExecCreate, ExecAdd
  <2>6. Defines(p, s) /\ tables' \in SUBSET Tables /\ parts' \in [Tables -> SUBSET Parts]
    BY <1>7, <1>8, <1>13, <2>3, <2>4, <2>5, DefinesLemma
  <2>7. ServerAlters(p)
    BY <1>2, <1>13, <2>1, <2>2, <2>3, <2>6 DEF ServerAlters
  <2>8. QED
    BY <1>1, <2>5, <2>6, <2>7 DEF Effects
<1>14. QED
  BY <1>3, <1>4, <1>9, <1>10, <1>11, <1>12, <1>13 DEF Positions, Stages

-----------------------------------------------------------------------------
(* The steps.                                                               *)

\* MAX(version) is recorded and nothing above it is.
LEMMA CurrentIs ==
  ASSUME recorded \in SUBSET Versions
  PROVE  /\ CurrentVersion \in recorded \cup {0} /\ CurrentVersion \in 0..8
         /\ \A w \in recorded : w <= CurrentVersion
<1>1. \E v \in recorded \cup {0} : \A w \in recorded : w <= v
  <2>1. CASE 8 \in recorded
    BY <2>1 DEF Versions
  <2>2. CASE 8 \notin recorded /\ 7 \in recorded
    BY <2>2 DEF Versions
  <2>3. CASE recorded \subseteq 1..6 /\ 6 \in recorded
    BY <2>3
  <2>4. CASE recorded \subseteq 1..5 /\ 5 \in recorded
    BY <2>4
  <2>5. CASE recorded \subseteq 1..4 /\ 4 \in recorded
    BY <2>5
  <2>6. CASE recorded \subseteq 1..3 /\ 3 \in recorded
    BY <2>6
  <2>7. CASE recorded \subseteq 1..2 /\ 2 \in recorded
    BY <2>7
  <2>8. CASE recorded \subseteq 1..1
    BY <2>8
  <2>9. QED
    BY <2>1, <2>2, <2>3, <2>4, <2>5, <2>6, <2>7, <2>8 DEF Versions
<1>2. CurrentVersion \in recorded \cup {0} /\ \A w \in recorded : w <= CurrentVersion
  BY <1>1 DEF CurrentVersion
<1>3. QED
  BY <1>2 DEF Versions

SameData == UNCHANGED <<tables, parts, recorded>>
SameRun == UNCHANGED <<runs, clash, quiet, origin, upRan>>

Begins(p) ==
  \E stage \in {"up", "down", "create"} :
    /\ stage = "create" <=> p = Server
    /\ Idle(p) /\ runs < MaxRuns /\ runs' = runs + 1
    /\ at'[p] \in Positions /\ at'[p].stage = stage
    /\ at'[p].line = IF stage = "create" THEN 1 ELSE 0
    /\ clash' = (clash \/ RollingBack \/ (stage = "down" /\ \E q \in Programs : ~Idle(q)))
    /\ quiet' = IF stage = "create" THEN ~RollingBack ELSE quiet /\ stage # "down"
    /\ ready' = (ready /\ stage = "up")
    /\ upRan' = (upRan \/ stage = "up")
    /\ SameData /\ UNCHANGED <<cut, origin>>

Reads(p) ==
  /\ at[p].stage \in {"up", "down"} /\ at[p].line = 0
  /\ \E c \in 0..8 :
       /\ c \in recorded \cup {0} /\ \A w \in recorded : w <= c
       /\ at'[p] = IF at[p].stage = "up" THEN UpFrom(c + 1, at[p].target)
                   ELSE DownFrom(c, at[p].target)
  /\ SameData /\ SameRun /\ UNCHANGED <<cut, ready>>

Counts(p) ==
  /\ at[p].stage = "create" /\ at[p].line > Len(SqliteSchema)
  /\ at'[p] = Alter \/ (recorded = {} /\ at'[p] = Position("record", 1, 1, 0))
  /\ SameData /\ SameRun /\ UNCHANGED <<cut, ready>>

Executes(p) ==
  /\ Effects(p)
  /\ tables' \in SUBSET Tables /\ parts' \in [Tables -> SUBSET Parts]
  /\ recorded' \in SUBSET Versions
  /\ SameRun /\ UNCHANGED <<cut, ready>>

Serves(p) ==
  /\ at[p].stage = "alter" /\ at[p].line > Len(InlineMigrations)
  /\ Stops(p)
  /\ ready' = quiet
  /\ cut' = (cut /\ ~quiet)
  /\ SameData /\ SameRun

Dies(p) ==
  /\ ~Idle(p)
  /\ Stops(p)
  /\ cut' = (cut \/ at[p].stage # "up")
  /\ SameData /\ SameRun /\ UNCHANGED ready

Step(p) ==
  /\ p \in Programs
  /\ Moves(p)
  /\ Begins(p) \/ Reads(p) \/ Counts(p) \/ Executes(p) \/ Serves(p) \/ Dies(p)

LEMMA StartSteps ==
  ASSUME TypeInv, NEW p \in Programs, NEW stage \in {"up", "down", "create"},
         NEW target \in 0..8, NEW line \in {0, 1}, line = IF stage = "create" THEN 1 ELSE 0,
         stage = "create" <=> p = Server, Start(p, stage, line, target)
  PROVE  Step(p)
<1>1. at \in [Programs -> Positions]
  BY DEF TypeInv, PositionInv
<1>2. PICK x : x = Position(stage, 0, line, target)
  OBVIOUS
<1>3. Goes(p, x)
  BY <1>2 DEF Start, Goes
<1>4. at'[p] = x /\ Moves(p)
  BY <1>1, <1>3, GoesTo
<1>5. x \in Positions /\ x.stage = stage /\ x.line = line
  BY <1>2 DEF Position, Positions, Stages
<1>6. Begins(p)
  BY <1>4, <1>5 DEF Begins, Start, SameData
<1>7. QED
  BY <1>4, <1>6 DEF Step

LEMMA Steps ==
  ASSUME TypeInv, Next
  PROVE  \E p \in Programs : Step(p)
<1>1. /\ at \in [Programs -> Positions] /\ recorded \in SUBSET Versions
      /\ Server \notin Tools /\ Targets \subseteq 0..8 /\ Server \in Programs /\ Tools \subseteq Programs
  BY SchemaAssumption DEF TypeInv, TypeOK, PositionInv, Programs
<1>2. CASE StartServer
  BY <1>1, <1>2, StartSteps DEF StartServer
<1>3. ASSUME NEW p \in Tools, MigrateUp(p) \/ MigrateDown(p) PROVE Step(p)
  <2>1. CASE MigrateUp(p)
    BY <1>1, <2>1, StartSteps DEF MigrateUp
  <2>2. CASE MigrateDown(p)
    BY <1>1, <2>2, StartSteps DEF MigrateDown
  <2>3. QED
    BY <1>3, <2>1, <2>2
<1>4. ASSUME NEW p \in Programs, Continue(p) PROVE Step(p)
  <2>0. SameRun
    BY <1>4 DEF Continue, SameRun
  <2>1. CASE ReadVersion(p)
    <3>1. PICK x : x = IF at[p].stage = "up" THEN UpFrom(CurrentVersion + 1, at[p].target)
                       ELSE DownFrom(CurrentVersion, at[p].target)
      OBVIOUS
    <3>2. Goes(p, x)
      BY <2>1, <3>1 DEF ReadVersion
    <3>3. at'[p] = x /\ Moves(p)
      BY <1>1, <3>2, GoesTo
    <3>4. PICK c : c = CurrentVersion
      OBVIOUS
    <3>5. c \in recorded \cup {0} /\ c \in 0..8 /\ \A w \in recorded : w <= c
      BY <1>1, <3>4, CurrentIs
    <3>6. Reads(p)
      BY <2>0, <2>1, <3>1, <3>3, <3>4, <3>5 DEF ReadVersion, Reads, SameData
    <3>7. QED
      BY <3>3, <3>6 DEF Step
  <2>2. CASE CountMigrations(p)
    <3>1. PICK x : x = IF recorded = {} THEN RecordFrom(1) ELSE Alter
      OBVIOUS
    <3>2. Goes(p, x)
      BY <2>2, <3>1 DEF CountMigrations
    <3>3. at'[p] = x /\ Moves(p)
      BY <1>1, <3>2, GoesTo
    <3>4. Counts(p)
      BY <2>0, <2>2, <3>1, <3>3 DEF CountMigrations, Counts, SameData, RecordFrom
    <3>5. QED
      BY <3>3, <3>4 DEF Step
  <2>3. CASE Execute(p)
    <3>1. Moves(p)
      <4>1. PICK s : ExecCreate(p, s) \/ ExecAdd(p, s) \/ ExecDrop(p, s) \/ ExecRecord(p, s) \/ ExecUnrecord(p, s)
        BY <2>3 DEF Execute
      <4>2. \E x : Goes(p, x)
        BY <4>1 DEF ExecCreate, ExecAdd, ExecDrop, ExecRecord, ExecUnrecord
      <4>3. QED
        BY <1>1, <4>2, GoesTo
    <3>2. Executes(p)
      BY <2>0, <2>3, ExecuteEffects DEF Executes, Execute
    <3>3. QED
      BY <3>1, <3>2 DEF Step
  <2>4. CASE Serve(p)
    <3>1. at'[p] = Ended /\ Moves(p)
      BY <1>1, <2>4, GoesTo DEF Serve
    <3>2. Serves(p)
      BY <2>0, <2>4, <3>1 DEF Serve, Serves, Stops, SameData
    <3>3. QED
      BY <3>1, <3>2 DEF Step
  <2>5. QED
    BY <1>4, <2>1, <2>2, <2>3, <2>4 DEF Continue
<1>5. ASSUME NEW p \in Programs, Killed(p) PROVE Step(p)
  <2>1. at'[p] = Ended /\ Moves(p)
    BY <1>1, <1>5, GoesTo DEF Killed
  <2>2. Dies(p)
    BY <1>5, <2>1 DEF Killed, Dies, Stops, SameData, SameRun
  <2>3. QED
    BY <2>1, <2>2 DEF Step
<1>6. QED
  BY <1>1, <1>2, <1>3, <1>4, <1>5 DEF Next

-----------------------------------------------------------------------------
(* Types.                                                                   *)

\* The position a step leads to.
LEMMA NewPosition ==
  ASSUME TypeInv, NEW p \in Programs, Step(p)
  PROVE  at'[p] \in Positions /\ LineOK(p, at'[p])
<1>1. at[p] \in Positions /\ LineOK(p, at[p]) /\ Server \notin Tools /\ (p \in Tools \/ p = Server)
  BY SchemaAssumption DEF TypeInv, PositionInv, Programs
<1>2. /\ Len(SqliteSchema) \in Nat /\ Len(InlineMigrations) \in Nat
      /\ \A v \in Versions : Len(UpSQL[v]) \in Nat /\ Len(DownSQL[v]) \in Nat
  BY SqliteType, InlineType, UpType, DownType
<1>3. ASSUME NEW v \in 1..9, NEW target \in 0..8, p \in Tools
      PROVE  UpFrom(v, target) \in Positions /\ LineOK(p, UpFrom(v, target))
  BY <1>1, <1>2, <1>3 DEF UpFrom, Position, Ended, Positions, Stages, LineOK, Versions
<1>4. ASSUME NEW v \in 0..8, NEW target \in 0..8, p \in Tools
      PROVE  DownFrom(v, target) \in Positions /\ LineOK(p, DownFrom(v, target))
  <2>1. CASE v > target
    <3>1. v \in (target + 1)..8 /\ v \in Versions /\ 1 <= Len(DownSQL[v]) + 1
      <4>1. v \in (target + 1)..8 /\ v \in Versions
        BY <2>1 DEF Versions
      <4>2. Len(DownSQL[v]) \in Nat
        BY <1>2, <4>1
      <4>3. QED
        BY <4>1, <4>2
    <3>2. DownFrom(v, target) = Position("down", v, 1, target)
      BY <2>1 DEF DownFrom
    <3>3. QED
      BY <1>4, <3>1, <3>2 DEF Position, Positions, Stages, LineOK
  <2>2. CASE ~(v > target)
    BY <2>2 DEF DownFrom, Ended, Position, Positions, Stages, LineOK
  <2>3. QED
    BY <2>1, <2>2
<1>5. Ended \in Positions /\ LineOK(p, Ended)
  BY DEF Ended, Position, Positions, Stages, LineOK
<1>6. ASSUME p = Server PROVE Alter \in Positions /\ LineOK(p, Alter)
  BY <1>1, <1>2, <1>6 DEF Alter, Position, Positions, Stages, LineOK
<1>7. ASSUME NEW v \in 1..9, p = Server PROVE RecordFrom(v) \in Positions /\ LineOK(p, RecordFrom(v))
  BY <1>1, <1>2, <1>6, <1>7 DEF RecordFrom, Position, Positions, Stages, LineOK, Versions
<1>9. CASE Begins(p)
  <2>1. PICK stage \in {"up", "down", "create"} :
          /\ stage = "create" <=> p = Server
          /\ at'[p] \in Positions /\ at'[p].stage = stage
          /\ at'[p].line = IF stage = "create" THEN 1 ELSE 0
    BY <1>9 DEF Begins
  <2>2. QED
    BY <1>1, <1>2, <2>1 DEF LineOK
<1>10. CASE Reads(p)
  <2>1. PICK c \in 0..8 : at'[p] = IF at[p].stage = "up" THEN UpFrom(c + 1, at[p].target)
                                    ELSE DownFrom(c, at[p].target)
    BY <1>10 DEF Reads
  <2>2. p \in Tools /\ at[p].target \in 0..8
    BY <1>1, <1>10 DEF Reads, LineOK, Positions
  <2>3. QED
    BY <1>3, <1>4, <2>1, <2>2
<1>11. CASE Counts(p)
  <2>1. p = Server /\ (at'[p] = Alter \/ at'[p] = RecordFrom(1))
    BY <1>1, <1>11 DEF Counts, LineOK, RecordFrom
  <2>2. QED
    BY <1>6, <1>7, <2>1
<1>12. CASE Executes(p)
  <2>0. Effects(p) /\ at[p].version \in 0..8 /\ at[p].target \in 0..8
    BY <1>1, <1>12 DEF Executes, Positions
  <2>1. CASE UpDefines(p)
    <3>1. Advances(p) \/ Stops(p)
      BY <2>1 DEF UpDefines, Defines
    <3>2. CASE Stops(p)
      BY <1>5, <3>2 DEF Stops
    <3>3. CASE Advances(p)
      BY <1>1, <1>2, <2>0, <2>1, <3>3 DEF UpDefines, Advances, LineOK
    <3>4. QED
      BY <3>1, <3>2, <3>3
  <2>2. CASE UpRecords(p)
    BY <1>3, <1>5, <2>0, <2>2 DEF UpRecords, Stops, Versions
  <2>3. CASE DownDrops(p)
    BY <1>1, <1>2, <2>0, <2>3 DEF DownDrops, Advances, LineOK
  <2>4. CASE DownUnrecords(p)
    BY <1>4, <2>0, <2>4 DEF DownUnrecords, Versions
  <2>5. CASE ServerCreatesTable(p)
    <3>1. Advances(p)
      BY <2>5 DEF ServerCreatesTable, Defines
    <3>2. QED
      BY <1>1, <1>2, <2>5, <3>1 DEF ServerCreatesTable, Advances, LineOK
  <2>6. CASE ServerRecords(p)
    BY <1>7, <2>6 DEF ServerRecords, Versions
  <2>7. CASE ServerAlters(p)
    <3>1. Advances(p)
      BY <2>7 DEF ServerAlters, Defines
    <3>2. QED
      BY <1>1, <1>2, <2>7, <3>1 DEF ServerAlters, Advances, LineOK
  <2>8. QED
    BY <2>0, <2>1, <2>2, <2>3, <2>4, <2>5, <2>6, <2>7 DEF Effects
<1>13. CASE Serves(p) \/ Dies(p)
  BY <1>5, <1>13 DEF Serves, Dies, Stops
<1>14. QED
  BY <1>9, <1>10, <1>11, <1>12, <1>13 DEF Step

(* Every step keeps the types.                                              *)
LEMMA TypeStep ==
  ASSUME TypeInv, NEW p \in Programs, Step(p)
  PROVE  TypeInv'
<1>1. at'[p] \in Positions /\ LineOK(p, at'[p])
  BY NewPosition
<1>2. PositionInv'
  BY <1>1 DEF TypeInv, PositionInv, Step, Moves
<1>3. /\ tables' \in SUBSET Tables /\ parts' \in [Tables -> SUBSET Parts]
      /\ recorded' \in SUBSET Versions
  BY DEF TypeInv, TypeOK, Step, Begins, Reads, Counts, Executes, Serves, Dies, SameData
<1>4. runs' \in 0..MaxRuns /\ origin' \in {"empty", "old"}
  BY SchemaAssumption DEF TypeInv, TypeOK, Step, Begins, Reads, Counts, Executes, Serves, Dies, SameRun
<1>5. clash' \in BOOLEAN /\ quiet' \in BOOLEAN /\ upRan' \in BOOLEAN
  BY Zenon DEF TypeInv, TypeOK, Step, Begins, Reads, Counts, Executes, Serves, Dies, SameRun
<1>6. cut' \in BOOLEAN
  BY DEF TypeInv, TypeOK, Step, Begins, Reads, Counts, Executes, Serves, Dies
<1>7. ready' \in BOOLEAN
  BY DEF TypeInv, TypeOK, Step, Begins, Reads, Counts, Executes, Serves, Dies
<1>8. QED
  BY <1>2, <1>3, <1>4, <1>5, <1>6, <1>7 DEF TypeInv, TypeOK, PositionInv

-----------------------------------------------------------------------------
(* The invariants, step by step.                                            *)

(* A step that is not a start of a program is one of a program that runs,   *)
(* and only the server goes from one stage to another.                      *)
LEMMA StageStep ==
  ASSUME TypeInv, NEW p \in Programs, Step(p), ~Begins(p)
  PROVE  /\ ~Idle(p) /\ UNCHANGED <<clash, quiet, origin, upRan>>
         /\ \/ at'[p].stage \in {"ended", at[p].stage}
            \/ p = Server /\ at[p].stage \in {"create", "record"} /\ at'[p].stage \in {"record", "alter"}
<1>1. LineOK(p, at[p])
  BY DEF TypeInv, PositionInv
<1>2. CASE Reads(p)
  BY <1>2 DEF Reads, SameRun, Idle, UpFrom, DownFrom, Position, Ended
<1>3. CASE Counts(p)
  BY <1>1, <1>3 DEF Counts, SameRun, Idle, Alter, Position, LineOK
<1>4. CASE Executes(p)
  <2>0. Effects(p) /\ SameRun
    BY <1>4 DEF Executes
  <2>1. CASE UpDefines(p) \/ DownDrops(p) \/ ServerCreatesTable(p) \/ ServerAlters(p)
    <3>1. Advances(p) \/ Stops(p)
      BY <2>1 DEF UpDefines, DownDrops, ServerCreatesTable, ServerAlters, Defines
    <3>2. ~Idle(p)
      BY <2>1 DEF UpDefines, DownDrops, ServerCreatesTable, ServerAlters, Idle
    <3>3. QED
      BY <2>0, <3>1, <3>2 DEF Advances, Stops, Ended, Position, SameRun
  <2>2. CASE UpRecords(p)
    BY <2>0, <2>2 DEF UpRecords, SameRun, Idle, UpFrom, Stops, Position, Ended
  <2>3. CASE DownUnrecords(p)
    BY <2>0, <2>3 DEF DownUnrecords, SameRun, Idle, DownFrom, Position, Ended
  <2>4. CASE ServerRecords(p)
    BY <2>0, <2>4 DEF ServerRecords, SameRun, Idle, RecordFrom, Alter, Position
  <2>5. QED
    BY <2>0, <2>1, <2>2, <2>3, <2>4 DEF Effects
<1>5. CASE Serves(p)
  BY <1>5 DEF Serves, SameRun, Idle, Stops, Ended, Position
<1>6. CASE Dies(p)
  BY <1>6 DEF Dies, SameRun, Idle, Stops, Ended, Position
<1>7. QED
  BY <1>2, <1>3, <1>4, <1>5, <1>6 DEF Step

(* Rollbacks are alone.                                                     *)
LEMMA AloneStep ==
  ASSUME TypeInv, AloneInv, NEW p \in Programs, Step(p)
  PROVE  AloneInv'
<1>0. /\ \A r \in Programs : r # p => at'[r] = at[r]
      /\ Server \in Programs
  BY DEF Step, Moves, Programs
<1>1. CASE Begins(p)
  <2>1. PICK stage \in {"up", "down", "create"} :
          /\ stage = "create" <=> p = Server
          /\ Idle(p) /\ at'[p].stage = stage
          /\ clash' = (clash \/ RollingBack \/ (stage = "down" /\ \E q \in Programs : ~Idle(q)))
          /\ quiet' = IF stage = "create" THEN ~RollingBack ELSE quiet /\ stage # "down"
          /\ ready' = (ready /\ stage = "up")
    BY <1>1 DEF Begins
  <2>2. ASSUME ~clash' PROVE \A r, q \in Programs : at'[r].stage = "down" /\ r # q => at'[q].stage = "ended"
    <3>1. ~RollingBack /\ (stage = "down" => \A q \in Programs : Idle(q))
      BY <2>1, <2>2
    <3>2. QED
      BY <1>0, <2>1, <3>1 DEF RollingBack, Idle
  <2>3. ASSUME ~clash', at'[Server].stage # "ended" PROVE quiet'
    <3>1. ~clash /\ ~RollingBack /\ (stage = "down" => \A q \in Programs : Idle(q))
      BY <2>1, <2>3
    <3>2. CASE p = Server
      BY <2>1, <3>1, <3>2
    <3>3. CASE p # Server
      <4>1. ~Idle(Server)
        BY <1>0, <2>3, <3>3 DEF Idle
      <4>2. quiet /\ stage # "down" /\ stage # "create"
        BY <1>0, <2>1, <3>1, <3>3, <4>1 DEF AloneInv
      <4>3. QED
        BY <2>1, <4>2
    <3>4. QED
      BY <3>2, <3>3
  <2>4. ASSUME quiet' PROVE \A r \in Programs : at'[r].stage # "down"
    <3>1. ~RollingBack /\ stage # "down"
      BY <2>1, <2>4 DEF AloneInv
    <3>2. QED
      BY <1>0, <2>1, <3>1 DEF RollingBack
  <2>5. ASSUME ready' PROVE quiet'
    BY <2>1, <2>5 DEF AloneInv
  <2>6. QED
    BY <2>2, <2>3, <2>4, <2>5 DEF AloneInv, Idle, RollingBack
<1>2. CASE ~Begins(p)
  <2>1. /\ ~Idle(p) /\ clash' = clash /\ quiet' = quiet
        /\ at'[p].stage = "down" => at[p].stage = "down"
    BY <1>2, StageStep
  <2>2. ready' => ready \/ quiet
    BY <1>2 DEF Step, Reads, Counts, Executes, Serves, Dies
  <2>3. \A r \in Programs : /\ at'[r].stage = "down" => at[r].stage = "down"
                            /\ Idle(r) => at'[r].stage = "ended"
    BY <1>0, <2>1 DEF Idle
  <2>4. QED
    BY <1>0, <2>1, <2>2, <2>3 DEF AloneInv, Idle, RollingBack
<1>3. QED
  BY <1>1, <1>2

(* What a program that is not stopped finds of the others.                  *)
LEMMA AloneWhenDown ==
  ASSUME AloneInv, ~clash, NEW p \in Programs, at[p].stage = "down"
  PROVE  \A q \in Programs : q # p => at[q].stage = "ended"
BY DEF AloneInv, Idle

LEMMA NoneDown ==
  ASSUME AloneInv, ~clash, NEW p \in Programs, at[p].stage \notin {"ended", "down"}
  PROVE  \A q \in Programs : at[q].stage # "down"
BY DEF AloneInv, Idle

(* Versions go up one by one, and down one by one.                          *)
LEMMA GapStep ==
  ASSUME TypeInv, AloneInv, GapInv, NEW p \in Programs, Step(p)
  PROVE  GapInv'
<1> SUFFICES ASSUME ~clash'
             PROVE  /\ \A v \in recorded', w \in Versions : w < v => w \in recorded'
                    /\ \A r \in Programs :
                         /\ at'[r].stage \in {"up", "record"} /\ at'[r].line > 0 =>
                              \A w \in Versions : w < at'[r].version => w \in recorded'
                         /\ at'[r].stage = "down" /\ at'[r].line > 0 =>
                              at'[r].version \in recorded' /\ \A w \in recorded' : w <= at'[r].version
  BY DEF GapInv
<1>0. /\ \A r \in Programs : r # p => at'[r] = at[r]
      /\ recorded \in SUBSET Versions /\ at[p] \in Positions /\ LineOK(p, at[p])
  BY DEF Step, Moves, TypeInv, TypeOK, PositionInv
<1>1. ~clash
  BY DEF Step, Begins, Reads, Counts, Executes, Serves, Dies, SameRun
<1>2. /\ \A v \in recorded, w \in Versions : w < v => w \in recorded
      /\ \A r \in Programs :
         /\ at[r].stage \in {"up", "record"} /\ at[r].line > 0 =>
              \A w \in Versions : w < at[r].version => w \in recorded
         /\ at[r].stage = "down" /\ at[r].line > 0 =>
              at[r].version \in recorded /\ \A w \in recorded : w <= at[r].version
  BY <1>1 DEF GapInv
<1>3. CASE Begins(p)
  <2>1. /\ recorded' = recorded
        /\ at'[p].stage = "create" \/ (at'[p].stage \in {"up", "down"} /\ at'[p].line = 0)
    BY <1>3 DEF Begins, SameData
  <2>2. QED
    BY <1>0, <1>2, <2>1
<1>4. CASE Reads(p)
  <2>1. PICK c \in 0..8 :
          /\ c \in recorded \cup {0} /\ \A w \in recorded : w <= c
          /\ at'[p] = IF at[p].stage = "up" THEN UpFrom(c + 1, at[p].target)
                      ELSE DownFrom(c, at[p].target)
    BY <1>4 DEF Reads
  <2>2. recorded' = recorded /\ at[p].target \in Nat
    BY <1>0, <1>4 DEF Reads, SameData, Positions
  <2>3. \A w \in Versions : w < c + 1 => w \in recorded
    BY <1>0, <1>2, <2>1 DEF Versions
  <2>4. /\ at'[p].stage # "record"
        /\ at'[p].stage = "up" => at'[p].version = c + 1
        /\ at'[p].stage = "down" => at'[p].version = c /\ c > 0
    BY <2>1, <2>2 DEF UpFrom, DownFrom, Position, Ended
  <2>5. QED
    BY <1>0, <1>2, <2>1, <2>2, <2>3, <2>4
<1>5. CASE Counts(p)
  <2>1. /\ recorded' = recorded /\ at'[p].stage \in {"record", "alter"}
        /\ at'[p].stage = "record" => at'[p].version = 1
    BY <1>5 DEF Counts, SameData, Alter, Position
  <2>2. QED
    BY <1>0, <1>2, <2>1 DEF Versions
<1>6. CASE Executes(p)
  <2>0. Effects(p)
    BY <1>6 DEF Executes
  <2>1. CASE UpDefines(p) \/ DownDrops(p) \/ ServerCreatesTable(p) \/ ServerAlters(p)
    <3>1. (Advances(p) \/ Stops(p)) /\ recorded' = recorded
      BY <2>1 DEF UpDefines, DownDrops, ServerCreatesTable, ServerAlters, Defines
    <3>2. at[p].line > 0
      BY <2>1 DEF UpDefines, DownDrops, ServerCreatesTable, ServerAlters
    <3>3. /\ at'[p].stage \in {"ended", at[p].stage}
          /\ at'[p].stage # "ended" => at'[p].version = at[p].version
      BY <3>1 DEF Advances, Stops, Ended, Position
    <3>4. QED
      BY <1>0, <1>2, <3>1, <3>2, <3>3
  <2>2. CASE UpRecords(p) \/ ServerRecords(p)
    <3>1. PICK v \in Versions : v = at[p].version
      BY <2>2 DEF UpRecords, ServerRecords
    <3>2. recorded' = recorded \cup {v} /\ at[p].stage \in {"up", "record"} /\ at[p].line > 0
      <4>1. at[p].stage = "record" => at[p].line = 1
        BY <1>0 DEF LineOK
      <4>2. at[p].stage = "up" => at[p].line > 0
        BY <2>2, UpType DEF UpRecords, ServerRecords
      <4>3. QED
        BY <2>2, <3>1, <4>1, <4>2 DEF UpRecords, ServerRecords
    <3>3. \A w \in Versions : w < v + 1 => w \in recorded'
      BY <1>2, <3>1, <3>2 DEF Versions
    <3>4. /\ at'[p].stage \in {"ended", "up", "record", "alter"}
          /\ at'[p].stage \in {"up", "record"} => at'[p].version = v + 1
      BY <2>2, <3>1 DEF UpRecords, ServerRecords, UpFrom, RecordFrom, Alter, Stops, Ended, Position
    <3>5. \A q \in Programs : at[q].stage # "down"
      BY <1>1, <3>2, NoneDown
    <3>6. \A u \in recorded', w \in Versions : w < u => w \in recorded'
      BY <1>2, <3>2, <3>3 DEF Versions
    <3>7. ASSUME NEW r \in Programs
          PROVE  /\ at'[r].stage \in {"up", "record"} /\ at'[r].line > 0 =>
                      \A w \in Versions : w < at'[r].version => w \in recorded'
                 /\ at'[r].stage # "down"
      <4>1. CASE r = p
        BY <3>3, <3>4, <4>1
      <4>2. CASE r # p
        BY <1>0, <1>2, <3>2, <3>5, <4>2
      <4>3. QED
        BY <4>1, <4>2
    <3>8. QED
      BY <3>6, <3>7
  <2>3. CASE DownUnrecords(p)
    <3>1. PICK v \in Versions : v = at[p].version
      BY <2>3 DEF DownUnrecords
    <3>2. recorded' = recorded \ {v} /\ at[p].stage = "down" /\ at'[p] = DownFrom(v - 1, at[p].target)
      BY <2>3, <3>1 DEF DownUnrecords
    <3>3. at[p].line > 0 /\ at[p].target \in Nat
      BY <1>0, <2>3, DownType DEF DownUnrecords, Positions
    <3>4. v \in recorded /\ \A w \in recorded : w <= v
      BY <1>2, <3>1, <3>2, <3>3
    <3>5. \A u \in recorded', w \in Versions : w < u => w \in recorded'
      BY <1>0, <1>2, <3>2, <3>4 DEF Versions
    <3>6. /\ at'[p].stage \in {"ended", "down"}
          /\ at'[p].stage = "down" => at'[p].version = v - 1 /\ v - 1 > 0
      BY <3>1, <3>2, <3>3 DEF DownFrom, Position, Ended, Versions
    <3>7. v - 1 > 0 => v - 1 \in recorded' /\ \A w \in recorded' : w <= v - 1
      BY <1>0, <1>2, <3>2, <3>4 DEF Versions
    <3>8. \A q \in Programs : q # p => at'[q].stage = "ended"
      BY <1>0, <1>1, <3>2, AloneWhenDown
    <3>9. QED
      BY <3>5, <3>6, <3>7, <3>8
  <2>4. QED
    BY <2>0, <2>1, <2>2, <2>3 DEF Effects
<1>7. CASE Serves(p) \/ Dies(p)
  <2>1. recorded' = recorded /\ at'[p].stage = "ended"
    BY <1>7 DEF Serves, Dies, SameData, Stops, Ended, Position
  <2>2. QED
    BY <1>0, <1>2, <2>1
<1>8. QED
  BY <1>3, <1>4, <1>5, <1>6, <1>7 DEF Step

(* What is done stays done where nothing is undone.                         *)
LEMMA DoneStays ==
  ASSUME Grows, NEW s, Done(s)
  PROVE  Done(s)'
BY DEF Grows, Done

LEMMA SameGrows ==
  ASSUME SameData
  PROVE  Grows
BY DEF SameData, Grows

(* Only a rollback undoes.                                                  *)
LEMMA GrowsUnlessDown ==
  ASSUME NEW p \in Programs, Step(p), Begins(p) \/ at[p].stage # "down"
  PROVE  Grows
<1>1. CASE Executes(p)
  <2>1. Effects(p)
    BY <1>1 DEF Executes
  <2>2. CASE at[p].stage = "down"
    <3>1. FALSE
      BY <2>1, <2>2 DEF Begins, Idle
    <3>2. QED
      BY <3>1
  <2>3. CASE UpDefines(p) \/ ServerCreatesTable(p) \/ ServerAlters(p)
    BY <2>3 DEF UpDefines, ServerCreatesTable, ServerAlters, Defines
  <2>4. CASE UpRecords(p) \/ ServerRecords(p)
    BY <2>4 DEF UpRecords, ServerRecords, Grows
  <2>5. QED
    BY <2>1, <2>2, <2>3, <2>4 DEF Effects, DownDrops, DownUnrecords
<1>2. CASE ~Executes(p)
  <2>1. SameData
    BY <1>2 DEF Step, Begins, Reads, Counts, Serves, Dies
  <2>2. QED
    BY <2>1, SameGrows
<1>3. QED
  BY <1>1, <1>2

(* `up` has executed the statements before its line.                        *)
LEMMA UpStep ==
  ASSUME TypeInv, AloneInv, UpInv, NEW p \in Programs, Step(p)
  PROVE  UpInv'
<1> SUFFICES ASSUME ~clash', NEW r \in Programs, at'[r].stage = "up", at'[r].line > 0,
                    NEW i \in 1..Len(UpSQL[at'[r].version]), i < at'[r].line
             PROVE  Done(UpSQL[at[r].version][i])'
  BY DEF UpInv, DoneUpTo
<1>1. ~clash
  BY DEF Step, Begins, Reads, Counts, Executes, Serves, Dies, SameRun
<1>2. ASSUME r # p PROVE Done(UpSQL[at[r].version][i])'
  <2>1. at'[r] = at[r]
    BY <1>2 DEF Step, Moves
  <2>2. Done(UpSQL[at[r].version][i])
    BY <1>1, <2>1 DEF UpInv, DoneUpTo
  <2>3. at[p].stage # "down"
    BY <1>1, <1>2, <2>1, AloneWhenDown
  <2>4. Grows
    BY <2>3, GrowsUnlessDown
  <2>5. PICK x : x = UpSQL[at[r].version][i]
    OBVIOUS
  <2>6. Done(x)'
    BY <2>2, <2>4, <2>5, DoneStays
  <2>7. x = UpSQL[at'[r].version][i]
    BY <2>1, <2>5
  <2>8. QED
    BY <2>6, <2>7
<1>3. ASSUME r = p PROVE Done(UpSQL[at[r].version][i])'
  <2>1. ~Begins(p)
    BY <1>3 DEF Begins
  <2>2. at[p].stage = "up"
    BY <1>3, <2>1, StageStep
  <2>3. at'[p].line # 1 /\ at'[p].stage # "ended"
    BY <1>3, UpType, NewPosition DEF Positions
  <2>4. ~Reads(p) /\ ~Counts(p) /\ ~Serves(p) /\ ~Dies(p)
    BY <2>2, <2>3 DEF Reads, Counts, Serves, Dies, UpFrom, DownFrom, Stops, Ended, Position
  <2>5. UpDefines(p)
    <3>1. Effects(p)
      BY <2>1, <2>4 DEF Step, Executes
    <3>2. ~UpRecords(p)
      BY <2>3 DEF UpRecords, UpFrom, Stops, Ended, Position
    <3>3. QED
      BY <2>2, <3>1, <3>2 DEF Effects, DownDrops, DownUnrecords, ServerCreatesTable, ServerRecords, ServerAlters
  <2>6. PICK v, l : v = at[p].version /\ l = at[p].line /\ v \in Versions /\ l \in 1..Len(UpSQL[v])
    BY <2>5 DEF UpDefines
  <2>7. Grows /\ (Stops(p) \/ (Advances(p) /\ Done(UpSQL[v][l])'))
    <3>1. Defines(p, UpSQL[v][l]) /\ p # Server
      BY <2>5, <2>6, SchemaAssumption DEF UpDefines
    <3>2. QED
      BY <3>1 DEF Defines
  <2>8. at'[p].version = v /\ at'[p].line = l + 1 /\ Done(UpSQL[v][l])'
    BY <2>3, <2>6, <2>7 DEF Advances, Stops, Ended, Position
  <2>9. i \in 1..Len(UpSQL[v]) /\ (i = l \/ i < l)
    <3>1. Len(UpSQL[v]) \in Nat
      BY <2>6, UpType
    <3>2. i \in 1..Len(UpSQL[v]) /\ i < l + 1
      BY <1>3, <2>8
    <3>3. QED
      BY <2>6, <3>1, <3>2
  <2>10. ASSUME i < l PROVE Done(UpSQL[v][i])'
    <3>1. Done(UpSQL[v][i])
      BY <1>1, <2>2, <2>6, <2>9, <2>10 DEF UpInv, DoneUpTo
    <3>2. QED
      BY <2>7, <3>1, DoneStays
  <2>11. Done(UpSQL[v][i])'
    BY <2>8, <2>9, <2>10
  <2>12. QED
    BY <1>3, <2>8, <2>11
<1>4. QED
  BY <1>2, <1>3

(* A start that no rollback disturbs has executed what is before its line.  *)
LEMMA StartStep ==
  ASSUME TypeInv, AloneInv, StartInv, NEW p \in Programs, Step(p)
  PROVE  StartInv'
<1> SUFFICES ASSUME quiet' PROVE StartInv'
  BY DEF StartInv
<1>0. /\ Server \in Programs /\ \A r \in Programs : r # p => at'[r] = at[r]
      /\ Len(SqliteSchema) \in Nat /\ Len(InlineMigrations) \in Nat
      /\ at[p] \in Positions /\ LineOK(p, at[p])
  BY SqliteType, InlineType DEF Step, Moves, Programs, TypeInv, PositionInv
<1>1. CASE Begins(p) /\ p = Server
  <2>1. at'[p].stage = "create" /\ at'[p].line = 1
    BY <1>1 DEF Begins
  <2>2. QED
    BY <1>0, <1>1, <2>1 DEF StartInv, DoneUpTo
<1>2. CASE ~(Begins(p) /\ p = Server)
  <2>1. quiet
    BY <1>2 DEF Step, Begins, Reads, Counts, Executes, Serves, Dies, SameRun
  <2>2. at[p].stage # "down"
    BY <2>1 DEF AloneInv, RollingBack
  <2>3. Grows
    BY <2>2, GrowsUnlessDown
  <2>4. \A i \in 1..Len(SqliteSchema) : Done(SqliteSchema[i]) => Done(SqliteSchema[i])'
    BY <2>3, DoneStays
  <2>5. \A i \in 1..Len(InlineMigrations) : Done(InlineMigrations[i]) => Done(InlineMigrations[i])'
    BY <2>3, DoneStays
  <2>6. CASE p # Server
    <3>1. at'[Server] = at[Server]
      BY <1>0, <2>6
    <3>2. QED
      BY <2>1, <2>4, <2>5, <3>1 DEF StartInv, DoneUpTo
  <2>7. CASE p = Server /\ Counts(p)
    <3>1. \A i \in 1..Len(SqliteSchema) : Done(SqliteSchema[i])
      BY <1>0, <2>1, <2>7 DEF Counts, StartInv, DoneUpTo, Positions
    <3>2. at'[p].stage \in {"record", "alter"} /\ at'[p].line = 1
      BY <2>7 DEF Counts, Alter, Position
    <3>3. QED
      BY <1>0, <2>4, <2>7, <3>1, <3>2 DEF StartInv, DoneUpTo
  <2>8. CASE p = Server /\ ServerCreatesTable(p)
    <3>1. PICK l : l = at[p].line /\ l \in 1..Len(SqliteSchema)
      BY <2>8 DEF ServerCreatesTable
    <3>2. Advances(p) /\ Done(SqliteSchema[l])'
      <4>1. Defines(p, SqliteSchema[l]) /\ SqliteSchema[l].op = "create"
        BY <2>8, <3>1 DEF ServerCreatesTable
      <4>2. QED
        BY <4>1 DEF Defines
    <3>3. at'[p].stage = "create" /\ at'[p].line = l + 1
      BY <2>8, <3>1, <3>2 DEF ServerCreatesTable, Advances
    <3>4. \A i \in 1..Len(SqliteSchema) : i < l => Done(SqliteSchema[i])
      BY <2>1, <2>8, <3>1 DEF ServerCreatesTable, StartInv, DoneUpTo
    <3>5. \A i \in 1..Len(SqliteSchema) : i < l + 1 => i = l \/ i < l
      BY <1>0, <3>1
    <3>6. \A i \in 1..Len(SqliteSchema) : i < l + 1 => Done(SqliteSchema[i])'
      BY <2>4, <3>2, <3>4, <3>5
    <3>7. QED
      BY <2>8, <3>3, <3>6 DEF StartInv, DoneUpTo
  <2>9. CASE p = Server /\ ServerRecords(p)
    <3>1. /\ at'[p].stage \in {"record", "alter"} /\ at'[p].line = 1
          /\ at[p].stage = "record"
      BY <2>9 DEF ServerRecords, RecordFrom, Alter, Position
    <3>2. \A i \in 1..Len(SqliteSchema) : Done(SqliteSchema[i])
      BY <2>1, <2>9, <3>1 DEF StartInv
    <3>3. QED
      BY <1>0, <2>4, <2>9, <3>1, <3>2 DEF StartInv, DoneUpTo
  <2>10. CASE p = Server /\ ServerAlters(p)
    <3>1. PICK l : l = at[p].line /\ l \in 1..Len(InlineMigrations)
      BY <2>10 DEF ServerAlters
    <3>2. \A i \in 1..Len(SqliteSchema) : Done(SqliteSchema[i])
      BY <2>1, <2>10 DEF ServerAlters, StartInv
    <3>3. InlineMigrations[l].op = "add" => InlineMigrations[l].table \in tables
      BY <3>1, <3>2, AltersOwn DEF Done
    <3>4. Defines(p, InlineMigrations[l])
      BY <2>10, <3>1 DEF ServerAlters
    <3>5. Advances(p) /\ Done(InlineMigrations[l])'
      BY <3>3, <3>4 DEF Defines
    <3>6. at'[p].stage = "alter" /\ at'[p].line = l + 1
      BY <2>10, <3>1, <3>5 DEF ServerAlters, Advances
    <3>7. \A i \in 1..Len(InlineMigrations) : i < l => Done(InlineMigrations[i])
      BY <2>1, <2>10, <3>1 DEF ServerAlters, StartInv, DoneUpTo
    <3>8. \A i \in 1..Len(InlineMigrations) : i < l + 1 => i = l \/ i < l
      BY <1>0, <3>1
    <3>9. \A i \in 1..Len(InlineMigrations) : i < l + 1 => Done(InlineMigrations[i])'
      BY <2>5, <3>5, <3>7, <3>8
    <3>10. QED
      BY <2>4, <2>10, <3>2, <3>6, <3>9 DEF StartInv, DoneUpTo
  <2>11. CASE p = Server /\ (Serves(p) \/ Dies(p))
    <3>1. at'[p].stage = "ended"
      BY <2>11 DEF Serves, Dies, Stops, Ended, Position
    <3>2. QED
      BY <2>11, <3>1 DEF StartInv
  <2>12. ASSUME p = Server
         PROVE  \/ Counts(p) \/ ServerCreatesTable(p) \/ ServerRecords(p) \/ ServerAlters(p)
                \/ Serves(p) \/ Dies(p)
    <3>1. ~Reads(p) /\ ~UpDefines(p) /\ ~UpRecords(p) /\ ~DownDrops(p) /\ ~DownUnrecords(p)
      BY <1>0, <2>12, SchemaAssumption DEF Reads, LineOK, UpDefines, UpRecords, DownDrops, DownUnrecords
    <3>2. QED
      BY <1>2, <2>12, <3>1 DEF Step, Executes, Effects
  <2>13. QED
    BY <2>6, <2>7, <2>8, <2>9, <2>10, <2>11, <2>12
<1>3. QED
  BY <1>1, <1>2

(* At its end everything is there.                                          *)
LEMMA ServeDefines ==
  ASSUME TypeInv, StartInv, quiet, NEW p \in Programs, Serves(p)
  PROVE  p = Server /\ (\A v \in Versions : There(v)) /\ \A s \in Defining : Done(s)
<1>1. at[p].stage = "alter" /\ at[p].line > Len(InlineMigrations) /\ at[p] \in Positions /\ LineOK(p, at[p])
  BY DEF Serves, TypeInv, PositionInv
<1>2. p = Server
  BY <1>1 DEF LineOK
<1>3. \A i \in 1..Len(SqliteSchema) : Done(SqliteSchema[i])
  BY <1>1, <1>2 DEF StartInv
<1>4. \A i \in 1..Len(InlineMigrations) : i < at[p].line
  BY <1>1, InlineType DEF Positions
<1>5. \A i \in 1..Len(InlineMigrations) : Done(InlineMigrations[i])
  BY <1>1, <1>2, <1>4 DEF StartInv, DoneUpTo
<1>6. QED
  BY <1>2, <1>3, <1>5, ServerDefines DEF There

LEMMA ThereStays ==
  ASSUME Grows, NEW v, There(v)
  PROVE  There(v)'
<1>1. \A i \in 1..Len(UpSQL[v]) : Done(UpSQL[v][i])'
  BY DoneStays DEF There
<1>2. QED
  BY <1>1 DEF There

(* What is recorded is there, or a start makes it, or a rollback undoes it. *)
LEMMA ThereStep ==
  ASSUME TypeInv, AloneInv, GapInv, UpInv, StartInv, ThereInv, NEW p \in Programs, Step(p)
  PROVE  ThereInv'
<1>0. /\ Server \in Programs /\ \A r \in Programs : r # p => at'[r] = at[r]
      /\ at[p] \in Positions /\ LineOK(p, at[p]) /\ Server \notin Tools
  BY SchemaAssumption DEF Step, Moves, Programs, TypeInv, PositionInv
<1> SUFFICES ASSUME ~clash', ~cut', NEW v \in recorded'
             PROVE  \/ There(v)'
                    \/ at'[Server].stage \in {"record", "alter"}
                    \/ \E r \in Programs : at'[r].stage = "down" /\ at'[r].line > 0 /\ at'[r].version = v
  BY DEF ThereInv
<1>1. ~clash
  BY DEF Step, Begins, Reads, Counts, Executes, Serves, Dies, SameRun
<1>2. v \in recorded' /\ recorded' \in SUBSET Versions
  BY TypeStep DEF TypeInv, TypeOK
<1>3. CASE Serves(p)
  <2>1. at[p].stage = "alter" /\ p = Server
    BY <1>0, <1>3 DEF Serves, LineOK
  <2>2. quiet
    BY <1>1, <2>1 DEF AloneInv, Idle
  <2>3. There(v)
    BY <1>2, <1>3, <2>2, ServeDefines
  <2>4. Grows
    BY <1>3, SameGrows DEF Serves
  <2>5. QED
    BY <2>3, <2>4, ThereStays
<1>4. CASE UpRecords(p) /\ v = at[p].version
  <2>1. \A i \in 1..Len(UpSQL[v]) : i < at[p].line
    BY <1>2, <1>4, UpType DEF UpRecords
  <2>2. There(v)
    <3>1. at[p].stage = "up" /\ at[p].line > 0
      BY <1>4, UpType DEF UpRecords
    <3>2. QED
      BY <1>1, <1>4, <2>1, <3>1 DEF UpInv, DoneUpTo, There
  <2>3. Grows
    BY <1>4 DEF UpRecords, Grows
  <2>4. QED
    BY <2>2, <2>3, ThereStays
<1>5. CASE ServerRecords(p)
  BY <1>5 DEF ServerRecords, RecordFrom, Alter, Position
<1>6. CASE Executes(p) /\ (DownDrops(p) \/ DownUnrecords(p))
  <2>1. PICK w \in Versions : w = at[p].version
    BY <1>6 DEF DownDrops, DownUnrecords
  <2>2. at[p].stage = "down" /\ at[p].line > 0
    BY <1>6, DownType DEF DownDrops, DownUnrecords
  <2>3. \A q \in Programs : q # p => at[q].stage = "ended"
    BY <1>1, <2>2, AloneWhenDown
  <2>4. v \in recorded /\ v <= w
    <3>1. v \in recorded
      BY <1>6 DEF DownDrops, DownUnrecords
    <3>2. QED
      BY <1>1, <2>1, <2>2, <3>1 DEF GapInv
  <2>5. ASSUME v # w PROVE There(v)
    <3>1. ~cut
      BY <1>6 DEF Executes
    <3>2. at[Server].stage \notin {"record", "alter"}
      BY <1>0, <2>2, <2>3
    <3>3. ~\E r \in Programs : at[r].stage = "down" /\ at[r].line > 0 /\ at[r].version = v
      BY <2>1, <2>3, <2>5
    <3>4. QED
      BY <1>1, <2>4, <3>1, <3>2, <3>3 DEF ThereInv
  <2>6. CASE DownUnrecords(p)
    <3>1. v # w
      BY <2>1, <2>6 DEF DownUnrecords
    <3>2. Grows
      BY <2>6 DEF DownUnrecords, Grows
    <3>3. QED
      BY <2>5, <3>1, <3>2, ThereStays
  <2>7. CASE DownDrops(p) /\ v = w
    BY <2>1, <2>2, <2>7, <1>0 DEF DownDrops, Advances, Positions
  <2>8. CASE DownDrops(p) /\ v # w
    <3>1. PICK l : l = at[p].line /\ l \in 1..Len(DownSQL[w])
      BY <2>1, <2>8 DEF DownDrops
    <3>2. PICK t \in Tables :
            /\ t = DownSQL[w][l].table
            /\ tables' = tables \ {t} /\ \A r \in Tables : r # t => parts'[r] = parts[r]
      BY <2>1, <2>8, <3>1 DEF DownDrops
    <3>3. v \in Versions /\ v < w
      BY <1>2, <2>1, <2>4, <2>8 DEF Versions
    <3>4. ASSUME NEW i \in 1..Len(UpSQL[v]) PROVE Done(UpSQL[v][i])'
      <4>1. Done(UpSQL[v][i])
        BY <2>5, <2>8 DEF There
      <4>2. UpSQL[v][i].table # t
        BY <3>1, <3>2, <3>3, DropsOwn
      <4>3. UpSQL[v][i].table \in Tables
        BY <4>1 DEF Done, TypeInv, TypeOK
      <4>4. QED
        BY <3>2, <4>1, <4>2, <4>3 DEF Done
    <3>5. QED
      BY <3>4 DEF There
  <2>9. QED
    BY <1>6, <2>6, <2>7, <2>8
<1>7. CASE ~Serves(p) /\ ~(UpRecords(p) /\ v = at[p].version) /\ ~ServerRecords(p)
           /\ ~(Executes(p) /\ (DownDrops(p) \/ DownUnrecords(p)))
  <2>1. ~cut /\ (Dies(p) => at[p].stage = "up")
    <3>1. CASE Dies(p)
      BY <3>1 DEF Dies
    <3>2. CASE ~Dies(p)
      BY <1>7, <3>2 DEF Step, Begins, Reads, Counts, Executes
    <3>3. QED
      BY <3>1, <3>2
  <2>2. v \in recorded
    <3>1. CASE Executes(p)
      BY <1>7, <3>1 DEF Executes, Effects, UpDefines, UpRecords, ServerCreatesTable, ServerAlters, Defines
    <3>2. CASE ~Executes(p)
      BY <1>7, <3>2 DEF Step, Begins, Reads, Counts, Dies, SameData
    <3>3. QED
      BY <3>1, <3>2
  <2>3. Grows
    <3>1. CASE Executes(p)
      BY <1>7, <3>1 DEF Executes, Effects, UpDefines, UpRecords, ServerCreatesTable, ServerAlters, Defines, Grows
    <3>2. CASE ~Executes(p)
      BY <1>7, <3>2, SameGrows DEF Step, Begins, Reads, Counts, Dies
    <3>3. QED
      BY <3>1, <3>2
  <2>4. CASE There(v)
    BY <2>3, <2>4, ThereStays
  <2>5. CASE at[Server].stage \in {"record", "alter"}
    <3>1. CASE p # Server
      BY <1>0, <2>5, <3>1
    <3>2. CASE p = Server
      <4>1. ServerAlters(p)
        <5>1. ~Begins(p) /\ ~Reads(p) /\ ~Counts(p) /\ ~Dies(p)
          BY <2>1, <2>5, <3>2 DEF Begins, Idle, Reads, Counts
        <5>2. Executes(p)
          BY <1>7, <5>1 DEF Step
        <5>3. QED
          BY <1>7, <2>5, <3>2, <5>2 DEF Executes, Effects, UpDefines, UpRecords, ServerCreatesTable
      <4>2. QED
        BY <3>2, <4>1 DEF ServerAlters, Defines, Advances
    <3>3. QED
      BY <3>1, <3>2
  <2>6. CASE \E r \in Programs : at[r].stage = "down" /\ at[r].line > 0 /\ at[r].version = v
    <3>1. PICK r \in Programs : at[r].stage = "down" /\ at[r].line > 0 /\ at[r].version = v
      BY <2>6
    <3>2. r # p
      <4>1. SUFFICES ASSUME r = p PROVE FALSE
        OBVIOUS
      <4>2. ~Begins(p) /\ ~Reads(p) /\ ~Counts(p) /\ ~Dies(p)
        BY <2>1, <3>1, <4>1 DEF Begins, Idle, Reads, Counts
      <4>3. Executes(p)
        BY <1>7, <4>2 DEF Step
      <4>4. QED
        BY <1>7, <3>1, <4>1, <4>3 DEF Executes, Effects, UpDefines, UpRecords, ServerCreatesTable, ServerAlters
    <3>3. QED
      BY <1>0, <3>1, <3>2
  <2>7. QED
    BY <1>1, <2>1, <2>2, <2>4, <2>5, <2>6 DEF ThereInv
<1>8. QED
  BY <1>2, <1>3, <1>4, <1>5, <1>6, <1>7

(* A start leaves all that the server uses, and as long as only the server *)
(* created tables, they have all of their parts.                            *)
LEMMA RepairStep ==
  ASSUME TypeInv, AloneInv, StartInv, RepairInv, NEW p \in Programs, Step(p)
  PROVE  RepairInv'
<1>0. /\ \A r \in Programs : r # p => at'[r] = at[r]
      /\ tables \in SUBSET Tables
  BY DEF Step, Moves, TypeInv, TypeOK
<1>1. ASSUME ready', NEW s \in Defining PROVE Done(s)'
  <2>1. CASE Serves(p)
    <3>1. quiet /\ SameData
      BY <1>1, <2>1 DEF Serves
    <3>2. Done(s)
      BY <2>1, <3>1, ServeDefines
    <3>3. QED
      BY <3>1, <3>2, SameGrows, DoneStays
  <2>2. CASE ~Serves(p)
    <3>1. ready
      BY <1>1, <2>2 DEF Step, Begins, Reads, Counts, Executes, Dies
    <3>2. Done(s)
      BY <3>1 DEF RepairInv
    <3>3. at[p].stage # "down"
      BY <3>1 DEF AloneInv, RollingBack
    <3>4. QED
      BY <3>2, <3>3, GrowsUnlessDown, DoneStays
  <2>3. QED
    BY <2>1, <2>2
<1>2. ASSUME ~upRan', origin' = "empty"
      PROVE  /\ \A r \in Programs : at'[r].stage # "up"
             /\ \A s \in ServerCreates : s.table \in tables' => s.parts \subseteq parts'[s.table]
  <2>1. ~upRan /\ origin = "empty"
    <3>1. CASE Begins(p)
      BY <1>2, <3>1 DEF Begins
    <3>2. CASE ~Begins(p)
      BY <1>2, <3>2, StageStep
    <3>3. QED
      BY <3>1, <3>2
  <2>2. /\ \A r \in Programs : at[r].stage # "up"
        /\ \A s \in ServerCreates : s.table \in tables => s.parts \subseteq parts[s.table]
    BY <2>1 DEF RepairInv
  <2>3. at'[p].stage # "up"
    <3>1. CASE Begins(p)
      BY <1>2, <3>1 DEF Begins
    <3>2. CASE ~Begins(p)
      BY <2>2, <3>2, StageStep
    <3>3. QED
      BY <3>1, <3>2
  <2>4. \A r \in Programs : at'[r].stage # "up"
    BY <1>0, <2>2, <2>3
  <2>5. ASSUME NEW s \in ServerCreates, s.table \in tables' PROVE s.parts \subseteq parts'[s.table]
    <3>1. CASE SameData \/ DownUnrecords(p) \/ ServerRecords(p)
      BY <2>2, <2>5, <3>1 DEF SameData, DownUnrecords, ServerRecords
    <3>2. CASE DownDrops(p)
      BY <1>0, <2>2, <2>5, <3>2 DEF DownDrops
    <3>3. ASSUME NEW d, Defines(p, d), d.op = "create" => d \in ServerCreates
          PROVE  s.parts \subseteq parts'[s.table]
      <4>1. CASE s.table \in tables
        BY <2>2, <3>3, <4>1 DEF Defines, Grows
      <4>2. CASE s.table \notin tables
        <5>1. d.op = "create" /\ s.table = d.table /\ parts'[s.table] = d.parts
          BY <2>5, <3>3, <4>2 DEF Defines
        <5>2. s.parts = d.parts
          BY <3>3, <5>1, SameParts
        <5>3. QED
          BY <5>1, <5>2
      <4>3. QED
        BY <4>1, <4>2
    <3>4. CASE ServerCreatesTable(p)
      <4>1. PICK l : l \in 1..Len(SqliteSchema) /\ Defines(p, SqliteSchema[l])
        BY <3>4 DEF ServerCreatesTable
      <4>2. SqliteSchema[l] \in Range(SqliteSchema)
        BY <4>1, SqliteType DEF Range
      <4>3. QED
        BY <3>3, <4>1, <4>2 DEF ServerCreates
    <3>5. CASE ServerAlters(p)
      <4>1. PICK l : l \in 1..Len(InlineMigrations) /\ Defines(p, InlineMigrations[l])
        BY <3>5 DEF ServerAlters
      <4>2. InlineMigrations[l] \in Range(InlineMigrations)
        BY <4>1, InlineType DEF Range
      <4>3. QED
        BY <3>3, <4>1, <4>2 DEF ServerCreates
    <3>6. ~UpDefines(p) /\ ~UpRecords(p)
      BY <2>2 DEF UpDefines, UpRecords
    <3>7. QED
      BY <3>1, <3>2, <3>4, <3>5, <3>6 DEF Step, Begins, Reads, Counts, Executes, Effects, Serves, Dies
  <2>6. QED
    BY <2>4, <2>5
<1>3. QED
  BY <1>1, <1>2 DEF RepairInv

-----------------------------------------------------------------------------
(* The theorems.                                                            *)

LEMMA InitInv ==
  ASSUME Init
  PROVE  SchemaInv
<1>1. /\ tables \in SUBSET Tables /\ parts = [t \in Tables |-> {}] /\ recorded = {}
      /\ at = [p \in Programs |-> Ended] /\ runs = 0 /\ ~clash /\ ~cut /\ ~quiet /\ ~ready
      /\ ~upRan /\ origin \in {"empty", "old"} /\ (origin = "empty" => tables = {})
  BY DEF Init, OldRelease, Tables
<1>2. \A p \in Programs : at[p].stage = "ended" /\ at[p].line = 0
  BY <1>1 DEF Ended, Position
<1>3. TypeOK
  <2>1. parts \in [Tables -> SUBSET Parts] /\ DOMAIN at = Programs /\ runs \in 0..MaxRuns
    BY <1>1, SchemaAssumption
  <2>2. clash \in BOOLEAN /\ cut \in BOOLEAN /\ quiet \in BOOLEAN /\ ready \in BOOLEAN /\ upRan \in BOOLEAN
    BY Zenon DEF Init
  <2>3. QED
    BY <1>1, <2>1, <2>2 DEF TypeOK
<1>4. PositionInv
  BY <1>1, <1>2 DEF PositionInv, Positions, Stages, LineOK, Ended, Position
<1>5. AloneInv /\ GapInv
  <2>1. \A p \in Programs : Idle(p) /\ at[p].stage # "down"
    BY <1>2 DEF Idle
  <2>2. Server \in Programs
    BY DEF Programs
  <2>3. AloneInv
    BY <1>1, <2>1, <2>2 DEF AloneInv, RollingBack
  <2>4. GapInv
    BY <1>1, <1>2 DEF GapInv
  <2>5. QED
    BY <2>3, <2>4
<1>6. UpInv /\ StartInv /\ ThereInv
  BY <1>1, <1>2 DEF UpInv, StartInv, ThereInv
<1>7. RepairInv
  BY <1>1, <1>2 DEF RepairInv
<1>8. QED
  BY <1>3, <1>4, <1>5, <1>6, <1>7 DEF SchemaInv, TypeInv

LEMMA NextInv ==
  ASSUME SchemaInv, [Next]_vars
  PROVE  SchemaInv'
<1>1. CASE Next
  <2>1. PICK p \in Programs : Step(p)
    BY <1>1, Steps DEF SchemaInv
  <2>2. TypeInv' /\ AloneInv' /\ GapInv' /\ UpInv' /\ StartInv' /\ ThereInv' /\ RepairInv'
    BY <2>1, TypeStep, AloneStep, GapStep, UpStep, StartStep, ThereStep, RepairStep DEF SchemaInv
  <2>3. QED
    BY <2>2 DEF SchemaInv
<1>2. CASE UNCHANGED vars
  <2>1. /\ tables' = tables /\ parts' = parts /\ recorded' = recorded /\ at' = at /\ runs' = runs
        /\ clash' = clash /\ cut' = cut /\ quiet' = quiet /\ ready' = ready /\ origin' = origin
        /\ upRan' = upRan
    BY <1>2 DEF vars
  <2>2. TypeInv' /\ AloneInv' /\ GapInv'
    BY <2>1 DEF SchemaInv, TypeInv, TypeOK, PositionInv, AloneInv, GapInv, Idle, RollingBack
  <2>3. UpInv' /\ StartInv'
    <3>1. UpInv'
      BY <2>1 DEF SchemaInv, UpInv, DoneUpTo, Done
    <3>2. StartInv'
      BY <2>1 DEF SchemaInv, StartInv, DoneUpTo, Done
    <3>3. QED
      BY <3>1, <3>2
  <2>4. ThereInv' /\ RepairInv'
    <3>1. ThereInv'
      BY <2>1 DEF SchemaInv, ThereInv, There, Done
    <3>2. RepairInv'
      BY <2>1 DEF SchemaInv, RepairInv, Done
    <3>3. QED
      BY <3>1, <3>2
  <2>5. QED
    BY <2>2, <2>3, <2>4 DEF SchemaInv
<1>3. QED
  BY <1>1, <1>2

(* The inductive invariant of the database and of all programs that change  *)
(* its schema (initSchema and am-migrate).                                  *)
THEOREM Invariance == Spec => []SchemaInv
BY InitInv, NextInv, PTL DEF Spec

(* Types, and where a program can be (main.go:402, 527).                    *)
THEOREM SchemaTypeOKHolds == Spec => []TypeOK
<1>1. SchemaInv => TypeOK
  BY DEF SchemaInv, TypeInv
<1>2. QED
  BY <1>1, Invariance, PTL

(* `up` never finds a gap below MAX(version): whatever is killed, only a    *)
(* rollback that overlaps with another program leaves one.                  *)
THEOREM NoGapsHolds == Spec => []NoGaps
<1>1. ASSUME SchemaInv PROVE NoGaps
  <2>1. SUFFICES ASSUME ~clash PROVE recorded = 1..CurrentVersion
    BY DEF NoGaps
  <2>2. recorded \in SUBSET Versions /\ \A v \in recorded, w \in Versions : w < v => w \in recorded
    BY <1>1, <2>1 DEF SchemaInv, TypeInv, TypeOK, GapInv
  <2>3. PICK c : c = CurrentVersion
    OBVIOUS
  <2>4. c \in recorded \cup {0} /\ c \in 0..8 /\ \A w \in recorded : w <= c
    BY <2>2, <2>3, CurrentIs
  <2>5. \A w \in 1..c : w \in recorded
    BY <2>2, <2>4 DEF Versions
  <2>6. \A w \in recorded : w \in 1..c
    BY <2>2, <2>4 DEF Versions
  <2>7. QED
    BY <2>3, <2>5, <2>6
<1>2. QED
  BY <1>1, Invariance, PTL

(* Every table and column of a recorded migration exists once all programs  *)
(* have ended, wherever an `up` was killed.                                 *)
THEOREM RecordedIsThereHolds == Spec => []RecordedIsThere
<1>1. ASSUME SchemaInv PROVE RecordedIsThere
  <2>1. SUFFICES ASSUME AllIdle, ~clash, ~cut, NEW v \in recorded, NEW s \in Range(UpSQL[v]) PROVE Done(s)
    BY DEF RecordedIsThere
  <2>2. \A p \in Programs : at[p].stage = "ended"
    BY <2>1 DEF AllIdle, Idle
  <2>3. There(v)
    BY <1>1, <2>1, <2>2 DEF SchemaInv, ThereInv, Programs
  <2>4. v \in Versions
    BY <1>1 DEF SchemaInv, TypeInv, TypeOK
  <2>5. PICK i \in 1..Len(UpSQL[v]) : s = UpSQL[v][i]
    BY <2>4, UpType DEF Range
  <2>6. QED
    BY <2>3, <2>5 DEF There
<1>2. QED
  BY <1>1, Invariance, PTL

(* A start that no rollback overlapped leaves every table and column the    *)
(* server uses, on any database; what it cannot add is `status` and the     *)
(* cascades, and on a database of its own it need not.                      *)
THEOREM StartRepairsHolds == Spec => []StartRepairs
<1>1. ASSUME SchemaInv PROVE StartRepairs
  <2>1. SUFFICES ASSUME ready
                 PROVE  /\ \A s \in Defining : Done(s)
                        /\ Lacking \subseteq (IF upRan \/ origin = "old" THEN ServerOnly ELSE {})
    BY DEF StartRepairs
  <2>2. \A s \in Defining : Done(s)
    BY <1>1, <2>1 DEF SchemaInv, RepairInv
  <2>3. Lacking \subseteq ServerOnly
    BY <2>2, LacksServerOnly
  <2>4. ASSUME ~upRan, origin # "old" PROVE Lacking \subseteq {}
    <3>1. \A s \in ServerCreates : s.table \in tables => s.parts \subseteq parts[s.table]
      BY <1>1, <2>4 DEF SchemaInv, TypeInv, TypeOK, RepairInv
    <3>2. ASSUME NEW s \in Defining, s.op = "create" PROVE s.parts \subseteq parts[s.table]
      <4>1. CASE s.parts = {}
        BY <4>1
      <4>2. CASE \E r \in ServerCreates : r.table = s.table /\ s.parts \subseteq r.parts
        <5>1. s.table \in tables
          BY <2>2, <3>2 DEF Done
        <5>2. QED
          BY <3>1, <4>2, <5>1
      <4>3. QED
        BY <3>2, <4>1, <4>2, ServerGivesMore
    <3>3. QED
      BY <3>2 DEF Lacking
  <2>5. QED
    BY <2>2, <2>3, <2>4
<1>2. QED
  BY <1>1, Invariance, PTL

-----------------------------------------------------------------------------
(* The connection pool.                                                     *)

(* Every request is somewhere, and rows are read as often as there are.     *)
LEMMA PoolTypeStep == PoolTypeOK /\ [PoolNext]_poolVars => PoolTypeOK'
<1> SUFFICES ASSUME PoolTypeOK, [PoolNext]_poolVars PROVE PoolTypeOK'
  OBVIOUS
<1> USE DEF PoolTypeOK
<1>1. ASSUME NEW r \in Readers, GetMessages(r) \/ InnerQuery(r) \/ InnerClose(r) \/ OuterClose(r)
      PROVE  PoolTypeOK'
  BY <1>1 DEF GetMessages, InnerQuery, InnerClose, OuterClose, ReaderGoes
<1>2. ASSUME NEW r \in Readers, OuterQuery(r) PROVE PoolTypeOK'
  BY <1>2 DEF OuterQuery, ReaderGoes
<1>3. ASSUME NEW r \in Readers, NextRow(r) PROVE PoolTypeOK'
  <2>0. left \in [Readers -> 0..MaxRows]
    OBVIOUS
  <2>1. left[r] - 1 \in 0..MaxRows
    <3> HIDE DEF PoolTypeOK
    <3>1. left[r] \in 0..MaxRows /\ left[r] > 0 /\ MaxRows \in Nat
      BY <1>3, <2>0, PoolAssumption DEF NextRow
    <3>2. QED
      BY <3>1
  <2>2. left' \in [Readers -> 0..MaxRows]
    BY <1>3, <2>1 DEF NextRow
  <2>3. QED
    BY <1>3, <2>2 DEF NextRow, ReaderGoes
<1>4. ASSUME NEW o \in Others, Statement(o) \/ Exec(o) \/ ExecDone(o) PROVE PoolTypeOK'
  BY <1>4 DEF Statement, Exec, ExecDone, OtherGoes
<1>5. CASE UNCHANGED poolVars
  BY <1>5 DEF poolVars
<1>6. QED
  BY <1>1, <1>2, <1>3, <1>4, <1>5 DEF PoolNext, ReaderRuns

(* The holders of connections are finitely many.                            *)
LEMMA HoldersFinite ==
  /\ IsFiniteSet(Outer) /\ IsFiniteSet(Inner) /\ IsFiniteSet(Single)
  /\ Cardinality(Outer) \in Nat /\ Cardinality(Inner) \in Nat /\ Cardinality(Single) \in Nat
  /\ Cardinality(Outer) <= Cardinality(Readers) /\ Cardinality(Readers) \in Nat
<1>1. Outer \subseteq Readers /\ Inner \subseteq Readers /\ Single \subseteq Others
  BY DEF Outer, Inner, Single
<1>2. IsFiniteSet(Outer) /\ IsFiniteSet(Inner) /\ IsFiniteSet(Single)
  BY <1>1, PoolAssumption, FS_Subset
<1>3. QED
  BY <1>1, <1>2, PoolAssumption, FS_Subset, FS_CardinalityType

(* No more connections are in use than SetMaxOpenConns allows, although a   *)
(* history request holds two.                                               *)
PoolBound == InUse <= PoolSize

\* A step of one request frees a connection, or takes one that is free.
LEMMA PoolBoundStep == PoolTypeOK /\ PoolBound /\ [PoolNext]_poolVars => PoolBound'
<1> SUFFICES ASSUME PoolTypeOK, PoolBound, [PoolNext]_poolVars PROVE PoolBound'
  OBVIOUS
<1>0. /\ PoolSize \in Nat /\ PoolTypeOK
      /\ IsFiniteSet(Outer) /\ IsFiniteSet(Inner) /\ IsFiniteSet(Single)
      /\ Cardinality(Outer) \in Nat /\ Cardinality(Inner) \in Nat /\ Cardinality(Single) \in Nat
  BY PoolAssumption, HoldersFinite
<1>1. ASSUME NEW r \in Readers, GetMessages(r) PROVE PoolBound'
  <2>1. Outer' = Outer /\ Inner' = Inner /\ Single' = Single
    BY <1>0, <1>1 DEF GetMessages, ReaderGoes, PoolTypeOK, Outer, Inner, Single
  <2>2. QED
    BY <2>1 DEF PoolBound, InUse
<1>2. ASSUME NEW r \in Readers, OuterQuery(r) PROVE PoolBound'
  <2>1. Outer' = Outer \cup {r} /\ r \notin Outer /\ Inner' = Inner /\ Single' = Single
    BY <1>0, <1>2 DEF OuterQuery, ReaderGoes, PoolTypeOK, Outer, Inner, Single
  <2>2. Cardinality(Outer') = Cardinality(Outer) + 1
    BY <1>0, <2>1, FS_AddElement
  <2>3. InUse < PoolSize
    BY <1>2 DEF OuterQuery, Free
  <2>4. QED
    BY <1>0, <2>1, <2>2, <2>3 DEF PoolBound, InUse
<1>3. ASSUME NEW r \in Readers, NextRow(r) PROVE PoolBound'
  <2>1. Outer' = Outer /\ Inner' = Inner /\ Single' = Single
    BY <1>0, <1>3 DEF NextRow, ReaderGoes, PoolTypeOK, Outer, Inner, Single
  <2>2. QED
    BY <2>1 DEF PoolBound, InUse
<1>4. ASSUME NEW r \in Readers, InnerQuery(r) PROVE PoolBound'
  <2>1. Outer' = Outer /\ Inner' = Inner \cup {r} /\ r \notin Inner /\ Single' = Single
    BY <1>0, <1>4 DEF InnerQuery, ReaderGoes, PoolTypeOK, Outer, Inner, Single
  <2>2. Cardinality(Inner') = Cardinality(Inner) + 1
    BY <1>0, <2>1, FS_AddElement
  <2>3. InUse < PoolSize
    BY <1>4 DEF InnerQuery, Free
  <2>4. QED
    BY <1>0, <2>1, <2>2, <2>3 DEF PoolBound, InUse
<1>5. ASSUME NEW r \in Readers, InnerClose(r) PROVE PoolBound'
  <2>1. Outer' = Outer /\ Inner' = Inner \ {r} /\ r \in Inner /\ Single' = Single
    BY <1>0, <1>5 DEF InnerClose, ReaderGoes, PoolTypeOK, Outer, Inner, Single
  <2>2. Cardinality(Inner') = Cardinality(Inner) - 1
    BY <1>0, <2>1, FS_RemoveElement
  <2>3. QED
    BY <1>0, <2>1, <2>2 DEF PoolBound, InUse
<1>6. ASSUME NEW r \in Readers, OuterClose(r) PROVE PoolBound'
  <2>1. Outer' = Outer \ {r} /\ r \in Outer /\ Inner' = Inner /\ Single' = Single
    BY <1>0, <1>6 DEF OuterClose, ReaderGoes, PoolTypeOK, Outer, Inner, Single
  <2>2. Cardinality(Outer') = Cardinality(Outer) - 1
    BY <1>0, <2>1, FS_RemoveElement
  <2>3. QED
    BY <1>0, <2>1, <2>2 DEF PoolBound, InUse
<1>7. ASSUME NEW o \in Others, Statement(o) PROVE PoolBound'
  <2>1. Outer' = Outer /\ Inner' = Inner /\ Single' = Single
    BY <1>0, <1>7 DEF Statement, OtherGoes, PoolTypeOK, Outer, Inner, Single
  <2>2. QED
    BY <2>1 DEF PoolBound, InUse
<1>8. ASSUME NEW o \in Others, Exec(o) PROVE PoolBound'
  <2>1. Outer' = Outer /\ Inner' = Inner /\ Single' = Single \cup {o} /\ o \notin Single
    BY <1>0, <1>8 DEF Exec, OtherGoes, PoolTypeOK, Outer, Inner, Single
  <2>2. Cardinality(Single') = Cardinality(Single) + 1
    BY <1>0, <2>1, FS_AddElement
  <2>3. InUse < PoolSize
    BY <1>8 DEF Exec, Free
  <2>4. QED
    BY <1>0, <2>1, <2>2, <2>3 DEF PoolBound, InUse
<1>9. ASSUME NEW o \in Others, ExecDone(o) PROVE PoolBound'
  <2>1. Outer' = Outer /\ Inner' = Inner /\ Single' = Single \ {o} /\ o \in Single
    BY <1>0, <1>9 DEF ExecDone, OtherGoes, PoolTypeOK, Outer, Inner, Single
  <2>2. Cardinality(Single') = Cardinality(Single) - 1
    BY <1>0, <2>1, FS_RemoveElement
  <2>3. QED
    BY <1>0, <2>1, <2>2 DEF PoolBound, InUse
<1>10. CASE UNCHANGED poolVars
  BY <1>10 DEF poolVars, PoolBound, InUse, Outer, Inner, Single
<1>11. QED
  BY <1>1, <1>2, <1>3, <1>4, <1>5, <1>6, <1>7, <1>8, <1>9, <1>10 DEF PoolNext, ReaderRuns

(* Types of the requests, and the limit of SetMaxOpenConns (dbdriver.go).   *)
THEOREM PoolBoundHolds == PoolSpec => [](PoolTypeOK /\ PoolBound)
<1>1. PoolInit => PoolTypeOK
  BY PoolAssumption DEF PoolInit, PoolTypeOK
<1>2. PoolInit => PoolBound
  <2>1. ASSUME PoolInit PROVE Outer = {} /\ Inner = {} /\ Single = {}
    BY <2>1 DEF PoolInit, Outer, Inner, Single
  <2>2. ASSUME PoolInit PROVE InUse = 0
    BY <2>1, <2>2, FS_EmptySet DEF InUse
  <2>3. QED
    BY <2>2, PoolAssumption DEF PoolBound
<1>3. QED
  BY <1>1, <1>2, PoolTypeStep, PoolBoundStep, PTL DEF PoolSpec

(* With fewer concurrent history requests than connections, they never all  *)
(* hold one and wait for a second (getConversationMessages), for any number *)
(* of other requests.                                                       *)
THEOREM NeverStuckHolds == PoolSpec => []NeverStuck
<1>1. NeverStuck
  <2>1. SUFFICES ASSUME Cardinality(Readers) < PoolSize, Inner = {}, Single = {} PROVE Free
    BY DEF NeverStuck, Stuck
  <2>2. InUse = Cardinality(Outer)
    BY <2>1, HoldersFinite, FS_EmptySet DEF InUse
  <2>3. QED
    BY <2>1, <2>2, HoldersFinite, PoolAssumption DEF Free
<1>2. QED
  BY <1>1, PTL

=============================================================================
