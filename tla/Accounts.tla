------------------------------ MODULE Accounts ------------------------------
(***************************************************************************)
(* Users, agents and conversations come into being and change: the         *)
(* requests of server/handlers.go, server/auth.go and                      *)
(* server/conversations.go that write the tables users, agents and         *)
(* conversations, and the command am-admin, which writes the same database *)
(* from another process and without foreign keys.                          *)
(*                                                                         *)
(* Every SQL statement is a step; no handler uses a transaction.  Hashes   *)
(* stand for the passwords they were made from, names and passwords are    *)
(* well-formed, and a row or a field is named by the request that wrote    *)
(* it; a request that is refused for its form changes nothing.  A handler  *)
(* whose statement fails returns, and a process may end: both cut a        *)
(* request short.  Deleting conversations is in module Conversation;       *)
(* am-admin's create-user is the statement of InsertUser.  The module has  *)
(* no specification of its own: Push adds the requests about devices and   *)
(* puts both together.                                                     *)
(***************************************************************************)
EXTENDS Naturals, FiniteSetsExt

CONSTANTS Requests,   \* handler invocations and am-admin commands; each is made once
          Users,      \* names of users
          Agents,
          Passwords,
          Offers,     \* the sets of fields a request about an agent may give
          None

Fields == {"model", "personality", "specialty", "name"}

ASSUME AccountAssumption ==
  /\ Offers \subseteq SUBSET Fields
  /\ None \notin Requests \cup Users \cup Agents \cup Passwords

VARIABLES
  password,      \* users: the password behind password_hash, None without a row
  agents,        \* ids in the table agents
  field,         \* per agent and field the request that wrote it, None if empty
  conversations, \* conversations: the requests that inserted one
  created,       \* created_at of each, in seconds since the first
  op, pc,        \* what each request is, and the next statement of its handler
  user, agent,   \* whom it is about
  offer,         \* the fields it gives that are not empty
  oldPassword, newPassword,
  result,        \* the conversation it was answered with
  was,           \* the password that its UPDATE replaced
  before         \* pairs of requests of which the first had ended when the second began

tables == <<password, agents, field, conversations, created>>
arguments == <<op, user, agent, offer, oldPassword, newPassword>>
accountVars == <<tables, arguments, pc, result, was, before>>

Ended(r) == pc[r] \in {"answered", "refused", "cut"}
InFlight(r) == pc[r] # "idle" /\ ~Ended(r)
Overlap(r, s) == r # s /\ <<r, s>> \notin before /\ <<s, r>> \notin before

Empty == [r \in Requests |-> None]

\* Some users and agents, without conversations.
AccountInit ==
  /\ \E U \in SUBSET Users, p \in Passwords :
       password = [u \in Users |-> IF u \in U THEN p ELSE None]
  /\ agents \in SUBSET Agents
  /\ field = [a \in Agents |-> [f \in Fields |-> None]]
  /\ conversations = {}
  /\ created = [r \in Requests |-> 0]
  /\ op = Empty /\ pc = [r \in Requests |-> "idle"]
  /\ user = Empty /\ agent = Empty
  /\ offer = [r \in Requests |-> {}]
  /\ oldPassword = Empty /\ newPassword = Empty
  /\ result = Empty /\ was = Empty
  /\ before = {}

-----------------------------------------------------------------------------

At(r, o, step) == op[r] = o /\ pc[r] = step
Goto(r, step) == pc' = [pc EXCEPT ![r] = step]

Begin(r, o, step) ==
  /\ pc[r] = "idle"
  /\ op' = [op EXCEPT ![r] = o]
  /\ Goto(r, step)
  /\ before' = before \cup {<<s, r>> : s \in {s \in Requests : Ended(s)}}
  /\ UNCHANGED <<tables, result, was>>

\* ValidateJWT: whoever has a token has a row.
Claims(r, u) == password[u] # None /\ user' = [user EXCEPT ![r] = u]

-----------------------------------------------------------------------------
(* Users.                                                                   *)

BeginRegisterUser(r, u, p) ==
  /\ Begin(r, "user", "insert")
  /\ user' = [user EXCEPT ![r] = u]
  /\ newPassword' = [newPassword EXCEPT ![r] = p]
  /\ UNCHANGED <<agent, offer, oldPassword>>

\* username is UNIQUE.
InsertUser(r) ==
  /\ At(r, "user", "insert")
  /\ IF password[user[r]] = None
       THEN /\ password' = [password EXCEPT ![user[r]] = newPassword[r]]
            /\ Goto(r, "answered")
       ELSE /\ Goto(r, "refused")
            /\ UNCHANGED password
  /\ UNCHANGED <<agents, field, conversations, created, arguments, result, was, before>>

BeginChangePassword(r, u, p, q) ==
  /\ Begin(r, "password", "select")
  /\ Claims(r, u)
  /\ oldPassword' = [oldPassword EXCEPT ![r] = p]
  /\ newPassword' = [newPassword EXCEPT ![r] = q]
  /\ UNCHANGED <<agent, offer>>

\* Defect: any old password will do.
Unverified(r) == TRUE

\* bcrypt.CompareHashAndPassword
Verified(r) == password[user[r]] = oldPassword[r]

SelectPassword(r) ==
  /\ At(r, "password", "select")
  /\ Goto(r, IF Verified(r) THEN "update" ELSE "refused")
  /\ UNCHANGED <<tables, arguments, result, was, before>>

UpdatePassword(r) ==
  /\ At(r, "password", "update")
  /\ password' = [password EXCEPT ![user[r]] = newPassword[r]]
  /\ was' = [was EXCEPT ![r] = password[user[r]]]
  /\ Goto(r, "answered")
  /\ UNCHANGED <<agents, field, conversations, created, arguments, result, before>>

-----------------------------------------------------------------------------
(* Agents.                                                                  *)

BeginAgent(r, o, step, a, given) ==
  /\ Begin(r, o, step)
  /\ agent' = [agent EXCEPT ![r] = a]
  /\ offer' = [offer EXCEPT ![r] = given]
  /\ UNCHANGED <<user, oldPassword, newPassword>>

BeginRegisterAgent(r, a, given) == BeginAgent(r, "agent", "upsert", a, given)
BeginConnect(r, a, given) == BeginAgent(r, "connect", "select", a, given)
BeginCreateAgent(r, a, given) == BeginAgent(r, "create-agent", "insert", a, given)
BeginDeleteAgent(r, a) == BeginAgent(r, "delete-agent", "delete", a, {})

\* All fields of the row are written, the ones that are not given as empty.
WriteRow(r) ==
  /\ agents' = agents \cup {agent[r]}
  /\ field' = [field EXCEPT ![agent[r]] = [f \in Fields |-> IF f \in offer[r] THEN r ELSE None]]

\* INSERT ... ON CONFLICT(id) DO UPDATE
UpsertAgent(r) ==
  /\ At(r, "agent", "upsert")
  /\ WriteRow(r)
  /\ Goto(r, "answered")
  /\ UNCHANGED <<password, conversations, created, arguments, result, was, before>>

\* RegisterAgentOnConnect, and am-admin create-agent: an INSERT that fails when
\* the id is there.
InsertAgent(r) ==
  /\ op[r] \in {"connect", "create-agent"} /\ pc[r] = "insert"
  /\ IF agent[r] \notin agents
       THEN WriteRow(r) /\ Goto(r, "answered")
       ELSE Goto(r, "refused") /\ UNCHANGED <<agents, field>>
  /\ UNCHANGED <<password, conversations, created, arguments, result, was, before>>

\* The UPDATEs of an existing agent, in order, each for a field that is given.
UpdateOrder == <<"model", "personality", "specialty", "name">>
NextUpdate(r, i) ==
  LET given == {j \in i..4 : UpdateOrder[j] \in offer[r]}
  IN IF given = {} THEN "answered"
     ELSE UpdateOrder[CHOOSE j \in given : \A k \in given : j <= k]

Found(r) == agent[r] \in agents

SelectAgent(r) ==
  /\ At(r, "connect", "select")
  /\ Goto(r, IF Found(r) THEN NextUpdate(r, 1) ELSE "insert")
  /\ UNCHANGED <<tables, arguments, result, was, before>>

\* Defect: no field of the row is written.
NothingUpdated(r, i) == field

\* An UPDATE of a row that is gone changes nothing.
Updated(r, i) ==
  IF agent[r] \in agents THEN [field EXCEPT ![agent[r]][UpdateOrder[i]] = r] ELSE field

UpdateAgent(r) ==
  \E i \in 1..4 :
    /\ At(r, "connect", UpdateOrder[i])
    /\ field' = Updated(r, i)
    /\ Goto(r, NextUpdate(r, i + 1))
    /\ UNCHANGED <<password, agents, conversations, created, arguments, result, was, before>>

\* am-admin delete-agent: foreign keys are not enforced in its process, the
\* conversations of the agent stay.
DeleteAgent(r) ==
  /\ At(r, "delete-agent", "delete")
  /\ agents' = agents \ {agent[r]}
  /\ field' = [field EXCEPT ![agent[r]] = [f \in Fields |-> None]]
  /\ Goto(r, IF agent[r] \in agents THEN "answered" ELSE "refused")
  /\ UNCHANGED <<password, conversations, created, arguments, result, was, before>>

-----------------------------------------------------------------------------
(* Conversations.                                                           *)

BeginConversation(r, u, a) ==
  /\ Begin(r, "conversation", "select")
  /\ Claims(r, u)
  /\ agent' = [agent EXCEPT ![r] = a]
  /\ UNCHANGED <<offer, oldPassword, newPassword>>

\* Defect: a conversation of the agent with whomever.
WithAgent(r) == {c \in conversations : agent[c] = agent[r]}

\* The rows of the same user and agent.
SamePair(r) == {c \in conversations : user[c] = user[r] /\ agent[c] = agent[r]}

\* ORDER BY created_at DESC LIMIT 1; of rows of the same second any.
Newest(r) == {c \in SamePair(r) : \A d \in SamePair(r) : created[d] <= created[c]}

SelectConversation(r) ==
  /\ At(r, "conversation", "select")
  /\ \/ /\ \E c \in Newest(r) : result' = [result EXCEPT ![r] = c]
        /\ Goto(r, "answered")
     \/ /\ Newest(r) = {}
        /\ Goto(r, "insert")
        /\ UNCHANGED result
  /\ UNCHANGED <<tables, arguments, was, before>>

\* Defect: foreign keys are not enforced.
AnyAgent(r) == TRUE

\* FOREIGN KEY (agent_id)
AgentExists(r) == agent[r] \in agents

\* CreateConversation; CURRENT_TIMESTAMP counts seconds.
InsertConversation(r) ==
  /\ At(r, "conversation", "insert")
  /\ IF AgentExists(r)
       THEN /\ conversations' = conversations \cup {r}
            /\ \E second \in {0, 1} :
                 created' = [created EXCEPT ![r] =
                   second + Max({created[d] : d \in conversations} \cup {0})]
            /\ result' = [result EXCEPT ![r] = r]
            /\ Goto(r, "answered")
       ELSE Goto(r, "refused") /\ UNCHANGED <<conversations, created, result>>
  /\ UNCHANGED <<password, agents, field, arguments, was, before>>

-----------------------------------------------------------------------------

\* The next statement fails and the handler returns, or the process ends before
\* it.  A crash cuts every request of the process, one after the other.
Cut(r) ==
  /\ InFlight(r)
  /\ Goto(r, "cut")
  /\ UNCHANGED <<tables, arguments, result, was, before>>

AccountNext ==
  \E r \in Requests :
    \/ \E u \in Users, p \in Passwords :
         \/ BeginRegisterUser(r, u, p)
         \/ \E q \in Passwords : BeginChangePassword(r, u, p, q)
    \/ \E a \in Agents :
         \/ \E given \in Offers :
              \/ BeginRegisterAgent(r, a, given)
              \/ BeginConnect(r, a, given)
              \/ BeginCreateAgent(r, a, given)
         \/ BeginDeleteAgent(r, a)
         \/ \E u \in Users : BeginConversation(r, u, a)
    \/ InsertUser(r)
    \/ SelectPassword(r)
    \/ UpdatePassword(r)
    \/ UpsertAgent(r)
    \/ InsertAgent(r)
    \/ SelectAgent(r)
    \/ UpdateAgent(r)
    \/ DeleteAgent(r)
    \/ SelectConversation(r)
    \/ InsertConversation(r)
    \/ Cut(r)

-----------------------------------------------------------------------------
(* Properties.                                                              *)

Answered(r, o) == At(r, o, "answered")
WritesAgent(r, a) == op[r] \in {"agent", "connect", "create-agent", "delete-agent"} /\ agent[r] = a

\* The request r or row r is for the same user and agent as s.
Pair(r, s) == user[r] = user[s] /\ agent[r] = agent[s]

(* GetOrCreateConversation selects and then inserts, and nothing in the     *)
(* schema makes the pair unique.  A request is answered with a conversation *)
(* of its own user and agent, and of two requests for the same pair the     *)
(* second is answered with the conversation of the first; there are two     *)
(* conversations, and two answers, only when creating requests overlapped.  *)
SameConversation ==
  \A r, s \in Requests :
    /\ Answered(r, "conversation") => result[r] \in conversations /\ Pair(result[r], r)
    /\ Answered(r, "conversation") /\ Answered(s, "conversation") /\ Pair(r, s)
         => \/ result[r] = result[s]
            \/ \E c, d \in conversations : Overlap(c, d) /\ Pair(c, r) /\ Pair(d, r)

(* A conversation is with a user who has an account and an agent that is in *)
(* the table, however the SELECT and the INSERT interleave with others;     *)
(* only am-admin delete-agent leaves a conversation without its agent.      *)
ConversationHasAgent ==
  \A c \in conversations :
    /\ password[user[c]] # None
    /\ agent[c] \notin agents =>
         \E d \in Requests : Answered(d, "delete-agent") /\ agent[d] = agent[c]

(* RegisterAgentOnConnect (auth.go:164-167): once a connect has gone        *)
(* through, the agent is in the table and shows the fields it gave, unless  *)
(* another request wrote that agent at the same time or later.  It is       *)
(* refused only when another one inserted the same new agent between its    *)
(* SELECT and its INSERT.                                                   *)
ConnectIsStored ==
  \A r \in Requests :
    /\ Answered(r, "connect") =>
         \/ agent[r] \in agents /\ \A f \in offer[r] : field[agent[r]][f] = r
         \/ \E w \in Requests \ {r} : WritesAgent(w, agent[r]) /\ <<w, r>> \notin before
    /\ At(r, "connect", "refused") =>
         \E w \in Requests :
           /\ WritesAgent(w, agent[r]) /\ op[w] # "delete-agent"
           /\ pc[w] = "answered" /\ Overlap(r, w)

(* Who changes a password knew it: the password that an UPDATE replaces is  *)
(* the one it was asked with, although it was compared in an earlier        *)
(* statement, unless two changes overlapped; then the first is lost.        *)
ChangeKnowsPassword ==
  \A r \in Requests :
    Answered(r, "password") /\ was[r] # oldPassword[r] =>
      \E s \in Requests : Answered(s, "password") /\ user[s] = user[r] /\ Overlap(r, s)

=============================================================================
