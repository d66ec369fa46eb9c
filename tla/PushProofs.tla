----------------------------- MODULE PushProofs -----------------------------
(***************************************************************************)
(* Proofs about modules Accounts and Push, for any requests, users,        *)
(* agents, passwords and tokens.  What all of them rest on: a request that *)
(* has begun keeps its arguments, one that has ended stays as it is, and   *)
(* `before` relates a request only to those that had ended when it began.  *)
(***************************************************************************)
EXTENDS Push, TLAPS

UserOps == {"user", "password"}
AgentOps == {"agent", "connect", "create-agent", "delete-agent"}
TokenOps == {"register", "unregister", "subscribe", "unsubscribe"}
MuteOps == {"mute", "unmute", "notify"}
Steps == {"idle", "select", "insert", "update", "upsert", "delete", "token", "keys", "muted", "tokens",
          "send", "answered", "refused", "cut"} \cup Fields

TableTypes ==
  /\ password \in [Users -> Passwords \cup {None}]
  /\ agents \in SUBSET Agents
  /\ field \in [Agents -> [Fields -> Requests \cup {None}]]
  /\ conversations \in SUBSET Requests
  /\ created \in [Requests -> Nat]
  /\ platform \in [Users -> [Tokens -> Platforms \cup {None}]]
  /\ keyOwner \in [Tokens -> Users \cup {None}]
  /\ muted \in SUBSET Users

RequestTypes ==
  /\ pc \in [Requests -> Steps]
  /\ op \in [Requests -> UserOps \cup AgentOps \cup TokenOps \cup MuteOps \cup {"conversation", None}]
  /\ user \in [Requests -> Users \cup {None}]
  /\ agent \in [Requests -> Agents \cup {None}]
  /\ offer \in [Requests -> SUBSET Fields]
  /\ oldPassword \in [Requests -> Passwords \cup {None}]
  /\ newPassword \in [Requests -> Passwords \cup {None}]
  /\ result \in [Requests -> Requests \cup {None}]
  /\ was \in [Requests -> Passwords \cup {None}]
  /\ token \in [Requests -> Tokens \cup {None}]
  /\ toPush \in [Requests -> SUBSET Tokens]
  /\ pushed \in [Requests -> SUBSET Tokens]
  /\ failed \in SUBSET Requests

\* The arguments a request has, depending on what it is.
ArgumentsInv ==
  \A r \in Requests :
    /\ pc[r] = "idle" => /\ user[r] = None /\ agent[r] = None /\ token[r] = None
                         /\ toPush[r] = {} /\ pushed[r] = {}
    /\ pc[r] # "idle" /\ op[r] \in UserOps \cup TokenOps \cup MuteOps \cup {"conversation"}
         => user[r] \in Users
    /\ pc[r] # "idle" /\ op[r] \in AgentOps \cup {"conversation"} => agent[r] \in Agents
    /\ pc[r] # "idle" /\ op[r] \in TokenOps => token[r] \in Tokens
    /\ pc[r] # "idle" /\ op[r] \in UserOps => newPassword[r] \in Passwords

\* Only a request that has begun follows one, and only one that has ended.
BeforeInv ==
  \A r, s \in Requests : <<r, s>> \in before => Ended(r) /\ pc[s] # "idle" /\ r # s

IInv == TableTypes /\ RequestTypes /\ ArgumentsInv /\ BeforeInv

-----------------------------------------------------------------------------
(* What the properties need.                                                *)

\* Whoever makes a request with a token has an account.
AccountInv ==
  \A r \in Requests :
    pc[r] # "idle" /\ op[r] \in {"password", "conversation"} => password[user[r]] # None

\* Of the conversations with these two there is a newest one.
HasNewest(u, a) ==
  LET same == {c \in conversations : user[c] = u /\ agent[c] = a}
  IN same # {} => \E c \in same : \A d \in same : created[d] <= created[c]

ConversationInv ==
  /\ \A c \in conversations : Answered(c, "conversation")
  /\ conversations # {} => \E c \in conversations : \A d \in conversations : created[d] <= created[c]
  /\ \A u \in Users, a \in Agents : HasNewest(u, a)
  /\ \A r \in Requests :
       Answered(r, "conversation") => result[r] \in conversations /\ Pair(result[r], r)
  /\ \A r \in Requests, c \in conversations :
       At(r, "conversation", "insert") /\ Pair(c, r) => <<c, r>> \notin before
  /\ \A c, d \in conversations : Pair(c, d) /\ c # d => Overlap(c, d)

\* Another change of the same password overlapped r.
ChangedMeanwhile(r) ==
  \E s \in Requests : Answered(s, "password") /\ user[s] = user[r] /\ Overlap(r, s)

\* A password that was compared is still the same, or another change overlapped.
PasswordInv ==
  \A r \in Requests :
    At(r, "password", "update") /\ password[user[r]] # oldPassword[r] => ChangedMeanwhile(r)

\* A new agent that another request inserted after the SELECT of r.
InsertedMeanwhile(r) ==
  \E w \in Requests :
    /\ WritesAgent(w, agent[r]) /\ op[w] # "delete-agent"
    /\ pc[w] = "answered" /\ Overlap(r, w)

WrittenMeanwhile(r) ==
  \E w \in Requests \ {r} : WritesAgent(w, agent[r]) /\ <<w, r>> \notin before

\* The i-th UPDATE of r and the later ones are still to come.
Stored(r, i) ==
  /\ agent[r] \in agents
  /\ \A j \in 1..4 : j < i /\ UpdateOrder[j] \in offer[r] => field[agent[r]][UpdateOrder[j]] = r

ConnectInv ==
  \A r \in Requests :
    /\ At(r, "connect", "insert") => agent[r] \notin agents \/ InsertedMeanwhile(r)
    /\ At(r, "connect", "refused") => InsertedMeanwhile(r)
    /\ \A i \in 1..4 : At(r, "connect", UpdateOrder[i]) => Stored(r, i) \/ WrittenMeanwhile(r)
    /\ Answered(r, "connect") => Stored(r, 5) \/ WrittenMeanwhile(r)

\* The user registered the token of w again after w.
Again(w) ==
  \E g \in Requests :
    op[g] \in {"register", "subscribe"} /\ About(g, user[w], token[w]) /\ <<g, w>> \notin before

Unmuted(w) ==
  \E g \in Requests : op[g] = "unmute" /\ user[g] = user[w] /\ <<g, w>> \notin before

OffInv ==
  /\ \A w \in Requests : Answered(w, "unregister") /\ platform[user[w]][token[w]] # None => Again(w)
  /\ \A w, n \in Requests :
       /\ <<w, n>> \in before /\ Answered(w, "unregister") /\ user[w] = user[n]
       /\ token[w] \in toPush[n] \cup pushed[n]
       => Again(w)
  /\ \A w \in Requests : Answered(w, "mute") /\ user[w] \notin muted => Unmuted(w)
  /\ \A w, n \in Requests :
       /\ <<w, n>> \in before /\ Answered(w, "mute") /\ user[w] = user[n]
       /\ At(n, "notify", "tokens") \/ At(n, "notify", "send") \/ pushed[n] # {}
       /\ n \notin failed
       => Unmuted(w)

\* Nothing about the endpoint t overlapped or interfered with the subscription of u.
Calm(u, t) ==
  /\ \A r, s \in Requests : token[r] = t /\ token[s] = t => ~Overlap(r, s)
  /\ \A r \in Requests : About(r, u, t) => op[r] \notin {"register", "unregister"}
  /\ \A r \in Requests : token[r] = t /\ user[r] # u => op[r] # "subscribe"

Between(r, u, t) == About(r, u, t) /\ op[r] \in {"subscribe", "unsubscribe"} /\ pc[r] = "keys"

\* A broken request that none has made good for.
Loose(r, u, t) == About(r, u, t) /\ Broken(r) /\ ~Repaired(r)

KeysInv ==
  \A u \in Users, t \in Tokens :
    Calm(u, t) =>
      /\ \A r \in Requests :
           Between(r, u, t) /\ r \notin failed => (platform[u][t] = "web" <=> op[r] = "subscribe")
      /\ \/ \E r \in Requests : Between(r, u, t) \/ Loose(r, u, t)
         \/ keyOwner[t] = u <=> platform[u][t] = "web"

-----------------------------------------------------------------------------
(* Every step begins a request or is a statement of one.                    *)

USE AccountAssumption, PushAssumption

Kept(r) ==
  /\ op'[r] = op[r] /\ user'[r] = user[r] /\ agent'[r] = agent[r] /\ offer'[r] = offer[r]
  /\ oldPassword'[r] = oldPassword[r] /\ newPassword'[r] = newPassword[r] /\ token'[r] = token[r]

Starts(r) ==
  /\ pc[r] = "idle"
  /\ pc'[r] \in {"select", "insert", "upsert", "delete", "token", "muted"}
  /\ \A s \in Requests : s # r => pc'[s] = pc[s] /\ Kept(s)
  /\ before' = before \cup {<<s, r>> : s \in {s \in Requests : Ended(s)}}
  /\ UNCHANGED <<tables, result, was, pushTables, toPush, pushed, failed>>

Works(r) ==
  /\ InFlight(r)
  /\ pc'[r] \in Steps \ {"idle"}
  /\ \A s \in Requests : s # r => pc'[s] = pc[s]
  /\ UNCHANGED <<arguments, before, token>>
  /\ failed \subseteq failed'

\* What no step changes.
Persists ==
  /\ failed \subseteq failed'
  /\ \A r \in Requests :
       pc[r] # "idle" =>
         /\ Kept(r)
         /\ pc'[r] # "idle"
         /\ Ended(r) => pc'[r] = pc[r]
         /\ \A s \in Requests : <<s, r>> \in before' <=> <<s, r>> \in before

LEMMA StepPersists ==
  ASSUME NEW r \in Requests, Starts(r) \/ Works(r)
  PROVE  Persists
<1>1. CASE Starts(r)
  <2> USE <1>1 DEF Starts
  <2>1. ASSUME NEW s \in Requests, pc[s] # "idle", NEW q \in Requests
        PROVE  <<q, s>> \in before' <=> <<q, s>> \in before
    BY <2>1
  <2> QED BY <2>1 DEF Persists, Kept
<1>2. CASE Works(r)
  <2> USE <1>2 DEF Works
  <2>1. ASSUME NEW s \in Requests, pc[s] # "idle"
        PROVE  Kept(s) /\ pc'[s] # "idle" /\ (Ended(s) => pc'[s] = pc[s])
    <3>1. CASE s = r
      BY <3>1 DEF Kept, InFlight, arguments
    <3>2. CASE s # r
      BY <2>1, <3>2 DEF Kept, arguments
    <3> QED BY <3>1, <3>2
  <2> QED BY <2>1 DEF Persists
<1> QED BY <1>1, <1>2

\* What the persistence of two requests says of their overlap.
LEMMA OverlapPersists ==
  ASSUME Persists, NEW r \in Requests, NEW s \in Requests, pc[r] # "idle", pc[s] # "idle"
  PROVE  Overlap(r, s)' <=> Overlap(r, s)
  BY DEF Persists, Overlap

LEMMA StepBefore ==
  ASSUME IInv, NEW r \in Requests, Starts(r) \/ Works(r)
  PROVE  BeforeInv'
<1> USE DEF IInv
<1>1. Persists
  BY StepPersists
<1>2. ASSUME NEW s \in Requests, NEW q \in Requests, <<s, q>> \in before'
      PROVE  Ended(s)' /\ pc'[q] # "idle" /\ s # q
  <2>1. CASE <<s, q>> \in before
    <3>1. Ended(s) /\ pc[q] # "idle" /\ s # q
      BY <2>1 DEF BeforeInv
    <3>2. pc[s] # "idle"
      BY <3>1 DEF Ended
    <3> QED BY <1>1, <3>1, <3>2 DEF Persists, Ended
  <2>2. CASE <<s, q>> \notin before
    <3>1. Starts(r) /\ q = r /\ Ended(s)
      BY <1>2, <2>2 DEF Starts, Works
    <3>2. s # r
      BY <3>1 DEF Starts, Ended
    <3> QED BY <3>1, <3>2 DEF Starts, Ended
  <2> QED BY <2>1, <2>2
<1> QED BY <1>2 DEF BeforeInv

-----------------------------------------------------------------------------
(* Types, request by request.                                               *)

\* The arguments of a request that begins.
Given(r) ==
  /\ op'[r] \in UserOps \cup TokenOps \cup MuteOps \cup {"conversation"} => user'[r] \in Users
  /\ op'[r] \in AgentOps \cup {"conversation"} => agent'[r] \in Agents
  /\ op'[r] \in TokenOps => token'[r] \in Tokens
  /\ op'[r] \in UserOps => newPassword'[r] \in Passwords
  /\ op'[r] \in {"password", "conversation"} => password[user'[r]] # None
  /\ pc'[r] = "insert" => op'[r] \in {"user", "create-agent"}

Begins(r) == Starts(r) /\ RequestTypes' /\ Given(r)

LEMMA BeginUserStep ==
  ASSUME IInv, NEW r \in Requests, NEW u \in Users, NEW p \in Passwords, NEW q \in Passwords,
         BeginRegisterUser(r, u, p) \/ BeginChangePassword(r, u, p, q), UNCHANGED pushVars
  PROVE  Begins(r)
<1> USE DEF IInv, RequestTypes, pushVars, pushTables, Goto, Begin, Claims
<1>1. CASE BeginRegisterUser(r, u, p)
  <2> USE <1>1 DEF BeginRegisterUser
  <2>1. RequestTypes'
    BY DEF UserOps, Steps
  <2>2. Starts(r)
    BY DEF Starts, Kept
  <2>3. Given(r)
    BY DEF Given, UserOps, AgentOps, TokenOps
  <2> QED BY <2>1, <2>2, <2>3 DEF Begins
<1>2. CASE BeginChangePassword(r, u, p, q)
  <2> USE <1>2 DEF BeginChangePassword
  <2>1. RequestTypes'
    BY DEF UserOps, Steps
  <2>2. Starts(r)
    BY DEF Starts, Kept
  <2>3. Given(r)
    BY DEF Given, UserOps, AgentOps, TokenOps
  <2> QED BY <2>1, <2>2, <2>3 DEF Begins
<1> QED BY <1>1, <1>2

LEMMA BeginAgentStep ==
  ASSUME IInv, NEW r \in Requests, NEW a \in Agents, NEW given \in Offers \cup {{}},
         \/ BeginRegisterAgent(r, a, given)
         \/ BeginConnect(r, a, given)
         \/ BeginCreateAgent(r, a, given)
         \/ BeginDeleteAgent(r, a),
         UNCHANGED pushVars
  PROVE  Begins(r)
<1> USE DEF IInv, RequestTypes, pushVars, pushTables, Goto, Begin
<1>1. PICK o \in AgentOps, step \in {"upsert", "select", "insert", "delete"}, g \in SUBSET Fields :
        BeginAgent(r, o, step, a, g) /\ (step = "insert" => o = "create-agent")
  BY DEF BeginRegisterAgent, BeginConnect, BeginCreateAgent, BeginDeleteAgent, AgentOps
<1>2. RequestTypes'
  BY <1>1 DEF BeginAgent, AgentOps, Steps
<1>3. Starts(r)
  BY <1>1 DEF BeginAgent, Starts, Kept
<1>4. op'[r] = o /\ agent'[r] = a /\ pc'[r] = step
  BY <1>1 DEF BeginAgent
<1>5. Given(r)
  BY <1>1, <1>4 DEF Given, UserOps, AgentOps, TokenOps, MuteOps
<1> QED BY <1>2, <1>3, <1>5 DEF Begins

LEMMA BeginConversationStep ==
  ASSUME IInv, NEW r \in Requests, NEW u \in Users, NEW a \in Agents,
         BeginConversation(r, u, a), UNCHANGED pushVars
  PROVE  Begins(r)
<1> USE DEF IInv, RequestTypes, pushVars, pushTables, Goto, Begin, Claims, BeginConversation
<1>1. RequestTypes'
  BY DEF Steps
<1>2. Starts(r)
  BY DEF Starts, Kept
<1>3. Given(r)
  BY DEF Given, UserOps, AgentOps, TokenOps
<1> QED BY <1>1, <1>2, <1>3 DEF Begins

LEMMA BeginPushStep ==
  ASSUME IInv, NEW r \in Requests, NEW u \in Users,
         \/ \E t \in Tokens :
              \/ BeginRegister(r, u, t)
              \/ BeginUnregister(r, u, t)
              \/ BeginSubscribe(r, u, t)
              \/ BeginUnsubscribe(r, u, t)
         \/ BeginMute(r, u)
         \/ BeginUnmute(r, u)
         \/ BeginNotify(r, u)
  PROVE  Begins(r)
<1> USE DEF IInv, RequestTypes, pushTables, Goto, Begin, Claims, BeginPush
<1>1. CASE \E t \in Tokens : \/ BeginRegister(r, u, t)
                             \/ BeginUnregister(r, u, t)
                             \/ BeginSubscribe(r, u, t)
                             \/ BeginUnsubscribe(r, u, t)
  <2>1. PICK t \in Tokens, o \in TokenOps, step \in {"upsert", "delete", "token"} :
          BeginTokenRequest(r, o, step, u, t)
    BY <1>1 DEF BeginRegister, BeginUnregister, BeginSubscribe, BeginUnsubscribe, TokenOps
  <2> USE <2>1 DEF BeginTokenRequest
  <2>2. RequestTypes'
    BY DEF TokenOps, Steps
  <2>3. Starts(r)
    BY DEF Starts, Kept
  <2>4. op'[r] = o /\ user'[r] = u /\ token'[r] = t /\ pc'[r] = step
    OBVIOUS
  <2>5. Given(r)
    BY <2>4 DEF Given, UserOps, AgentOps, TokenOps, MuteOps
  <2> QED BY <2>2, <2>3, <2>5 DEF Begins
<1>2. CASE BeginMute(r, u) \/ BeginUnmute(r, u) \/ BeginNotify(r, u)
  <2>1. PICK o \in MuteOps, step \in {"upsert", "delete", "muted"} :
          BeginPush(r, o, step, u) /\ UNCHANGED token
    BY <1>2 DEF BeginMute, BeginUnmute, BeginNotify, MuteOps
  <2> USE <2>1
  <2>2. RequestTypes'
    BY DEF MuteOps, Steps
  <2>3. Starts(r)
    BY DEF Starts, Kept
  <2>4. op'[r] = o /\ user'[r] = u /\ pc'[r] = step
    OBVIOUS
  <2>5. Given(r)
    BY <2>4 DEF Given, UserOps, AgentOps, TokenOps, MuteOps
  <2> QED BY <2>2, <2>3, <2>5 DEF Begins
<1> QED BY <1>1, <1>2

\* The statements, by the table they are about, and the ones that fail.
UserWork(r) == InsertUser(r) \/ SelectPassword(r) \/ UpdatePassword(r)
AgentWork(r) == UpsertAgent(r) \/ InsertAgent(r) \/ SelectAgent(r) \/ UpdateAgent(r) \/ DeleteAgent(r)
ConversationWork(r) == SelectConversation(r) \/ InsertConversation(r)
TokenWork(r) ==
  \/ RegisterToken(r) \/ UnregisterToken(r) \/ SubscribeToken(r)
  \/ SubscribeKeys(r) \/ UnsubscribeToken(r) \/ UnsubscribeKeys(r)
NotifyWork(r) == SetMuted(r) \/ DeleteMuted(r) \/ CheckMuted(r) \/ ReadTokens(r) \/ SendPush(r)
BrokenWork(r) ==
  \/ Cut(r) /\ UNCHANGED pushVars
  \/ SubscribeKeysFails(r) \/ UnsubscribeTokenFails(r) \/ UnsubscribeKeysFails(r)
  \/ DeleteMutedFails(r) \/ CheckMutedFails(r)

\* The requests that may go on after a failure.
LaxOps == {"subscribe", "unsubscribe", "unmute", "notify"}

LEMMA UserWorkStep ==
  ASSUME IInv, NEW r \in Requests, UserWork(r), UNCHANGED pushVars
  PROVE  /\ Works(r) /\ op[r] \in UserOps
         /\ TableTypes' /\ RequestTypes'
         /\ UNCHANGED <<agents, field, conversations, created, result>>
<1> USE DEF IInv, pushVars, pushTables, Goto, At, UserOps
<1>1. user[r] \in Users /\ newPassword[r] \in Passwords
  BY DEF UserWork, InsertUser, SelectPassword, UpdatePassword, ArgumentsInv
<1>2. CASE InsertUser(r)
  <2> USE <1>2 DEF InsertUser
  <2>1. TableTypes'
    BY <1>1 DEF TableTypes
  <2>2. RequestTypes'
    BY DEF RequestTypes, Steps, arguments
  <2>3. Works(r)
    BY DEF Works, RequestTypes, InFlight, Ended, Steps
  <2> QED BY <2>1, <2>2, <2>3
<1>3. CASE SelectPassword(r)
  <2> USE <1>3 DEF SelectPassword, tables
  <2>1. TableTypes'
    BY DEF TableTypes
  <2>2. RequestTypes'
    BY DEF RequestTypes, Steps, arguments
  <2>3. Works(r)
    BY DEF Works, RequestTypes, InFlight, Ended, Steps
  <2> QED BY <2>1, <2>2, <2>3
<1>4. CASE UpdatePassword(r)
  <2> USE <1>4 DEF UpdatePassword
  <2>1. TableTypes'
    BY <1>1 DEF TableTypes
  <2>2. RequestTypes'
    BY <1>1 DEF TableTypes, RequestTypes, Steps, arguments
  <2>3. Works(r)
    BY DEF Works, RequestTypes, InFlight, Ended, Steps
  <2> QED BY <2>1, <2>2, <2>3
<1> QED BY <1>2, <1>3, <1>4 DEF UserWork

\* The next UPDATE of a field that is given.
LEMMA NextUpdateIs ==
  ASSUME NEW r, NEW i \in 1..5
  PROVE  \/ /\ NextUpdate(r, i) = "answered"
            /\ \A j \in i..4 : UpdateOrder[j] \notin offer[r]
         \/ \E k \in i..4 : /\ NextUpdate(r, i) = UpdateOrder[k]
                            /\ \A j \in i..4 : j < k => UpdateOrder[j] \notin offer[r]
<1> DEFINE given == {j \in i..4 : UpdateOrder[j] \in offer[r]}
<1>1. CASE given = {}
  BY <1>1 DEF NextUpdate
<1>2. CASE given # {}
  <2>1. \E k \in given : \A j \in given : k <= j
    <3>1. given \subseteq 1..4
      OBVIOUS
    <3> HIDE DEF given
    <3>2. CASE 1 \in given
      BY <3>1, <3>2
    <3>3. CASE 1 \notin given /\ 2 \in given
      BY <3>1, <3>3
    <3>4. CASE 1 \notin given /\ 2 \notin given /\ 3 \in given
      BY <3>1, <3>4
    <3>5. CASE 1 \notin given /\ 2 \notin given /\ 3 \notin given
      <4>1. \A j \in given : j = 4
        BY <3>1, <3>5
      <4> QED BY <1>2, <4>1
    <3> QED BY <3>2, <3>3, <3>4, <3>5
  <2>2. PICK k : k = CHOOSE n \in given : \A j \in given : n <= j
    OBVIOUS
  <2>3. k \in given /\ \A j \in given : k <= j
    BY <2>1, <2>2
  <2>4. NextUpdate(r, i) = UpdateOrder[k]
    BY <1>2, <2>2 DEF NextUpdate
  <2> QED BY <2>3, <2>4
<1> QED BY <1>1, <1>2

LEMMA UpdateOrderIs ==
  /\ \A i \in 1..4 : UpdateOrder[i] \in Fields
  /\ \A f \in Fields : \E i \in 1..4 : UpdateOrder[i] = f
  /\ \A i, j \in 1..4 : UpdateOrder[i] = UpdateOrder[j] => i = j
<1>1. /\ UpdateOrder[1] = "model" /\ UpdateOrder[2] = "personality"
      /\ UpdateOrder[3] = "specialty" /\ UpdateOrder[4] = "name"
  BY DEF UpdateOrder
<1>2. 1..4 = {1, 2, 3, 4}
  OBVIOUS
<1> QED BY <1>1, <1>2 DEF Fields

LEMMA NextUpdateType ==
  ASSUME NEW r, NEW i \in 1..5
  PROVE  NextUpdate(r, i) \in Fields \cup {"answered"}
  BY NextUpdateIs, UpdateOrderIs

LEMMA AgentWorkStep ==
  ASSUME IInv, NEW r \in Requests, AgentWork(r), UNCHANGED pushVars
  PROVE  /\ Works(r) /\ op[r] \in AgentOps
         /\ TableTypes' /\ RequestTypes'
         /\ UNCHANGED <<password, conversations, created, result, was>>
<1> USE DEF IInv, pushVars, pushTables, Goto, At, AgentOps, tables
<1>1. agent[r] \in Agents /\ offer[r] \in SUBSET Fields
  <2>1. op[r] \in AgentOps /\ pc[r] # "idle"
    BY UpdateOrderIs DEF AgentWork, UpsertAgent, InsertAgent, SelectAgent, UpdateAgent, DeleteAgent, Fields
  <2> QED BY <2>1 DEF ArgumentsInv, RequestTypes
<1>2. UNCHANGED <<password, conversations, created, result, was, arguments, before>>
  BY DEF AgentWork, UpsertAgent, InsertAgent, SelectAgent, UpdateAgent, DeleteAgent
<1>3. TableTypes'
  <2>1. CASE UpsertAgent(r)
    BY <1>1, <2>1 DEF UpsertAgent, WriteRow, TableTypes
  <2>2. CASE InsertAgent(r)
    BY <1>1, <2>2 DEF InsertAgent, WriteRow, TableTypes
  <2>3. CASE SelectAgent(r)
    BY <2>3 DEF SelectAgent, TableTypes
  <2>4. CASE UpdateAgent(r)
    <3>1. PICK i \in 1..4 : field' = Updated(r, i) /\ UNCHANGED agents
      BY <2>4 DEF UpdateAgent
    <3>2. UpdateOrder[i] \in Fields
      BY UpdateOrderIs
    <3>3. field' \in [Agents -> [Fields -> Requests \cup {None}]]
      BY <1>1, <3>1, <3>2 DEF TableTypes, Updated
    <3> QED BY <1>2, <3>1, <3>3 DEF TableTypes
  <2>5. CASE DeleteAgent(r)
    BY <1>1, <2>5 DEF DeleteAgent, TableTypes
  <2> QED BY <2>1, <2>2, <2>3, <2>4, <2>5 DEF AgentWork
<1>4. PICK step \in Steps \ {"idle"} : pc' = [pc EXCEPT ![r] = step]
  <2>1. CASE UpsertAgent(r) \/ InsertAgent(r) \/ DeleteAgent(r)
    BY <2>1 DEF UpsertAgent, InsertAgent, DeleteAgent, Steps
  <2>2. CASE SelectAgent(r)
    <3>1. NextUpdate(r, 1) \in Fields \cup {"answered"}
      BY NextUpdateType
    <3> QED BY <2>2, <3>1 DEF SelectAgent, Steps, Fields
  <2>3. CASE UpdateAgent(r)
    <3>1. PICK i \in 1..4 : pc' = [pc EXCEPT ![r] = NextUpdate(r, i + 1)]
      BY <2>3 DEF UpdateAgent
    <3>2. NextUpdate(r, i + 1) \in Fields \cup {"answered"}
      BY NextUpdateType
    <3> QED BY <3>1, <3>2 DEF Steps, Fields
  <2> QED BY <2>1, <2>2, <2>3 DEF AgentWork
<1>5. RequestTypes'
  BY <1>2, <1>4 DEF RequestTypes, arguments
<1>6. op[r] \in AgentOps /\ InFlight(r)
  BY UpdateOrderIs DEF AgentWork, UpsertAgent, InsertAgent, SelectAgent, UpdateAgent, DeleteAgent,
                       Fields, InFlight, Ended
<1>7. Works(r)
  BY <1>2, <1>4, <1>6 DEF Works, RequestTypes, arguments
<1> QED BY <1>2, <1>3, <1>5, <1>6, <1>7

\* There is a latest time among the conversations.
LEMMA LatestIs ==
  ASSUME TableTypes,
         conversations # {} => \E c \in conversations : \A d \in conversations : created[d] <= created[c]
  PROVE  /\ Max({created[d] : d \in conversations} \cup {0}) \in Nat
         /\ \A d \in conversations : created[d] <= Max({created[d2] : d2 \in conversations} \cup {0})
<1> DEFINE S == {created[d] : d \in conversations} \cup {0}
<1>1. \E x \in S : \A y \in S : x >= y
  <2>1. CASE conversations = {}
    <3>1. S = {0}
      BY <2>1
    <3> QED BY <3>1
  <2>2. CASE conversations # {}
    <3>1. PICK c \in conversations : \A d \in conversations : created[d] <= created[c]
      BY <2>2
    <3>2. created[c] \in S /\ created[c] \in Nat
      BY DEF TableTypes
    <3>3. \A y \in S : created[c] >= y
      BY <3>1, <3>2 DEF TableTypes
    <3> QED BY <3>2, <3>3
  <2> QED BY <2>1, <2>2
<1>2. S \subseteq Nat /\ \A d \in conversations : created[d] \in S
  BY DEF TableTypes
<1> HIDE DEF S
<1>3. Max(S) \in S /\ \A y \in S : Max(S) >= y
  BY <1>1 DEF Max
<1>4. Max(S) \in Nat /\ \A d \in conversations : created[d] <= Max(S)
  BY <1>2, <1>3
<1> QED BY <1>4 DEF S

LEMMA ConversationWorkStep ==
  ASSUME IInv, ConversationInv, NEW r \in Requests, ConversationWork(r), UNCHANGED pushVars
  PROVE  /\ Works(r) /\ op[r] = "conversation"
         /\ TableTypes' /\ RequestTypes'
         /\ UNCHANGED <<password, agents, field, was>>
<1> USE DEF IInv, pushVars, pushTables, Goto, At, tables
<1>1. UNCHANGED <<password, agents, field, was, arguments, before>>
  BY DEF ConversationWork, SelectConversation, InsertConversation
<1>2. TableTypes'
  <2>1. CASE SelectConversation(r)
    BY <2>1 DEF SelectConversation, TableTypes
  <2>2. CASE InsertConversation(r)
    <3>1. Max({created[d] : d \in conversations} \cup {0}) \in Nat
      BY LatestIs DEF ConversationInv
    <3>2. PICK m \in Nat : m = Max({created[d] : d \in conversations} \cup {0})
      BY <3>1
    <3>3. created' = created \/ \E second \in {0, 1} : created' = [created EXCEPT ![r] = second + m]
      BY <2>2, <3>2 DEF InsertConversation
    <3>4. created' \in [Requests -> Nat]
      BY <3>3 DEF TableTypes
    <3>5. conversations' \in SUBSET Requests
      BY <2>2 DEF InsertConversation, TableTypes
    <3> QED BY <1>1, <3>4, <3>5 DEF TableTypes
  <2> QED BY <2>1, <2>2 DEF ConversationWork
<1>3. result' \in [Requests -> Requests \cup {None}]
  <2>1. Newest(r) \subseteq Requests
    BY DEF Newest, SamePair, TableTypes
  <2> QED BY <2>1 DEF ConversationWork, SelectConversation, InsertConversation, RequestTypes
<1>4. PICK step \in {"insert", "answered", "refused"} : pc' = [pc EXCEPT ![r] = step]
  BY DEF ConversationWork, SelectConversation, InsertConversation
<1>5. RequestTypes'
  BY <1>1, <1>3, <1>4 DEF RequestTypes, Steps, arguments
<1>6. op[r] = "conversation" /\ InFlight(r)
  BY DEF ConversationWork, SelectConversation, InsertConversation, InFlight, Ended
<1>7. Works(r)
  BY <1>1, <1>4, <1>6 DEF Works, RequestTypes, Steps, arguments
<1> QED BY <1>1, <1>2, <1>5, <1>6, <1>7

LEMMA TokenWorkStep ==
  ASSUME IInv, NEW r \in Requests, TokenWork(r)
  PROVE  /\ Works(r) /\ op[r] \in TokenOps
         /\ TableTypes' /\ RequestTypes'
         /\ UNCHANGED <<tables, result, was, muted, toPush, pushed, failed>>
<1> USE DEF IInv, Goto, At, Rest
<1>1. UNCHANGED <<tables, arguments, result, was, before, token, muted, toPush, pushed, failed>>
  BY DEF TokenWork, RegisterToken, UnregisterToken, SubscribeToken, SubscribeKeys, UnsubscribeToken,
         UnsubscribeKeys
<1>2. op[r] \in TokenOps /\ InFlight(r)
  BY DEF TokenWork, RegisterToken, UnregisterToken, SubscribeToken, SubscribeKeys, UnsubscribeToken,
         UnsubscribeKeys, InFlight, Ended, TokenOps
<1>3. user[r] \in Users /\ token[r] \in Tokens
  BY <1>2 DEF ArgumentsInv, InFlight
<1>4. PICK step \in {"keys", "answered"} : pc' = [pc EXCEPT ![r] = step]
  BY DEF TokenWork, RegisterToken, UnregisterToken, SubscribeToken, SubscribeKeys, UnsubscribeToken,
         UnsubscribeKeys
<1>5. platform' \in [Users -> [Tokens -> Platforms \cup {None}]]
  <2>1. CASE platform' = platform
    BY <2>1 DEF TableTypes
  <2>2. CASE \E p \in Platforms \cup {None} : SetPlatform(r, p)
    <3>1. PICK p \in Platforms \cup {None} : platform' = [platform EXCEPT ![user[r]][token[r]] = p]
      BY <2>2 DEF SetPlatform
    <3> QED BY <1>3, <3>1 DEF TableTypes
  <2> QED BY <2>1, <2>2 DEF TokenWork, RegisterToken, UnregisterToken, SubscribeToken, SubscribeKeys,
                            UnsubscribeToken, UnsubscribeKeys, Platforms
<1>6. keyOwner' \in [Tokens -> Users \cup {None}]
  BY <1>3 DEF TokenWork, RegisterToken, UnregisterToken, SubscribeToken, SubscribeKeys,
              UnsubscribeToken, UnsubscribeKeys, KeyDeleted, TableTypes
<1>7. TableTypes'
  BY <1>1, <1>5, <1>6 DEF TableTypes, tables
<1>8. RequestTypes'
  BY <1>1, <1>4 DEF RequestTypes, Steps, arguments
<1>9. Works(r)
  BY <1>1, <1>2, <1>4 DEF Works, RequestTypes, Steps, arguments
<1> QED BY <1>1, <1>2, <1>7, <1>8, <1>9

LEMMA NotifyWorkStep ==
  ASSUME IInv, NEW r \in Requests, NotifyWork(r)
  PROVE  /\ Works(r) /\ op[r] \in MuteOps
         /\ TableTypes' /\ RequestTypes'
         /\ UNCHANGED <<tables, result, was, platform, keyOwner, failed>>
<1> USE DEF IInv, Goto, At, Rest, pushTables
<1>1. UNCHANGED <<tables, arguments, result, was, before, token, platform, keyOwner, failed>>
  BY DEF NotifyWork, SetMuted, DeleteMuted, CheckMuted, ReadTokens, SendPush
<1>2. op[r] \in MuteOps /\ InFlight(r)
  BY DEF NotifyWork, SetMuted, DeleteMuted, CheckMuted, ReadTokens, SendPush, InFlight, Ended, MuteOps
<1>3. user[r] \in Users
  BY <1>2 DEF ArgumentsInv, InFlight
<1>4. PICK step \in {"tokens", "send", "answered"} : pc' = [pc EXCEPT ![r] = step]
  BY DEF NotifyWork, SetMuted, DeleteMuted, CheckMuted, ReadTokens, SendPush
<1>5. muted' \in SUBSET Users
  BY <1>3 DEF NotifyWork, SetMuted, DeleteMuted, CheckMuted, ReadTokens, SendPush, TableTypes
<1>6. toPush' \in [Requests -> SUBSET Tokens] /\ pushed' \in [Requests -> SUBSET Tokens]
  <2>1. CASE SetMuted(r) \/ DeleteMuted(r) \/ CheckMuted(r)
    BY <2>1 DEF SetMuted, DeleteMuted, CheckMuted, RequestTypes
  <2>2. CASE ReadTokens(r)
    BY <2>2 DEF ReadTokens, DeviceTokens, RequestTypes
  <2>3. CASE SendPush(r)
    <3>1. PICK t \in toPush[r] : /\ pushed' = [pushed EXCEPT ![r] = pushed[r] \cup {t}]
                                 /\ toPush' = [toPush EXCEPT ![r] = toPush[r] \ {t}]
      BY <2>3 DEF SendPush, RequestTypes
    <3>2. t \in Tokens
      BY DEF RequestTypes
    <3> QED BY <3>1, <3>2 DEF RequestTypes
  <2> QED BY <2>1, <2>2, <2>3 DEF NotifyWork
<1>7. TableTypes'
  BY <1>1, <1>5 DEF TableTypes, tables
<1>8. RequestTypes'
  BY <1>1, <1>4, <1>6 DEF RequestTypes, Steps, arguments
<1>9. Works(r)
  BY <1>1, <1>2, <1>4 DEF Works, RequestTypes, Steps, arguments
<1> QED BY <1>1, <1>2, <1>7, <1>8, <1>9

\* A request that is broken writes nothing; it ends, or is marked.
LEMMA BrokenWorkStep ==
  ASSUME IInv, NEW r \in Requests, BrokenWork(r)
  PROVE  /\ Works(r)
         /\ TableTypes' /\ RequestTypes'
         /\ UNCHANGED <<tables, result, was, pushTables, toPush, pushed>>
         /\ \/ pc'[r] = "cut" /\ failed' = failed
            \/ op[r] \in LaxOps /\ failed' = failed \cup {r}
<1> USE DEF IInv, Goto, At
<1>1. CASE Cut(r) /\ UNCHANGED pushVars
  <2> USE <1>1 DEF Cut, pushVars, pushTables, tables, arguments
  <2>1. TableTypes' /\ RequestTypes'
    BY DEF TableTypes, RequestTypes, Steps
  <2>2. Works(r) /\ pc'[r] = "cut"
    BY DEF Works, RequestTypes, Steps
  <2> QED BY <2>1, <2>2
<1>2. CASE ~(Cut(r) /\ UNCHANGED pushVars)
  <2>1. PICK o \in LaxOps, step \in {"keys", "token", "delete", "muted"},
             next \in {"keys", "tokens", "answered"} : GoesOn(r, o, step, next)
    BY <1>2 DEF BrokenWork, SubscribeKeysFails, UnsubscribeTokenFails, UnsubscribeKeysFails,
                DeleteMutedFails, CheckMutedFails, LaxOps
  <2> USE <2>1 DEF GoesOn, pushTables, tables, arguments
  <2>2. TableTypes' /\ RequestTypes'
    BY DEF TableTypes, RequestTypes, Steps
  <2>3. Works(r)
    BY DEF Works, RequestTypes, Steps, InFlight, Ended
  <2> QED BY <2>2, <2>3
<1> QED BY <1>1, <1>2

\* A statement leaves what a request has not begun with as it was.
LEMMA WorksArguments ==
  ASSUME IInv, NEW r \in Requests, Works(r),
         \A s \in Requests : s # r => toPush'[s] = toPush[s] /\ pushed'[s] = pushed[s]
  PROVE  ArgumentsInv'
<1> USE DEF IInv, Works, arguments
<1>1. ASSUME NEW s \in Requests PROVE pc'[s] = "idle" <=> pc[s] = "idle"
  <2>1. CASE s = r
    BY <2>1 DEF InFlight
  <2>2. CASE s # r
    BY <2>2
  <2> QED BY <2>1, <2>2
<1>2. ASSUME NEW s \in Requests, pc'[s] = "idle" PROVE toPush'[s] = {} /\ pushed'[s] = {}
  <2>1. s # r
    BY <1>2
  <2> QED BY <1>1, <1>2, <2>1 DEF ArgumentsInv
<1> QED BY <1>1, <1>2 DEF ArgumentsInv

LEMMA BeginsIInv ==
  ASSUME IInv, NEW r \in Requests, Begins(r)
  PROVE  IInv'
<1> USE DEF IInv, Begins
<1>1. TableTypes'
  BY DEF Starts, tables, pushTables, TableTypes
<1>2. ArgumentsInv'
  <2>1. ASSUME NEW s \in Requests, s # r
        PROVE  pc'[s] = pc[s] /\ Kept(s) /\ toPush'[s] = toPush[s] /\ pushed'[s] = pushed[s]
    BY <2>1 DEF Starts
  <2>2. pc'[r] # "idle"
    BY DEF Starts
  <2> QED BY <2>1, <2>2 DEF ArgumentsInv, Kept, Given
<1>3. BeforeInv'
  BY StepBefore
<1> QED BY <1>1, <1>2, <1>3

LEMMA WorksIInv ==
  ASSUME IInv, ConversationInv, NEW r \in Requests,
         \/ UserWork(r) /\ UNCHANGED pushVars
         \/ AgentWork(r) /\ UNCHANGED pushVars
         \/ ConversationWork(r) /\ UNCHANGED pushVars
         \/ TokenWork(r)
         \/ NotifyWork(r)
         \/ BrokenWork(r)
  PROVE  IInv' /\ Works(r)
<1>1. Works(r) /\ TableTypes' /\ RequestTypes'
  BY UserWorkStep, AgentWorkStep, ConversationWorkStep, TokenWorkStep, NotifyWorkStep, BrokenWorkStep
<1>2. ASSUME NEW s \in Requests, s # r
      PROVE  toPush'[s] = toPush[s] /\ pushed'[s] = pushed[s]
  <2>1. CASE UNCHANGED pushVars
    BY <2>1 DEF pushVars
  <2>2. CASE TokenWork(r)
    BY <2>2, TokenWorkStep
  <2>3. CASE NotifyWork(r)
    BY <1>2, <2>3 DEF NotifyWork, SetMuted, DeleteMuted, CheckMuted, ReadTokens, SendPush, IInv, RequestTypes
  <2>4. CASE BrokenWork(r)
    BY <2>4, BrokenWorkStep
  <2> QED BY <2>1, <2>2, <2>3, <2>4
<1>3. ArgumentsInv'
  BY <1>1, <1>2, WorksArguments
<1>4. BeforeInv'
  BY <1>1, StepBefore
<1> QED BY <1>1, <1>3, <1>4 DEF IInv

\* The steps by what they do.
Step(r) ==
  \/ Begins(r)
  \/ UserWork(r) /\ UNCHANGED pushVars
  \/ AgentWork(r) /\ UNCHANGED pushVars
  \/ ConversationWork(r) /\ UNCHANGED pushVars
  \/ TokenWork(r)
  \/ NotifyWork(r)
  \/ BrokenWork(r)

LEMMA NextIsStep ==
  ASSUME IInv, Next
  PROVE  \E r \in Requests : Step(r)
<1>1. CASE AccountNext /\ UNCHANGED pushVars
  <2>1. PICK r \in Requests :
          \/ \E u \in Users, p \in Passwords :
               \/ BeginRegisterUser(r, u, p)
               \/ \E q \in Passwords : BeginChangePassword(r, u, p, q)
          \/ \E a \in Agents :
               \/ \E given \in Offers :
                    \/ BeginRegisterAgent(r, a, given)
                    \/ BeginConnect(r, a, given)
                    \/ BeginCreateAgent(r, a, given)
               \/ BeginDeleteAgent(r, a)
               \/ \E u \in Users : BeginConversation(r, u, a)
          \/ UserWork(r) \/ AgentWork(r) \/ ConversationWork(r) \/ Cut(r)
    BY <1>1 DEF AccountNext, UserWork, AgentWork, ConversationWork
  <2>2. CASE \E u \in Users, p \in Passwords :
               \/ BeginRegisterUser(r, u, p)
               \/ \E q \in Passwords : BeginChangePassword(r, u, p, q)
    <3>1. Begins(r)
      BY <1>1, <2>2, BeginUserStep
    <3> QED BY <3>1 DEF Step
  <2>3. ASSUME NEW a \in Agents,
               \/ \E given \in Offers :
                    \/ BeginRegisterAgent(r, a, given)
                    \/ BeginConnect(r, a, given)
                    \/ BeginCreateAgent(r, a, given)
               \/ BeginDeleteAgent(r, a)
        PROVE  Step(r)
    <3>1. \E given \in Offers \cup {{}} :
            \/ BeginRegisterAgent(r, a, given)
            \/ BeginConnect(r, a, given)
            \/ BeginCreateAgent(r, a, given)
            \/ BeginDeleteAgent(r, a)
      BY <2>3
    <3>2. Begins(r)
      BY <1>1, <3>1, BeginAgentStep
    <3> QED BY <3>2 DEF Step
  <2>4. ASSUME NEW a \in Agents, NEW u \in Users, BeginConversation(r, u, a)
        PROVE  Step(r)
    <3>1. Begins(r)
      BY <1>1, <2>4, BeginConversationStep
    <3> QED BY <3>1 DEF Step
  <2>5. CASE UserWork(r) \/ AgentWork(r) \/ ConversationWork(r)
    BY <1>1, <2>5 DEF Step
  <2>6. CASE Cut(r)
    BY <1>1, <2>6 DEF Step, BrokenWork
  <2> QED BY <2>1, <2>2, <2>3, <2>4, <2>5, <2>6
<1>2. CASE PushNext
  <2>1. PICK r \in Requests :
          \/ \E u \in Users :
               \/ \E t \in Tokens :
                    \/ BeginRegister(r, u, t)
                    \/ BeginUnregister(r, u, t)
                    \/ BeginSubscribe(r, u, t)
                    \/ BeginUnsubscribe(r, u, t)
               \/ BeginMute(r, u)
               \/ BeginUnmute(r, u)
               \/ BeginNotify(r, u)
          \/ TokenWork(r) \/ NotifyWork(r) \/ BrokenWork(r)
    BY <1>2 DEF PushNext, TokenWork, NotifyWork, BrokenWork
  <2>2. CASE TokenWork(r) \/ NotifyWork(r) \/ BrokenWork(r)
    BY <2>2 DEF Step
  <2>3. CASE ~(TokenWork(r) \/ NotifyWork(r) \/ BrokenWork(r))
    <3>1. Begins(r)
      BY <2>1, <2>3, BeginPushStep
    <3> QED BY <3>1 DEF Step
  <2> QED BY <2>2, <2>3
<1> QED BY <1>1, <1>2 DEF Next

LEMMA StepIInv ==
  ASSUME IInv, ConversationInv, NEW r \in Requests, Step(r)
  PROVE  IInv' /\ Persists
<1>1. CASE Begins(r)
  BY <1>1, BeginsIInv, StepPersists DEF Begins
<1>2. CASE ~Begins(r)
  <2>1. IInv' /\ Works(r)
    BY <1>2, WorksIInv DEF Step
  <2> QED BY <2>1, StepPersists
<1> QED BY <1>1, <1>2

\* No request with an operation in ops makes a step, other than begin or be cut short.
Quiet(ops) ==
  \A s \in Requests :
    op'[s] \in ops /\ pc'[s] # pc[s]
      => \/ pc'[s] = "cut"
         \/ pc[s] = "idle" /\ pc'[s] \in {"select", "upsert", "delete", "token", "muted"}

LEMMA BeginsQuiet ==
  ASSUME NEW r \in Requests, Begins(r), NEW ops, "user" \notin ops, "create-agent" \notin ops
  PROVE  Quiet(ops) /\ UNCHANGED <<tables, result, was, pushTables, toPush, pushed, failed>>
  BY DEF Begins, Starts, Given, Quiet

LEMMA WorksQuiet ==
  ASSUME NEW r \in Requests, Works(r), NEW ops, op[r] \notin ops
  PROVE  Quiet(ops)
  BY DEF Works, Quiet, arguments

LEMMA BrokenQuiet ==
  ASSUME IInv, NEW r \in Requests, BrokenWork(r), NEW ops,
         op[r] \in ops => pc'[r] = "cut"
  PROVE  Quiet(ops)
<1>1. Works(r)
  BY BrokenWorkStep
<1> QED BY <1>1 DEF Works, Quiet, arguments

-----------------------------------------------------------------------------
(* Conversations.                                                           *)

LEMMA ConversationQuiet ==
  ASSUME IInv, ConversationInv, Persists, Quiet({"conversation"}),
         UNCHANGED <<conversations, created, result>>
  PROVE  ConversationInv'
<1> USE DEF IInv
<1>1. ASSUME NEW c \in conversations
      PROVE  /\ c \in Requests /\ pc[c] # "idle"
             /\ user'[c] = user[c] /\ agent'[c] = agent[c] /\ Answered(c, "conversation")'
  BY DEF ConversationInv, TableTypes, Persists, Kept, Answered, At, Ended
<1>2. ASSUME NEW r \in Requests, op'[r] = "conversation", pc'[r] \in {"insert", "answered"}
      PROVE  op[r] = "conversation" /\ pc[r] = pc'[r] /\ user'[r] = user[r] /\ agent'[r] = agent[r]
  <2>1. pc'[r] = pc[r]
    BY <1>2 DEF Quiet
  <2> QED BY <1>2, <2>1 DEF Persists, Kept
<1>3. \A c \in conversations' : Answered(c, "conversation")'
  BY <1>1
<1>4. conversations' # {} =>
        \E c \in conversations' : \A d \in conversations' : created'[d] <= created'[c]
  BY DEF ConversationInv
<1>5. ASSUME NEW u \in Users, NEW a \in Agents PROVE HasNewest(u, a)'
  BY <1>1 DEF ConversationInv, HasNewest
<1>6. ASSUME NEW r \in Requests, Answered(r, "conversation")'
      PROVE  result'[r] \in conversations' /\ Pair(result[r], r)'
  <2>1. Answered(r, "conversation") /\ user'[r] = user[r] /\ agent'[r] = agent[r]
    BY <1>2, <1>6 DEF Answered, At
  <2>2. result[r] \in conversations /\ Pair(result[r], r)
    BY <2>1 DEF ConversationInv
  <2> QED BY <1>1, <2>1, <2>2 DEF Pair
<1>7. ASSUME NEW r \in Requests, NEW c \in conversations,
             At(r, "conversation", "insert")', Pair(c, r)'
      PROVE  <<c, r>> \notin before'
  <2>1. At(r, "conversation", "insert") /\ user'[r] = user[r] /\ agent'[r] = agent[r] /\ pc[r] # "idle"
    BY <1>2, <1>7 DEF At
  <2>2. Pair(c, r)
    BY <1>1, <1>7, <2>1 DEF Pair
  <2>3. <<c, r>> \notin before
    BY <2>1, <2>2 DEF ConversationInv
  <2> QED BY <1>1, <2>1, <2>3 DEF Persists
<1>8. ASSUME NEW c \in conversations, NEW d \in conversations, Pair(c, d)', c # d
      PROVE  Overlap(c, d)'
  <2>1. Overlap(c, d)
    BY <1>1, <1>8 DEF Pair, ConversationInv
  <2> QED BY <1>1, <2>1, OverlapPersists
<1>9. UNCHANGED result
  OBVIOUS
<1> QED BY <1>3, <1>4, <1>5, <1>6, <1>7, <1>8, <1>9 DEF ConversationInv, Pair

\* The SELECT of getOrCreateConversation.
LEMMA SelectConversationStep ==
  ASSUME IInv, ConversationInv, NEW r \in Requests, SelectConversation(r)
  PROVE  ConversationInv'
<1> USE DEF IInv, SelectConversation, At, Goto, tables, arguments
<1>1. UNCHANGED <<conversations, created, op, user, agent, before>>
  OBVIOUS
<1>2. \A s \in Requests : s # r => pc'[s] = pc[s] /\ result'[s] = result[s]
  BY DEF RequestTypes
<1>3. \A c \in conversations : c \in Requests /\ c # r /\ Answered(c, "conversation")'
  <2>1. \A c \in conversations : c \in Requests /\ Answered(c, "conversation")
    BY DEF ConversationInv, TableTypes
  <2> QED BY <1>1, <1>2, <2>1 DEF Answered
<1>4. user[r] \in Users /\ agent[r] \in Agents
  BY DEF ArgumentsInv
<1>5. \/ /\ pc'[r] = "answered"
         /\ result'[r] \in conversations /\ Pair(result'[r], r)
      \/ /\ pc'[r] = "insert"
         /\ \A c \in conversations : ~Pair(c, r)
  <2>1. CASE Newest(r) = {}
    <3>1. SamePair(r) = {}
      BY <1>4, <2>1 DEF Newest, SamePair, ConversationInv, HasNewest
    <3>2. pc'[r] = "insert"
      BY <2>1 DEF RequestTypes
    <3> QED BY <3>1, <3>2 DEF SamePair, Pair
  <2>2. CASE Newest(r) # {}
    <3>1. PICK c \in Newest(r) : result' = [result EXCEPT ![r] = c] /\ pc' = [pc EXCEPT ![r] = "answered"]
      BY <2>2
    <3>2. c \in conversations /\ Pair(c, r)
      BY DEF Newest, SamePair, Pair
    <3>3. result'[r] = c /\ pc'[r] = "answered"
      BY <3>1 DEF RequestTypes
    <3> QED BY <3>2, <3>3
  <2> QED BY <2>1, <2>2
<1>6. ASSUME NEW s \in Requests, Answered(s, "conversation")'
      PROVE  result'[s] \in conversations /\ user[result'[s]] = user[s] /\ agent[result'[s]] = agent[s]
  <2>1. CASE s = r
    BY <1>5, <1>6, <2>1 DEF Answered, Pair
  <2>2. CASE s # r
    BY <1>1, <1>2, <1>6, <2>2 DEF Answered, ConversationInv, Pair
  <2> QED BY <2>1, <2>2
<1>7. ASSUME NEW s \in Requests, NEW c \in conversations, op[s] = "conversation", pc'[s] = "insert",
             Pair(c, s)
      PROVE  <<c, s>> \notin before
  <2>1. CASE s = r
    BY <1>5, <1>7, <2>1
  <2>2. CASE s # r
    BY <1>2, <1>7, <2>2 DEF ConversationInv
  <2> QED BY <2>1, <2>2
<1>8. /\ conversations' # {} =>
           \E c \in conversations' : \A d \in conversations' : created'[d] <= created'[c]
      /\ \A u \in Users, a \in Agents : HasNewest(u, a)'
  BY <1>1 DEF ConversationInv, HasNewest
<1>9. \A c, d \in conversations' : Pair(c, d)' /\ c # d => Overlap(c, d)'
  BY <1>1 DEF ConversationInv, Pair, Overlap
<1> QED BY <1>1, <1>3, <1>6, <1>7, <1>8, <1>9 DEF ConversationInv, Pair, Answered

\* The INSERT: the new conversation is as late as any, and overlaps every other
\* one of its pair.
LEMMA InsertConversationStep ==
  ASSUME IInv, ConversationInv, NEW r \in Requests, InsertConversation(r)
  PROVE  ConversationInv'
<1> USE DEF IInv, InsertConversation, At, Goto, tables, arguments
<1>1. UNCHANGED <<op, user, agent, before>>
  OBVIOUS
<1>2. \A s \in Requests : s # r => pc'[s] = pc[s]
  BY DEF RequestTypes
<1>3. \A c \in conversations : c \in Requests /\ c # r /\ Answered(c, "conversation")'
  <2>1. \A c \in conversations : c \in Requests /\ Answered(c, "conversation")
    BY DEF ConversationInv, TableTypes
  <2> QED BY <1>1, <1>2, <2>1 DEF Answered
<1>4. CASE ~AgentExists(r)
  <2>1. UNCHANGED <<conversations, created, result>> /\ pc'[r] = "refused"
    BY <1>4 DEF RequestTypes
  <2>2. ASSUME NEW s \in Requests, pc'[s] \in {"answered", "insert"} PROVE pc[s] = pc'[s]
    BY <1>2, <2>1, <2>2
  <2>3. \A s \in Requests :
          Answered(s, "conversation")' => result[s] \in conversations /\ Pair(result[s], s)
    BY <1>1, <2>2 DEF Answered, ConversationInv
  <2>4. \A s \in Requests, c \in conversations :
          At(s, "conversation", "insert")' /\ Pair(c, s) => <<c, s>> \notin before
    BY <1>1, <2>2 DEF ConversationInv
  <2>5. /\ conversations' # {} =>
             \E c \in conversations' : \A d \in conversations' : created'[d] <= created'[c]
        /\ \A u \in Users, a \in Agents : HasNewest(u, a)'
    BY <1>1, <2>1 DEF ConversationInv, HasNewest
  <2>6. \A c, d \in conversations' : Pair(c, d)' /\ c # d => Overlap(c, d)'
    BY <1>1, <2>1 DEF ConversationInv, Pair, Overlap
  <2> QED BY <1>1, <1>3, <2>1, <2>3, <2>4, <2>5, <2>6 DEF ConversationInv, Pair
<1>5. CASE AgentExists(r)
  <2>1. /\ conversations' = conversations \cup {r}
        /\ result'[r] = r /\ pc'[r] = "answered"
        /\ \A s \in Requests : s # r => result'[s] = result[s]
    BY <1>5 DEF RequestTypes
  <2>2. PICK m : m = Max({created[d] : d \in conversations} \cup {0})
    OBVIOUS
  <2>3. m \in Nat /\ \A d \in conversations : created[d] <= m
    BY <2>2, LatestIs DEF ConversationInv
  <2>4. PICK second \in {0, 1} : created' = [created EXCEPT ![r] = second + m]
    BY <1>5, <2>2
  <2>5. /\ created'[r] = second + m
        /\ \A s \in Requests : s # r => created'[s] = created[s]
        /\ \A s \in Requests : created[s] \in Nat
    BY <2>4 DEF TableTypes
  <2>6. \A d \in conversations' : created'[d] <= created'[r]
    <3>1. \A d \in conversations : created'[d] = created[d] /\ created[d] <= m /\ created[d] \in Nat
      BY <1>3, <2>3, <2>5
    <3>2. m <= second + m
      BY <2>3
    <3>3. \A d \in conversations : created'[d] <= created'[r]
      BY <2>3, <2>5, <3>1, <3>2
    <3>4. created'[r] <= created'[r]
      BY <2>3, <2>5
    <3> QED BY <2>1, <3>3, <3>4
  <2>7. ASSUME NEW u \in Users, NEW a \in Agents PROVE HasNewest(u, a)'
    <3>1. CASE user[r] = u /\ agent[r] = a
      BY <1>1, <2>1, <2>6, <3>1 DEF HasNewest
    <3>2. CASE ~(user[r] = u /\ agent[r] = a)
      <4>1. {c \in conversations' : user'[c] = u /\ agent'[c] = a}
            = {c \in conversations : user[c] = u /\ agent[c] = a}
        BY <1>1, <2>1, <3>2
      <4>2. \A c \in conversations : created'[c] = created[c]
        BY <1>3, <2>5
      <4>3. HasNewest(u, a)
        BY DEF ConversationInv
      <4> QED BY <4>1, <4>2, <4>3 DEF HasNewest
    <3> QED BY <3>1, <3>2
  <2>8. ASSUME NEW s \in Requests, Answered(s, "conversation")'
        PROVE  result'[s] \in conversations' /\ user[result'[s]] = user[s] /\ agent[result'[s]] = agent[s]
    <3>1. CASE s = r
      BY <2>1, <3>1
    <3>2. CASE s # r
      BY <1>1, <1>2, <2>1, <2>8, <3>2 DEF Answered, ConversationInv, Pair
    <3> QED BY <3>1, <3>2
  <2>9. ~Ended(r)
    BY DEF Ended
  <2>10. \A s \in Requests : <<r, s>> \notin before
    BY <2>9 DEF BeforeInv
  <2>11. ASSUME NEW s \in Requests, NEW c \in conversations', op[s] = "conversation", pc'[s] = "insert",
                Pair(c, s)
         PROVE  <<c, s>> \notin before
    <3>1. s # r
      BY <2>1, <2>11
    <3>2. pc[s] = "insert"
      BY <1>2, <2>11, <3>1
    <3> QED BY <2>1, <2>10, <2>11, <3>2 DEF ConversationInv
  <2>12. ASSUME NEW c \in conversations', NEW d \in conversations', Pair(c, d), c # d
         PROVE  Overlap(c, d)
    <3>1. ASSUME NEW e \in conversations, Pair(e, r) PROVE <<e, r>> \notin before /\ <<r, e>> \notin before
      BY <1>3, <2>10, <3>1 DEF ConversationInv
    <3>2. CASE c = r
      BY <2>1, <2>12, <3>1, <3>2 DEF Overlap, Pair
    <3>3. CASE d = r
      BY <2>1, <2>12, <3>1, <3>3 DEF Overlap, Pair
    <3>4. CASE c # r /\ d # r
      BY <2>1, <2>12, <3>4 DEF ConversationInv
    <3> QED BY <3>2, <3>3, <3>4
  <2>13. \A c \in conversations' : Answered(c, "conversation")'
    BY <1>1, <1>3, <2>1 DEF Answered
  <2>14. r \in conversations'
    BY <2>1
  <2>15. \A c, d \in conversations' : Pair(c, d)' /\ c # d => Overlap(c, d)'
    BY <1>1, <2>12 DEF Pair, Overlap
  <2>16. \A s \in Requests, c \in conversations' :
           At(s, "conversation", "insert")' /\ Pair(c, s)' => <<c, s>> \notin before'
    BY <1>1, <2>11 DEF Pair
  <2>17. \A s \in Requests :
           Answered(s, "conversation")' => result'[s] \in conversations' /\ Pair(result[s], s)'
    BY <1>1, <2>8 DEF Pair
  <2> QED BY <2>6, <2>7, <2>13, <2>14, <2>15, <2>16, <2>17 DEF ConversationInv
<1> QED BY <1>4, <1>5

LEMMA StepConversation ==
  ASSUME IInv, ConversationInv, NEW r \in Requests, Step(r)
  PROVE  ConversationInv'
<1>1. Persists
  BY StepIInv
<1>2. CASE ConversationWork(r)
  BY <1>2, SelectConversationStep, InsertConversationStep DEF ConversationWork
<1>3. CASE ~ConversationWork(r)
  <2>1. Quiet({"conversation"}) /\ UNCHANGED <<conversations, created, result>>
    <3>1. CASE Begins(r)
      BY <3>1, BeginsQuiet DEF tables
    <3>2. CASE BrokenWork(r)
      <4>1. UNCHANGED <<conversations, created, result>> /\ (op[r] = "conversation" => pc'[r] = "cut")
        BY <3>2, BrokenWorkStep DEF LaxOps, tables
      <4> QED BY <3>2, <4>1, BrokenQuiet
    <3>3. CASE ~Begins(r) /\ ~BrokenWork(r)
      <4>1. Works(r) /\ op[r] # "conversation" /\ UNCHANGED <<conversations, created, result>>
        BY <1>3, <3>3, UserWorkStep, AgentWorkStep, TokenWorkStep, NotifyWorkStep
           DEF Step, UserOps, AgentOps, TokenOps, MuteOps, tables
      <4> QED BY <4>1, WorksQuiet
    <3> QED BY <3>1, <3>2, <3>3
  <2> QED BY <1>1, <2>1, ConversationQuiet
<1> QED BY <1>2, <1>3

LEMMA InitIInv ==
  ASSUME Init PROVE IInv /\ ConversationInv
<1> USE DEF Init, AccountInit, Empty
<1>1. TableTypes
  BY DEF TableTypes
<1>2. RequestTypes
  BY DEF RequestTypes, Steps
<1>3. ArgumentsInv
  BY DEF ArgumentsInv
<1>4. BeforeInv
  BY DEF BeforeInv
<1>5. ConversationInv
  BY DEF ConversationInv, HasNewest, Answered, At
<1> QED BY <1>1, <1>2, <1>3, <1>4, <1>5 DEF IInv

LEMMA StutterIInv ==
  ASSUME IInv, ConversationInv, UNCHANGED vars
  PROVE  IInv' /\ ConversationInv'
<1> USE DEF vars, accountVars, tables, arguments, pushVars, pushTables
<1>1. TableTypes' /\ RequestTypes'
  BY DEF IInv, TableTypes, RequestTypes
<1>2. ArgumentsInv' /\ BeforeInv'
  BY DEF IInv, ArgumentsInv, BeforeInv, Ended
<1>3. ConversationInv'
  BY DEF ConversationInv, HasNewest, Answered, At, Pair, Overlap
<1> QED BY <1>1, <1>2, <1>3 DEF IInv

(* Every variable keeps its type, a request that has begun keeps its         *)
(* arguments, `before` only relates a request to those that had ended when   *)
(* it began, and of the conversations of a user and an agent there is a      *)
(* newest one (conversations.go:317-330).                                    *)
THEOREM Invariance == Spec => [](IInv /\ ConversationInv)
<1>1. Init => IInv /\ ConversationInv
  BY InitIInv
<1>2. IInv /\ ConversationInv /\ [Next]_vars => IInv' /\ ConversationInv'
  <2> SUFFICES ASSUME IInv, ConversationInv, [Next]_vars PROVE IInv' /\ ConversationInv'
    OBVIOUS
  <2>1. CASE UNCHANGED vars
    BY <2>1, StutterIInv
  <2>2. CASE Next
    <3>1. PICK r \in Requests : Step(r)
      BY <2>2, NextIsStep
    <3> QED BY <3>1, StepIInv, StepConversation
  <2> QED BY <2>1, <2>2
<1> QED BY <1>1, <1>2, PTL DEF Spec

(* A request is answered with a conversation of its own user and agent, and  *)
(* two requests for the same pair with the same one, unless two requests     *)
(* that created one for the pair overlapped (conversations.go:304-330: a     *)
(* SELECT, then an INSERT).                                                  *)
THEOREM SameConversationHolds == Spec => []SameConversation
<1>1. IInv /\ ConversationInv => SameConversation
  <2> SUFFICES ASSUME IInv, ConversationInv, NEW r \in Requests, NEW s \in Requests
               PROVE  /\ Answered(r, "conversation") => result[r] \in conversations /\ Pair(result[r], r)
                      /\ Answered(r, "conversation") /\ Answered(s, "conversation") /\ Pair(r, s)
                           => \/ result[r] = result[s]
                              \/ \E c, d \in conversations : Overlap(c, d) /\ Pair(c, r) /\ Pair(d, r)
    BY DEF SameConversation
  <2>1. Answered(r, "conversation") => result[r] \in conversations /\ Pair(result[r], r)
    BY DEF ConversationInv
  <2>2. ASSUME Answered(r, "conversation"), Answered(s, "conversation"), Pair(r, s), result[r] # result[s]
        PROVE  \E c, d \in conversations : Overlap(c, d) /\ Pair(c, r) /\ Pair(d, r)
    <3>1. PICK c \in conversations, d \in conversations :
            c = result[r] /\ d = result[s] /\ Pair(c, r) /\ Pair(d, s)
      BY <2>1, <2>2 DEF ConversationInv
    <3>2. Pair(c, d) /\ Pair(d, r)
      BY <2>2, <3>1 DEF Pair
    <3>3. Overlap(c, d)
      BY <2>2, <3>1, <3>2 DEF ConversationInv
    <3> QED BY <3>1, <3>2, <3>3
  <2> QED BY <2>1, <2>2
<1> QED BY <1>1, Invariance, PTL

-----------------------------------------------------------------------------
(* Accounts, and the agents of conversations.                               *)

LEMMA StepAccount ==
  ASSUME IInv, ConversationInv, AccountInv, NEW r \in Requests, Step(r)
  PROVE  AccountInv'
<1> USE DEF IInv
<1>1. ASSUME NEW u \in Users, password[u] # None PROVE password'[u] # None
  <2>1. CASE UserWork(r)
    <3>1. op[r] \in UserOps /\ pc[r] # "idle"
      BY <2>1 DEF UserWork, InsertUser, SelectPassword, UpdatePassword, At, UserOps
    <3>2. newPassword[r] # None /\ user[r] \in Users
      BY <3>1 DEF ArgumentsInv
    <3> QED BY <1>1, <2>1, <3>2 DEF UserWork, InsertUser, SelectPassword, UpdatePassword, TableTypes, tables
  <2>2. CASE ~UserWork(r)
    <3>1. UNCHANGED password
      BY <2>2, BeginsQuiet, AgentWorkStep, ConversationWorkStep, TokenWorkStep, NotifyWorkStep, BrokenWorkStep
         DEF Step, Begins, Starts, tables
    <3> QED BY <1>1, <3>1
  <2> QED BY <2>1, <2>2
<1>2. CASE Begins(r)
  <2>1. ASSUME NEW s \in Requests, s # r PROVE pc'[s] = pc[s] /\ op'[s] = op[s] /\ user'[s] = user[s]
    BY <1>2, <2>1 DEF Begins, Starts, Kept
  <2>2. UNCHANGED password
    BY <1>2 DEF Begins, Starts, tables
  <2>3. op'[r] \in {"password", "conversation"} => password[user'[r]] # None
    BY <1>2 DEF Begins, Given
  <2> QED BY <2>1, <2>2, <2>3 DEF AccountInv
<1>3. CASE ~Begins(r)
  <2>1. Works(r)
    BY <1>3, WorksIInv DEF Step
  <2>2. UNCHANGED <<op, user>> /\ \A s \in Requests : pc'[s] # "idle" => pc[s] # "idle"
    BY <2>1 DEF Works, arguments, InFlight
  <2>3. ASSUME NEW s \in Requests, pc'[s] # "idle", op'[s] \in {"password", "conversation"}
        PROVE  password'[user'[s]] # None
    <3>1. pc[s] # "idle" /\ op[s] \in {"password", "conversation"}
      BY <2>2, <2>3
    <3>2. user[s] \in Users /\ password[user[s]] # None
      BY <3>1 DEF AccountInv, ArgumentsInv, UserOps
    <3> QED BY <1>1, <2>2, <3>2
  <2> QED BY <2>3 DEF AccountInv
<1> QED BY <1>2, <1>3

\* Only a request of am-admin removes an agent.
AgentInv ==
  \A c \in conversations :
    agent[c] \notin agents => \E d \in Requests : Answered(d, "delete-agent") /\ agent[d] = agent[c]

LEMMA StepAgent ==
  ASSUME IInv, ConversationInv, AgentInv, NEW r \in Requests, Step(r)
  PROVE  AgentInv'
<1> USE DEF IInv
<1>1. Persists
  BY StepIInv
<1>2. ASSUME NEW d \in Requests, Answered(d, "delete-agent")
      PROVE  Answered(d, "delete-agent")' /\ agent'[d] = agent[d]
  BY <1>1, <1>2 DEF Persists, Kept, Answered, At, Ended
<1>3. \A c \in conversations : c \in Requests /\ agent'[c] = agent[c]
  BY <1>1 DEF Persists, Kept, ConversationInv, Answered, At, TableTypes
<1>4. CASE ConversationWork(r)
  <2>1. UNCHANGED <<agents, agent>>
    BY <1>4 DEF ConversationWork, SelectConversation, InsertConversation, tables, arguments
  <2>2. \A c \in conversations' : c \in conversations \/ agent[c] \in agents
    BY <1>4 DEF ConversationWork, SelectConversation, InsertConversation, AgentExists, tables
  <2> QED BY <1>2, <2>1, <2>2 DEF AgentInv
<1>5. CASE AgentWork(r)
  <2>1. UNCHANGED <<conversations, agent, op>>
    BY <1>5 DEF AgentWork, UpsertAgent, InsertAgent, SelectAgent, UpdateAgent, DeleteAgent, tables, arguments
  <2>2. CASE DeleteAgent(r)
    <3>1. /\ agents' = agents \ {agent[r]}
          /\ op'[r] = "delete-agent"
          /\ agent[r] \in agents => pc'[r] = "answered"
      BY <2>1, <2>2 DEF DeleteAgent, At, Goto, RequestTypes
    <3>2. ASSUME NEW c \in conversations', agent'[c] \notin agents'
          PROVE  \E d \in Requests : Answered(d, "delete-agent")' /\ agent'[d] = agent'[c]
      <4>1. CASE agent[c] \in agents
        <5>1. agent[c] = agent[r] /\ Answered(r, "delete-agent")'
          BY <2>1, <3>1, <3>2, <4>1 DEF Answered, At
        <5> QED BY <2>1, <5>1
      <4>2. CASE agent[c] \notin agents
        BY <1>2, <2>1, <4>2 DEF AgentInv
      <4> QED BY <4>1, <4>2
    <3> QED BY <3>2 DEF AgentInv
  <2>3. CASE ~DeleteAgent(r)
    <3>1. agents \subseteq agents'
      BY <1>5, <2>3 DEF AgentWork, UpsertAgent, InsertAgent, SelectAgent, UpdateAgent, WriteRow, tables
    <3> QED BY <1>2, <2>1, <3>1 DEF AgentInv
  <2> QED BY <2>2, <2>3
<1>6. CASE ~ConversationWork(r) /\ ~AgentWork(r)
  <2>1. UNCHANGED <<agents, conversations>>
    <3>1. CASE Begins(r)
      BY <3>1 DEF Begins, Starts, tables
    <3>2. CASE ~Begins(r)
      BY <1>6, <3>2, UserWorkStep, TokenWorkStep, NotifyWorkStep, BrokenWorkStep DEF Step, tables
    <3> QED BY <3>1, <3>2
  <2> QED BY <1>2, <1>3, <2>1 DEF AgentInv
<1> QED BY <1>4, <1>5, <1>6

(* A conversation is with a user who has an account, and its agent is in the *)
(* table unless am-admin deleted it (cmd/am-admin/main.go), however the      *)
(* SELECT and the INSERT (conversations.go:304-330) interleave with others.  *)
THEOREM ConversationHasAgentHolds == Spec => []ConversationHasAgent
<1>1. Init => AccountInv /\ AgentInv
  BY DEF Init, AccountInit, AccountInv, AgentInv
<1>2. IInv /\ ConversationInv /\ AccountInv /\ AgentInv /\ [Next]_vars => (AccountInv /\ AgentInv)'
  <2> SUFFICES ASSUME IInv, ConversationInv, AccountInv, AgentInv, [Next]_vars
               PROVE  AccountInv' /\ AgentInv'
    OBVIOUS
  <2>1. CASE UNCHANGED vars
    BY <2>1 DEF vars, accountVars, tables, arguments, AccountInv, AgentInv, Answered, At
  <2>2. CASE Next
    <3>1. PICK r \in Requests : Step(r)
      BY <2>2, NextIsStep
    <3> QED BY <3>1, StepAccount, StepAgent
  <2> QED BY <2>1, <2>2
<1>3. ConversationInv /\ IInv /\ AccountInv /\ AgentInv => ConversationHasAgent
  <2> SUFFICES ASSUME ConversationInv, IInv, AccountInv, AgentInv, NEW c \in conversations
               PROVE  /\ password[user[c]] # None
                      /\ agent[c] \notin agents =>
                           \E d \in Requests : Answered(d, "delete-agent") /\ agent[d] = agent[c]
    BY DEF ConversationHasAgent
  <2>1. c \in Requests /\ Answered(c, "conversation")
    BY DEF ConversationInv, IInv, TableTypes
  <2>2. password[user[c]] # None
    BY <2>1 DEF AccountInv, Answered, At
  <2> QED BY <2>2 DEF AgentInv
<1> QED BY <1>1, <1>2, <1>3, Invariance, PTL DEF Spec

-----------------------------------------------------------------------------
(* Passwords.                                                               *)

LEMMA ChangedPersists ==
  ASSUME Persists, NEW r \in Requests, pc[r] # "idle", ChangedMeanwhile(r)
  PROVE  ChangedMeanwhile(r)'
<1>1. PICK s \in Requests : Answered(s, "password") /\ user[s] = user[r] /\ Overlap(r, s)
  BY DEF ChangedMeanwhile
<1>2. pc[s] # "idle" /\ Answered(s, "password")' /\ user'[s] = user[s] /\ user'[r] = user[r]
  BY <1>1 DEF Persists, Kept, Answered, At, Ended
<1>3. Overlap(r, s)'
  BY <1>1, <1>2, OverlapPersists
<1> QED BY <1>1, <1>2, <1>3 DEF ChangedMeanwhile

LEMMA PasswordQuiet ==
  ASSUME Persists, PasswordInv, ChangeKnowsPassword, Quiet({"password"}), UNCHANGED <<password, was>>
  PROVE  PasswordInv' /\ ChangeKnowsPassword'
<1>1. ASSUME NEW r \in Requests, op'[r] = "password", pc'[r] \in {"update", "answered"}
      PROVE  /\ pc[r] = pc'[r] /\ op[r] = "password" /\ pc[r] # "idle"
             /\ user'[r] = user[r] /\ oldPassword'[r] = oldPassword[r]
  <2>1. pc'[r] = pc[r]
    BY <1>1 DEF Quiet
  <2> QED BY <1>1, <2>1 DEF Persists, Kept
<1>2. ASSUME NEW r \in Requests, At(r, "password", "update")', password'[user'[r]] # oldPassword'[r]
      PROVE  ChangedMeanwhile(r)'
  <2>1. pc[r] # "idle" /\ ChangedMeanwhile(r)
    BY <1>1, <1>2 DEF At, PasswordInv
  <2> QED BY <2>1, ChangedPersists
<1>3. ASSUME NEW r \in Requests, Answered(r, "password")', was'[r] # oldPassword'[r]
      PROVE  ChangedMeanwhile(r)'
  <2>1. pc[r] # "idle" /\ ChangedMeanwhile(r)
    BY <1>1, <1>3 DEF At, Answered, ChangeKnowsPassword, ChangedMeanwhile
  <2> QED BY <2>1, ChangedPersists
<1>4. PasswordInv'
  BY <1>2 DEF PasswordInv
<1>5. ChangeKnowsPassword'
  BY <1>3 DEF ChangeKnowsPassword, ChangedMeanwhile
<1> QED BY <1>4, <1>5

LEMMA UserWorkPassword ==
  ASSUME IInv, AccountInv, PasswordInv, ChangeKnowsPassword, NEW r \in Requests,
         UserWork(r), Works(r)
  PROVE  PasswordInv' /\ ChangeKnowsPassword'
<1> USE DEF IInv
<1>1. Persists
  BY StepPersists
<1>2. UNCHANGED <<op, user, oldPassword, before>> /\ \A s \in Requests : s # r => pc'[s] = pc[s]
  BY DEF Works, arguments
<1>3. \A q \in Requests : pc[q] # "idle" /\ ChangedMeanwhile(q) => ChangedMeanwhile(q)'
  BY <1>1, ChangedPersists
<1>4. CASE InsertUser(r)
  <2> USE <1>4 DEF InsertUser, At, Goto
  <2>1. pc'[r] # "update" /\ op[r] = "user" /\ was' = was
    BY DEF RequestTypes
  <2>2. user[r] \in Users
    BY DEF ArgumentsInv, UserOps
  <2>3. \A u \in Users : password[u] # None => password'[u] = password[u]
    BY <2>2 DEF TableTypes
  <2>4. ASSUME NEW q \in Requests, At(q, "password", "update")', password'[user'[q]] # oldPassword'[q]
        PROVE  ChangedMeanwhile(q)'
    <3>1. q # r /\ At(q, "password", "update")
      BY <1>2, <2>1, <2>4
    <3>2. user[q] \in Users /\ password[user[q]] # None
      BY <3>1 DEF AccountInv, ArgumentsInv, UserOps
    <3>3. ChangedMeanwhile(q)
      BY <1>2, <2>3, <2>4, <3>1, <3>2 DEF PasswordInv
    <3> QED BY <1>3, <3>1, <3>3
  <2>5. ASSUME NEW q \in Requests, Answered(q, "password")', was'[q] # oldPassword'[q]
        PROVE  ChangedMeanwhile(q)'
    <3>1. q # r /\ Answered(q, "password")
      BY <1>2, <2>1, <2>5 DEF Answered
    <3>2. ChangedMeanwhile(q)
      BY <1>2, <2>1, <2>5, <3>1 DEF ChangeKnowsPassword, ChangedMeanwhile
    <3> QED BY <1>3, <3>1, <3>2 DEF Answered
  <2>6. PasswordInv'
    BY <2>4 DEF PasswordInv
  <2>7. ChangeKnowsPassword'
    BY <2>5 DEF ChangeKnowsPassword, ChangedMeanwhile
  <2> QED BY <2>6, <2>7
<1>5. CASE SelectPassword(r)
  <2> USE <1>5 DEF SelectPassword, At, Goto, tables
  <2>1. UNCHANGED <<password, was>> /\ pc'[r] # "answered"
        /\ (pc'[r] = "update" => password[user[r]] = oldPassword[r])
    BY DEF Verified, RequestTypes
  <2>2. ASSUME NEW q \in Requests, At(q, "password", "update")', password'[user'[q]] # oldPassword'[q]
        PROVE  ChangedMeanwhile(q)'
    <3>1. q # r /\ At(q, "password", "update")
      BY <1>2, <2>1, <2>2
    <3>2. ChangedMeanwhile(q)
      BY <1>2, <2>1, <2>2, <3>1 DEF PasswordInv
    <3> QED BY <1>3, <3>1, <3>2
  <2>3. ASSUME NEW q \in Requests, Answered(q, "password")', was'[q] # oldPassword'[q]
        PROVE  ChangedMeanwhile(q)'
    <3>1. q # r /\ Answered(q, "password")
      BY <1>2, <2>1, <2>3 DEF Answered
    <3>2. ChangedMeanwhile(q)
      BY <1>2, <2>1, <2>3, <3>1 DEF ChangeKnowsPassword, ChangedMeanwhile
    <3> QED BY <1>3, <3>1, <3>2 DEF Answered
  <2>4. PasswordInv'
    BY <2>2 DEF PasswordInv
  <2>5. ChangeKnowsPassword'
    BY <2>3 DEF ChangeKnowsPassword, ChangedMeanwhile
  <2> QED BY <2>4, <2>5
<1>6. CASE UpdatePassword(r)
  <2> USE <1>6 DEF UpdatePassword, At, Goto
  <2>1. /\ pc'[r] = "answered" /\ op[r] = "password"
        /\ was'[r] = password[user[r]]
        /\ \A q \in Requests : q # r => was'[q] = was[q]
    BY DEF RequestTypes
  <2>2. \A u \in Users : u # user[r] => password'[u] = password[u]
    BY DEF TableTypes
  <2>3. ASSUME NEW q \in Requests, At(q, "password", "update")', password'[user'[q]] # oldPassword'[q]
        PROVE  ChangedMeanwhile(q)'
    <3>1. q # r /\ At(q, "password", "update")
      BY <1>2, <2>1, <2>3
    <3>2. user[q] \in Users
      BY <3>1 DEF ArgumentsInv, UserOps
    <3>3. CASE user[q] = user[r]
      <4>1. <<q, r>> \notin before /\ <<r, q>> \notin before
        BY <3>1 DEF BeforeInv, Ended
      <4>2. Answered(r, "password")' /\ user'[r] = user'[q] /\ Overlap(q, r)'
        BY <1>2, <2>1, <3>1, <3>3, <4>1 DEF Answered, Overlap
      <4> QED BY <4>2 DEF ChangedMeanwhile
    <3>4. CASE user[q] # user[r]
      <4>1. ChangedMeanwhile(q)
        BY <1>2, <2>2, <2>3, <3>1, <3>2, <3>4 DEF PasswordInv
      <4> QED BY <1>3, <3>1, <4>1
    <3> QED BY <3>3, <3>4
  <2>4. ASSUME NEW q \in Requests, Answered(q, "password")', was'[q] # oldPassword'[q]
        PROVE  ChangedMeanwhile(q)'
    <3>1. CASE q = r
      <4>1. ChangedMeanwhile(q)
        BY <1>2, <2>1, <2>4, <3>1 DEF PasswordInv
      <4> QED BY <1>3, <3>1, <4>1
    <3>2. CASE q # r
      <4>1. Answered(q, "password")
        BY <1>2, <2>4, <3>2 DEF Answered
      <4>2. ChangedMeanwhile(q)
        BY <1>2, <2>1, <2>4, <3>2, <4>1 DEF ChangeKnowsPassword, ChangedMeanwhile
      <4> QED BY <1>3, <4>1, <4>2 DEF Answered
    <3> QED BY <3>1, <3>2
  <2>5. PasswordInv'
    BY <2>3 DEF PasswordInv
  <2>6. ChangeKnowsPassword'
    BY <2>4 DEF ChangeKnowsPassword, ChangedMeanwhile
  <2> QED BY <2>5, <2>6
<1> QED BY <1>4, <1>5, <1>6 DEF UserWork

LEMMA StepPassword ==
  ASSUME IInv, ConversationInv, AccountInv, PasswordInv, ChangeKnowsPassword,
         NEW r \in Requests, Step(r)
  PROVE  PasswordInv' /\ ChangeKnowsPassword'
<1>1. CASE UserWork(r) /\ UNCHANGED pushVars
  BY <1>1, UserWorkStep, UserWorkPassword
<1>2. CASE ~(UserWork(r) /\ UNCHANGED pushVars)
  <2>1. Quiet({"password"}) /\ UNCHANGED <<password, was>>
    <3>1. CASE Begins(r)
      BY <3>1, BeginsQuiet DEF tables
    <3>2. CASE BrokenWork(r)
      <4>1. UNCHANGED <<password, was>> /\ (op[r] = "password" => pc'[r] = "cut")
        BY <3>2, BrokenWorkStep DEF LaxOps, tables
      <4> QED BY <3>2, <4>1, BrokenQuiet
    <3>3. CASE ~Begins(r) /\ ~BrokenWork(r)
      <4>1. Works(r) /\ op[r] # "password" /\ UNCHANGED <<password, was>>
        BY <1>2, <3>3, ConversationWorkStep, AgentWorkStep, TokenWorkStep, NotifyWorkStep
           DEF Step, AgentOps, TokenOps, MuteOps, tables
      <4> QED BY <4>1, WorksQuiet
    <3> QED BY <3>1, <3>2, <3>3
  <2>2. Persists
    BY StepIInv
  <2> QED BY <2>1, <2>2, PasswordQuiet
<1> QED BY <1>1, <1>2

(* The password an UPDATE replaces is the one the request was asked with,    *)
(* although it was compared before the UPDATE (conversations.go:239), unless *)
(* another change of that password overlapped.                               *)
THEOREM ChangeKnowsPasswordHolds == Spec => []ChangeKnowsPassword
<1>1. Init => AccountInv /\ PasswordInv /\ ChangeKnowsPassword
  BY DEF Init, AccountInit, AccountInv, PasswordInv, ChangeKnowsPassword, Answered, At
<1>2. IInv /\ ConversationInv /\ AccountInv /\ PasswordInv /\ ChangeKnowsPassword /\ [Next]_vars
      => (AccountInv /\ PasswordInv /\ ChangeKnowsPassword)'
  <2> SUFFICES ASSUME IInv, ConversationInv, AccountInv, PasswordInv, ChangeKnowsPassword, [Next]_vars
               PROVE  AccountInv' /\ PasswordInv' /\ ChangeKnowsPassword'
    OBVIOUS
  <2>1. CASE UNCHANGED vars
    BY <2>1 DEF vars, accountVars, tables, arguments, AccountInv, PasswordInv, ChangeKnowsPassword,
                ChangedMeanwhile, Answered, At, Overlap
  <2>2. CASE Next
    <3>1. PICK r \in Requests : Step(r)
      BY <2>2, NextIsStep
    <3> QED BY <3>1, StepAccount, StepPassword
  <2> QED BY <2>1, <2>2
<1> QED BY <1>1, <1>2, Invariance, PTL DEF Spec

-----------------------------------------------------------------------------
(* Agents that connect.                                                     *)

LEMMA InsertedPersists ==
  ASSUME Persists, NEW r \in Requests, pc[r] # "idle", InsertedMeanwhile(r)
  PROVE  InsertedMeanwhile(r)'
<1>1. PICK w \in Requests :
        WritesAgent(w, agent[r]) /\ op[w] # "delete-agent" /\ pc[w] = "answered" /\ Overlap(r, w)
  BY DEF InsertedMeanwhile
<1>2. pc[w] # "idle" /\ Ended(w)
  BY <1>1 DEF Ended
<1>3. Overlap(r, w)'
  BY <1>1, <1>2, OverlapPersists
<1>4. pc'[w] = pc[w] /\ op'[w] = op[w] /\ agent'[w] = agent[w] /\ agent'[r] = agent[r]
  BY <1>1, <1>2 DEF Persists, Kept
<1>5. WritesAgent(w, agent[r])' /\ pc'[w] = "answered" /\ op'[w] # "delete-agent"
  BY <1>1, <1>4 DEF WritesAgent
<1> QED BY <1>3, <1>5 DEF InsertedMeanwhile

LEMMA WrittenPersists ==
  ASSUME IInv, Persists, NEW r \in Requests, pc[r] # "idle", op[r] = "connect", WrittenMeanwhile(r)
  PROVE  WrittenMeanwhile(r)'
<1>1. PICK w \in Requests \ {r} : WritesAgent(w, agent[r]) /\ <<w, r>> \notin before
  BY DEF WrittenMeanwhile
<1>2. agent[r] \in Agents
  BY DEF IInv, ArgumentsInv, AgentOps
<1>3. pc[w] # "idle"
  BY <1>1, <1>2 DEF WritesAgent, IInv, ArgumentsInv
<1>4. op'[w] = op[w] /\ agent'[w] = agent[w] /\ agent'[r] = agent[r] /\ <<w, r>> \notin before'
  BY <1>1, <1>3 DEF Persists, Kept
<1>5. WritesAgent(w, agent[r])'
  BY <1>1, <1>4 DEF WritesAgent
<1> QED BY <1>4, <1>5 DEF WrittenMeanwhile

LEMMA StoredPersists ==
  ASSUME Persists, NEW r \in Requests, pc[r] # "idle", NEW i \in 1..5, Stored(r, i),
         agent[r] \in agents', field'[agent[r]] = field[agent[r]]
  PROVE  Stored(r, i)'
<1>1. agent'[r] = agent[r] /\ offer'[r] = offer[r]
  BY DEF Persists, Kept
<1> QED BY <1>1 DEF Stored

LEMMA ConnectQuiet ==
  ASSUME IInv, Persists, ConnectInv, Quiet({"connect"}), UNCHANGED <<agents, field>>
  PROVE  ConnectInv'
<1>1. ASSUME NEW r \in Requests, op'[r] = "connect",
             pc'[r] \in {"insert", "refused", "answered"} \cup Fields
      PROVE  pc[r] = pc'[r] /\ op[r] = "connect" /\ agent'[r] = agent[r] /\ pc[r] # "idle"
  <2>1. pc'[r] = pc[r]
    BY <1>1 DEF Quiet, Fields
  <2>2. pc[r] # "idle"
    BY <1>1, <2>1 DEF Fields
  <2> QED BY <1>1, <2>1, <2>2 DEF Persists, Kept
<1>2. ASSUME NEW r \in Requests, At(r, "connect", "insert")'
      PROVE  agent'[r] \notin agents' \/ InsertedMeanwhile(r)'
  <2>1. pc[r] = "insert" /\ op[r] = "connect" /\ agent'[r] = agent[r]
    BY <1>1, <1>2 DEF At
  <2> QED BY <2>1, InsertedPersists DEF ConnectInv, At
<1>3. ASSUME NEW r \in Requests, At(r, "connect", "refused")'
      PROVE  InsertedMeanwhile(r)'
  <2>1. pc[r] = "refused" /\ op[r] = "connect"
    BY <1>1, <1>3 DEF At
  <2> QED BY <2>1, InsertedPersists DEF ConnectInv, At
<1>4. ASSUME NEW r \in Requests, NEW i \in 1..5, op[r] = "connect", pc[r] # "idle",
             Stored(r, i) \/ WrittenMeanwhile(r)
      PROVE  Stored(r, i)' \/ WrittenMeanwhile(r)'
  <2>1. CASE WrittenMeanwhile(r)
    BY <1>4, <2>1, WrittenPersists
  <2>2. CASE Stored(r, i)
    <3>1. agent[r] \in agents
      BY <2>2 DEF Stored
    <3> QED BY <1>4, <2>2, <3>1, StoredPersists
  <2> QED BY <1>4, <2>1, <2>2
<1>5. ASSUME NEW r \in Requests, NEW i \in 1..4, At(r, "connect", UpdateOrder[i])'
      PROVE  Stored(r, i)' \/ WrittenMeanwhile(r)'
  <2>1. pc[r] = UpdateOrder[i] /\ op[r] = "connect" /\ pc[r] # "idle"
    BY <1>1, <1>5, UpdateOrderIs DEF At
  <2> QED BY <1>4, <2>1 DEF ConnectInv, At
<1>6. ASSUME NEW r \in Requests, Answered(r, "connect")'
      PROVE  Stored(r, 5)' \/ WrittenMeanwhile(r)'
  <2>1. pc[r] = "answered" /\ op[r] = "connect" /\ pc[r] # "idle"
    BY <1>1, <1>6 DEF At, Answered
  <2> QED BY <1>4, <2>1 DEF ConnectInv, At, Answered
<1> QED BY <1>2, <1>3, <1>5, <1>6 DEF ConnectInv

\* A statement of s about an agent touches the row of its own agent only.
LEMMA AgentWorkTouches ==
  ASSUME IInv, NEW s \in Requests, AgentWork(s), NEW a \in Agents, a # agent[s]
  PROVE  (a \in agents' <=> a \in agents) /\ field'[a] = field[a]
<1> USE DEF IInv, TableTypes
<1>1. CASE UpsertAgent(s)
  BY <1>1 DEF UpsertAgent, WriteRow
<1>2. CASE InsertAgent(s)
  BY <1>2 DEF InsertAgent, WriteRow
<1>3. CASE SelectAgent(s)
  BY <1>3 DEF SelectAgent, tables
<1>4. CASE UpdateAgent(s)
  BY <1>4 DEF UpdateAgent, Updated
<1>5. CASE DeleteAgent(s)
  BY <1>5 DEF DeleteAgent
<1> QED BY <1>1, <1>2, <1>3, <1>4, <1>5 DEF AgentWork

\* The other requests, when s makes a statement.
LEMMA ConnectOthers ==
  ASSUME IInv, ConnectInv, NEW s \in Requests, AgentWork(s), Works(s), op[s] \in AgentOps,
         NEW r \in Requests, r # s
  PROVE  /\ At(r, "connect", "insert")' => agent'[r] \notin agents' \/ InsertedMeanwhile(r)'
         /\ At(r, "connect", "refused")' => InsertedMeanwhile(r)'
         /\ \A i \in 1..4 : At(r, "connect", UpdateOrder[i])' => Stored(r, i)' \/ WrittenMeanwhile(r)'
         /\ Answered(r, "connect")' => Stored(r, 5)' \/ WrittenMeanwhile(r)'
<1> USE DEF IInv
<1>1. Persists
  BY StepPersists
<1>2. pc'[r] = pc[r] /\ UNCHANGED <<op, agent, offer, before>> /\ pc[s] # "idle" /\ ~Ended(s)
  BY DEF Works, arguments, InFlight
<1>3. op[r] = "connect" /\ pc[r] # "idle" => agent[r] \in Agents
  BY DEF ArgumentsInv, AgentOps
<1>4. <<s, r>> \notin before
  BY <1>2 DEF BeforeInv
<1>5. agent[s] = agent[r] => WrittenMeanwhile(r)'
  <2> SUFFICES ASSUME agent[s] = agent[r] PROVE WrittenMeanwhile(r)'
    OBVIOUS
  <2>1. WritesAgent(s, agent[r])' /\ s \in Requests \ {r} /\ <<s, r>> \notin before'
    BY <1>2, <1>4 DEF WritesAgent, AgentOps
  <2> QED BY <2>1 DEF WrittenMeanwhile
<1>6. ASSUME At(r, "connect", "insert"), agent[r] \in agents', ~InsertedMeanwhile(r)
      PROVE  InsertedMeanwhile(r)'
  <2>1. agent[r] \notin agents /\ agent[r] \in Agents
    BY <1>3, <1>6 DEF ConnectInv, At
  <2>2. agent[s] = agent[r]
    BY <1>6, <2>1, AgentWorkTouches
  <2>3. op[s] # "delete-agent" /\ pc'[s] = "answered"
    <3>1. UpsertAgent(s) \/ InsertAgent(s)
      BY <1>6, <2>1 DEF AgentWork, SelectAgent, UpdateAgent, DeleteAgent, tables
    <3>2. agent[s] \notin agents
      BY <2>1, <2>2
    <3> QED BY <3>1, <3>2 DEF UpsertAgent, InsertAgent, At, Goto, RequestTypes
  <2>4. <<r, s>> \notin before
    BY <1>6 DEF BeforeInv, Ended, At
  <2>5. Overlap(r, s)' /\ WritesAgent(s, agent[r])'
    BY <1>2, <1>4, <2>2, <2>4 DEF Overlap, WritesAgent, AgentOps
  <2> QED BY <1>2, <2>3, <2>5 DEF InsertedMeanwhile
<1>7. At(r, "connect", "insert")' => agent'[r] \notin agents' \/ InsertedMeanwhile(r)'
  <2> SUFFICES ASSUME At(r, "connect", "insert")', agent'[r] \in agents' PROVE InsertedMeanwhile(r)'
    OBVIOUS
  <2>1. At(r, "connect", "insert") /\ pc[r] # "idle"
    BY <1>2 DEF At
  <2>2. InsertedMeanwhile(r) => InsertedMeanwhile(r)'
    BY <1>1, <2>1, InsertedPersists
  <2> QED BY <1>2, <1>6, <2>1, <2>2
<1>8. At(r, "connect", "refused")' => InsertedMeanwhile(r)'
  <2> SUFFICES ASSUME At(r, "connect", "refused")' PROVE InsertedMeanwhile(r)'
    OBVIOUS
  <2>1. At(r, "connect", "refused") /\ pc[r] # "idle"
    BY <1>2 DEF At
  <2> QED BY <1>1, <2>1, InsertedPersists DEF ConnectInv
<1>9. ASSUME NEW i \in 1..5, op[r] = "connect", pc[r] # "idle", Stored(r, i) \/ WrittenMeanwhile(r)
      PROVE  Stored(r, i)' \/ WrittenMeanwhile(r)'
  <2>1. CASE WrittenMeanwhile(r)
    BY <1>1, <1>9, <2>1, WrittenPersists
  <2>2. CASE Stored(r, i) /\ agent[r] # agent[s]
    <3>1. agent[r] \in agents /\ agent[r] \in Agents
      BY <1>3, <1>9, <2>2 DEF Stored
    <3>2. agent[r] \in agents' /\ field'[agent[r]] = field[agent[r]]
      BY <2>2, <3>1, AgentWorkTouches
    <3> QED BY <1>1, <1>9, <2>2, <3>2, StoredPersists
  <2> QED BY <1>5, <1>9, <2>1, <2>2
<1>10. ASSUME NEW i \in 1..4, At(r, "connect", UpdateOrder[i])'
       PROVE  Stored(r, i)' \/ WrittenMeanwhile(r)'
  <2>1. At(r, "connect", UpdateOrder[i])
    BY <1>2, <1>10 DEF At
  <2>2. op[r] = "connect" /\ pc[r] # "idle"
    BY <2>1, UpdateOrderIs DEF At, Fields
  <2> QED BY <1>9, <2>1, <2>2 DEF ConnectInv
<1>11. ASSUME Answered(r, "connect")'
       PROVE  Stored(r, 5)' \/ WrittenMeanwhile(r)'
  <2>1. Answered(r, "connect")
    BY <1>2, <1>11 DEF At, Answered
  <2> QED BY <1>9, <2>1 DEF ConnectInv, At, Answered
<1> QED BY <1>7, <1>8, <1>10, <1>11

\* After the UPDATE of field i-1 the next ones are still to come.
LEMMA NextStored ==
  ASSUME NEW r \in Requests, NEW i \in 1..5, Stored(r, i)', offer' = offer,
         pc'[r] = NextUpdate(r, i)
  PROVE  /\ \A k \in 1..4 : pc'[r] = UpdateOrder[k] => Stored(r, k)'
         /\ pc'[r] = "answered" => Stored(r, 5)'
<1>1. CASE pc'[r] = "answered" /\ \A j \in i..4 : UpdateOrder[j] \notin offer[r]
  <2>1. \A k \in 1..4 : pc'[r] # UpdateOrder[k]
    BY <1>1, UpdateOrderIs DEF Fields
  <2>2. \A j \in 1..4 : j < i \/ j \in i..4
    OBVIOUS
  <2>3. Stored(r, 5)'
    BY <1>1, <2>2 DEF Stored
  <2> QED BY <2>1, <2>3
<1>2. CASE \E k \in i..4 : /\ pc'[r] = UpdateOrder[k]
                           /\ \A j \in i..4 : j < k => UpdateOrder[j] \notin offer[r]
  <2>1. PICK k \in i..4 : /\ pc'[r] = UpdateOrder[k]
                          /\ \A j \in i..4 : j < k => UpdateOrder[j] \notin offer[r]
    BY <1>2
  <2>2. pc'[r] # "answered" /\ \A j \in 1..4 : pc'[r] = UpdateOrder[j] => j = k
    BY <2>1, UpdateOrderIs DEF Fields
  <2>3. \A j \in 1..4 : j < i \/ j \in i..4
    OBVIOUS
  <2>4. Stored(r, k)'
    BY <2>1, <2>3 DEF Stored
  <2> QED BY <2>2, <2>4
<1> QED BY <1>1, <1>2, NextUpdateIs

\* The request s itself.
LEMMA ConnectOwn ==
  ASSUME IInv, ConnectInv, NEW r \in Requests, AgentWork(r), Works(r), op[r] = "connect"
  PROVE  /\ At(r, "connect", "insert")' => agent'[r] \notin agents' \/ InsertedMeanwhile(r)'
         /\ At(r, "connect", "refused")' => InsertedMeanwhile(r)'
         /\ \A i \in 1..4 : At(r, "connect", UpdateOrder[i])' => Stored(r, i)' \/ WrittenMeanwhile(r)'
         /\ Answered(r, "connect")' => Stored(r, 5)' \/ WrittenMeanwhile(r)'
<1> USE DEF IInv
<1>1. Persists
  BY StepPersists
<1>2. UNCHANGED <<op, agent, offer, before>> /\ pc[r] # "idle"
  BY DEF Works, arguments, InFlight
<1>3. agent[r] \in Agents /\ offer[r] \subseteq Fields
  BY <1>2 DEF ArgumentsInv, RequestTypes, AgentOps
<1>4. CASE SelectAgent(r)
  <2>1. UNCHANGED <<agents, field>>
    BY <1>4 DEF SelectAgent, tables
  <2>2. CASE ~Found(r)
    <3>1. pc'[r] = "insert" /\ agent'[r] \notin agents'
      BY <1>2, <1>4, <2>1, <2>2 DEF SelectAgent, Goto, Found, RequestTypes
    <3>2. \A i \in 1..4 : UpdateOrder[i] # "insert"
      BY UpdateOrderIs DEF Fields
    <3> QED BY <3>1, <3>2 DEF At, Answered
  <2>3. CASE Found(r)
    <3>1. pc'[r] = NextUpdate(r, 1)
      BY <1>4, <2>3 DEF SelectAgent, Goto, RequestTypes
    <3>2. Stored(r, 1)'
      BY <1>2, <2>1, <2>3 DEF Stored, Found
    <3>3. /\ \A k \in 1..4 : pc'[r] = UpdateOrder[k] => Stored(r, k)'
          /\ pc'[r] = "answered" => Stored(r, 5)'
      BY <1>2, <3>1, <3>2, NextStored
    <3>4. pc'[r] \in Fields \cup {"answered"}
      BY <3>1, NextUpdateType
    <3> QED BY <3>3, <3>4 DEF At, Answered, Fields
  <2> QED BY <2>2, <2>3
<1>5. CASE InsertAgent(r)
  <2>1. pc[r] = "insert"
    BY <1>5 DEF InsertAgent
  <2>2. CASE agent[r] \notin agents
    <3>1. pc'[r] = "answered" /\ WriteRow(r)
      BY <1>5, <2>2 DEF InsertAgent, Goto, RequestTypes
    <3>2. agent[r] \in agents' /\ \A f \in offer[r] : field'[agent[r]][f] = r
      BY <1>3, <3>1 DEF WriteRow, TableTypes
    <3>3. Stored(r, 5)'
      BY <1>2, <3>2 DEF Stored
    <3>4. \A i \in 1..4 : UpdateOrder[i] # "answered"
      BY UpdateOrderIs DEF Fields
    <3> QED BY <3>1, <3>3, <3>4 DEF At, Answered
  <2>3. CASE agent[r] \in agents
    <3>1. pc'[r] = "refused"
      BY <1>5, <2>3 DEF InsertAgent, Goto, RequestTypes
    <3>2. InsertedMeanwhile(r)
      BY <2>1, <2>3 DEF ConnectInv, At
    <3>3. InsertedMeanwhile(r)'
      BY <1>1, <1>2, <3>2, InsertedPersists
    <3>4. \A i \in 1..4 : UpdateOrder[i] # "refused"
      BY UpdateOrderIs DEF Fields
    <3> QED BY <3>1, <3>3, <3>4 DEF At, Answered
  <2> QED BY <2>2, <2>3
<1>6. CASE UpdateAgent(r)
  <2>1. PICK i \in 1..4 : /\ pc[r] = UpdateOrder[i] /\ field' = Updated(r, i) /\ agents' = agents
                          /\ pc' = [pc EXCEPT ![r] = NextUpdate(r, i + 1)]
    BY <1>6 DEF UpdateAgent, At, Goto
  <2>2. pc'[r] = NextUpdate(r, i + 1)
    BY <2>1 DEF RequestTypes
  <2>3. pc'[r] \in Fields \cup {"answered"}
    BY <2>2, NextUpdateType
  <2>4. CASE WrittenMeanwhile(r)
    <3>1. WrittenMeanwhile(r)'
      BY <1>1, <1>2, <2>4, WrittenPersists
    <3> QED BY <2>3, <3>1 DEF At, Fields
  <2>5. CASE Stored(r, i)
    <3>1. agent[r] \in agents /\ UpdateOrder[i] \in Fields
      BY <2>5, UpdateOrderIs DEF Stored
    <3>2. field' = [field EXCEPT ![agent[r]][UpdateOrder[i]] = r]
      BY <2>1, <3>1 DEF Updated
    <3>3. /\ field'[agent[r]][UpdateOrder[i]] = r
          /\ \A f \in Fields : f # UpdateOrder[i] => field'[agent[r]][f] = field[agent[r]][f]
      BY <1>3, <3>1, <3>2 DEF TableTypes
    <3>4. ASSUME NEW j \in 1..4, j < i + 1, UpdateOrder[j] \in offer[r]
          PROVE  field'[agent[r]][UpdateOrder[j]] = r
      <4>1. CASE j = i
        BY <3>3, <4>1
      <4>2. CASE j # i
        <5>1. UpdateOrder[j] \in Fields /\ UpdateOrder[j] # UpdateOrder[i] /\ j < i
          BY <3>4, <4>2, UpdateOrderIs
        <5> QED BY <2>5, <3>3, <3>4, <5>1 DEF Stored
      <4> QED BY <4>1, <4>2
    <3>5. Stored(r, i + 1)'
      BY <1>2, <2>1, <3>1, <3>4 DEF Stored
    <3>6. /\ \A k \in 1..4 : pc'[r] = UpdateOrder[k] => Stored(r, k)'
          /\ pc'[r] = "answered" => Stored(r, 5)'
      BY <1>2, <2>2, <3>5, NextStored
    <3> QED BY <2>3, <3>6 DEF At, Answered, Fields
  <2> QED BY <2>1, <2>4, <2>5 DEF ConnectInv, At
<1> QED BY <1>4, <1>5, <1>6 DEF AgentWork, UpsertAgent, DeleteAgent, At

LEMMA StepConnect ==
  ASSUME IInv, ConversationInv, ConnectInv, NEW r \in Requests, Step(r)
  PROVE  ConnectInv'
<1>1. Persists
  BY StepIInv
<1>2. CASE AgentWork(r) /\ UNCHANGED pushVars
  <2>1. Works(r) /\ op[r] \in AgentOps
    BY <1>2, AgentWorkStep
  <2>2. CASE op[r] = "connect"
    BY <1>2, <2>1, <2>2, ConnectOwn, ConnectOthers DEF ConnectInv
  <2>3. CASE op[r] # "connect"
    <3>1. op'[r] # "connect"
      BY <2>1, <2>3 DEF Works, arguments
    <3> QED BY <1>2, <2>1, <3>1, ConnectOthers DEF ConnectInv, At, Answered
  <2> QED BY <2>2, <2>3
<1>3. CASE ~(AgentWork(r) /\ UNCHANGED pushVars)
  <2>1. Quiet({"connect"}) /\ UNCHANGED <<agents, field>>
    <3>1. CASE Begins(r)
      BY <3>1, BeginsQuiet DEF tables
    <3>2. CASE BrokenWork(r)
      <4>1. UNCHANGED <<agents, field>> /\ (op[r] = "connect" => pc'[r] = "cut")
        BY <3>2, BrokenWorkStep DEF LaxOps, tables
      <4> QED BY <3>2, <4>1, BrokenQuiet
    <3>3. CASE ~Begins(r) /\ ~BrokenWork(r)
      <4>1. Works(r) /\ op[r] # "connect" /\ UNCHANGED <<agents, field>>
        BY <1>3, <3>3, ConversationWorkStep, UserWorkStep, TokenWorkStep, NotifyWorkStep
           DEF Step, UserOps, TokenOps, MuteOps, tables
      <4> QED BY <4>1, WorksQuiet
    <3> QED BY <3>1, <3>2, <3>3
  <2> QED BY <1>1, <2>1, ConnectQuiet DEF ConnectInv
<1> QED BY <1>2, <1>3

(* Once a connect has gone through, the agent is in the table with the       *)
(* fields it gave, each of its own UPDATE (auth.go:168-219), unless another  *)
(* request wrote that agent at the same time or later; and it is refused     *)
(* only when another one inserted the agent between its SELECT and INSERT.   *)
THEOREM ConnectIsStoredHolds == Spec => []ConnectIsStored
<1>1. Init => ConnectInv
  BY UpdateOrderIs DEF Init, AccountInit, ConnectInv, Answered, At, Fields
<1>2. IInv /\ ConversationInv /\ ConnectInv /\ [Next]_vars => ConnectInv'
  <2> SUFFICES ASSUME IInv, ConversationInv, ConnectInv, [Next]_vars PROVE ConnectInv'
    OBVIOUS
  <2>1. CASE UNCHANGED vars
    <3> USE <2>1 DEF vars, accountVars, tables, arguments
    <3>1. \A r \in Requests : /\ InsertedMeanwhile(r)' <=> InsertedMeanwhile(r)
                              /\ WrittenMeanwhile(r)' <=> WrittenMeanwhile(r)
                              /\ \A i \in 1..5 : Stored(r, i)' <=> Stored(r, i)
      BY DEF InsertedMeanwhile, WrittenMeanwhile, Stored, WritesAgent, Ended, Overlap
    <3> QED BY <3>1 DEF ConnectInv, At, Answered
  <2>2. CASE Next
    <3>1. PICK r \in Requests : Step(r)
      BY <2>2, NextIsStep
    <3> QED BY <3>1, StepConnect
  <2> QED BY <2>1, <2>2
<1>3. IInv /\ ConnectInv => ConnectIsStored
  <2> SUFFICES ASSUME IInv, ConnectInv, NEW r \in Requests
               PROVE  /\ Answered(r, "connect") =>
                           \/ agent[r] \in agents /\ \A f \in offer[r] : field[agent[r]][f] = r
                           \/ WrittenMeanwhile(r)
                      /\ At(r, "connect", "refused") => InsertedMeanwhile(r)
    BY DEF ConnectIsStored, WrittenMeanwhile, InsertedMeanwhile
  <2>1. ASSUME Stored(r, 5) PROVE agent[r] \in agents /\ \A f \in offer[r] : field[agent[r]][f] = r
    <3>1. ASSUME NEW f \in offer[r] PROVE field[agent[r]][f] = r
      <4>1. f \in Fields
        BY DEF IInv, RequestTypes
      <4>2. PICK i \in 1..4 : UpdateOrder[i] = f
        BY <4>1, UpdateOrderIs
      <4>3. i < 5
        OBVIOUS
      <4> QED BY <2>1, <4>2, <4>3 DEF Stored
    <3> QED BY <2>1, <3>1 DEF Stored
  <2> QED BY <2>1 DEF ConnectInv
<1> QED BY <1>1, <1>2, <1>3, Invariance, PTL DEF Spec

-----------------------------------------------------------------------------
(* Notifications.                                                           *)

LEMMA AgainPersists ==
  ASSUME IInv, Persists, NEW w \in Requests, pc[w] # "idle", op[w] = "unregister", Again(w)
  PROVE  Again(w)'
<1>1. PICK g \in Requests :
        op[g] \in {"register", "subscribe"} /\ About(g, user[w], token[w]) /\ <<g, w>> \notin before
  BY DEF Again
<1>2. user[w] \in Users
  BY DEF IInv, ArgumentsInv, TokenOps
<1>3. pc[g] # "idle"
  BY <1>1, <1>2 DEF IInv, ArgumentsInv, About
<1>4. Kept(g) /\ Kept(w) /\ <<g, w>> \notin before'
  BY <1>1, <1>3 DEF Persists
<1>5. About(g, user[w], token[w])' /\ op'[g] \in {"register", "subscribe"}
  BY <1>1, <1>4 DEF Kept, About
<1> QED BY <1>4, <1>5 DEF Again

LEMMA UnmutedPersists ==
  ASSUME IInv, Persists, NEW w \in Requests, pc[w] # "idle", op[w] = "mute", Unmuted(w)
  PROVE  Unmuted(w)'
<1>1. PICK g \in Requests : op[g] = "unmute" /\ user[g] = user[w] /\ <<g, w>> \notin before
  BY DEF Unmuted
<1>2. user[w] \in Users
  BY DEF IInv, ArgumentsInv, MuteOps
<1>3. pc[g] # "idle"
  BY <1>1, <1>2 DEF IInv, ArgumentsInv
<1>4. Kept(g) /\ Kept(w) /\ <<g, w>> \notin before'
  BY <1>1, <1>3 DEF Persists
<1> QED BY <1>1, <1>4 DEF Kept, Unmuted

\* The parts of OffInv.
TokenOff(w) == Answered(w, "unregister") /\ platform[user[w]][token[w]] # None => Again(w)
TokenSkipped(w, n) ==
  /\ <<w, n>> \in before /\ Answered(w, "unregister") /\ user[w] = user[n]
  /\ token[w] \in toPush[n] \cup pushed[n]
  => Again(w)
MuteOn(w) == Answered(w, "mute") /\ user[w] \notin muted => Unmuted(w)
MuteKept(w, n) ==
  /\ <<w, n>> \in before /\ Answered(w, "mute") /\ user[w] = user[n]
  /\ At(n, "notify", "tokens") \/ At(n, "notify", "send") \/ pushed[n] # {}
  /\ n \notin failed
  => Unmuted(w)

LEMMA OffQuiet ==
  ASSUME IInv, OffInv, Persists, Quiet(TokenOps \cup MuteOps),
         UNCHANGED <<platform, muted, toPush, pushed>>
  PROVE  OffInv'
<1> USE DEF IInv
<1>1. ASSUME NEW w \in Requests, op'[w] \in TokenOps \cup MuteOps,
             pc'[w] \in {"answered", "tokens", "send"}
      PROVE  pc[w] = pc'[w] /\ Kept(w) /\ pc[w] # "idle"
  <2>1. pc'[w] = pc[w]
    BY <1>1 DEF Quiet
  <2> QED BY <1>1, <2>1 DEF Persists
<1>2. ASSUME NEW w \in Requests, NEW n \in Requests, <<w, n>> \in before',
             pc[n] = "idle"
      PROVE  toPush[n] = {} /\ pushed[n] = {}
  BY <1>2 DEF ArgumentsInv
<1>3. ASSUME NEW w \in Requests, Answered(w, "unregister")'
      PROVE  Answered(w, "unregister") /\ Kept(w) /\ pc[w] # "idle" /\ op[w] = "unregister"
  <2>1. pc[w] = "answered" /\ Kept(w)
    BY <1>1, <1>3 DEF Answered, At, TokenOps
  <2> QED BY <1>3, <2>1 DEF Answered, At, Kept
<1>4. ASSUME NEW w \in Requests, Answered(w, "mute")'
      PROVE  Answered(w, "mute") /\ Kept(w) /\ pc[w] # "idle" /\ op[w] = "mute"
  <2>1. pc[w] = "answered" /\ Kept(w)
    BY <1>1, <1>4 DEF Answered, At, MuteOps
  <2> QED BY <1>4, <2>1 DEF Answered, At, Kept
<1>5. ASSUME NEW w \in Requests PROVE TokenOff(w)'
  <2> SUFFICES ASSUME Answered(w, "unregister")', platform'[user'[w]][token'[w]] # None PROVE Again(w)'
    BY DEF TokenOff
  <2>1. Again(w)
    BY <1>3 DEF OffInv, Kept
  <2> QED BY <1>3, <2>1, AgainPersists
<1>6. ASSUME NEW w \in Requests PROVE MuteOn(w)'
  <2> SUFFICES ASSUME Answered(w, "mute")', user'[w] \notin muted' PROVE Unmuted(w)'
    BY DEF MuteOn
  <2>1. Unmuted(w)
    BY <1>4 DEF OffInv, Kept
  <2> QED BY <1>4, <2>1, UnmutedPersists
<1>7. ASSUME NEW w \in Requests, NEW n \in Requests PROVE TokenSkipped(w, n)'
  <2> SUFFICES ASSUME <<w, n>> \in before', Answered(w, "unregister")', user'[w] = user'[n],
                      token'[w] \in toPush[n] \cup pushed[n]
               PROVE  Again(w)'
    BY DEF TokenSkipped
  <2>1. pc[n] # "idle"
    BY <1>2
  <2>2. <<w, n>> \in before /\ Kept(n)
    BY <2>1 DEF Persists
  <2>3. Again(w)
    BY <1>3, <2>2 DEF OffInv, Kept
  <2> QED BY <1>3, <2>3, AgainPersists
<1>8. ASSUME NEW w \in Requests, NEW n \in Requests PROVE MuteKept(w, n)'
  <2> SUFFICES ASSUME <<w, n>> \in before', Answered(w, "mute")', user'[w] = user'[n],
                      At(n, "notify", "tokens")' \/ At(n, "notify", "send")' \/ pushed[n] # {},
                      n \notin failed'
               PROVE  Unmuted(w)'
    BY DEF MuteKept
  <2>1. pc[n] # "idle"
    BY <1>1, <1>2 DEF At, MuteOps
  <2>2. <<w, n>> \in before /\ Kept(n) /\ n \notin failed
    BY <2>1 DEF Persists
  <2>3. At(n, "notify", "tokens") \/ At(n, "notify", "send") \/ pushed[n] # {}
    BY <1>1, <2>2 DEF At, MuteOps, Kept
  <2>4. Unmuted(w)
    BY <1>4, <2>2, <2>3 DEF OffInv, Kept
  <2> QED BY <1>4, <2>4, UnmutedPersists
<1> QED BY <1>5, <1>6, <1>7, <1>8 DEF OffInv, TokenOff, TokenSkipped, MuteOn, MuteKept

\* A statement about a token writes one row.
LEMMA PlatformSet ==
  ASSUME TableTypes, NEW r \in Requests, user[r] \in Users, token[r] \in Tokens,
         NEW p \in Platforms \cup {None}, SetPlatform(r, p)
  PROVE  \A v \in Users, x \in Tokens :
           platform'[v][x] = IF v = user[r] /\ x = token[r] THEN p ELSE platform[v][x]
<1>1. ASSUME NEW v \in Users
      PROVE  platform'[v] = IF v = user[r] THEN [platform[v] EXCEPT ![token[r]] = p] ELSE platform[v]
  BY DEF SetPlatform, TableTypes
<1>2. ASSUME NEW v \in Users, NEW x \in Tokens
      PROVE  platform'[v][x] = IF v = user[r] /\ x = token[r] THEN p ELSE platform[v][x]
  <2>1. platform[v] \in [Tokens -> Platforms \cup {None}]
    BY DEF TableTypes
  <2>2. CASE v = user[r]
    <3>1. platform'[v] = [platform[v] EXCEPT ![token[r]] = p]
      BY <1>1, <2>2
    <3> QED BY <2>1, <2>2, <3>1
  <2>3. CASE v # user[r]
    BY <1>1, <2>3
  <2> QED BY <2>2, <2>3
<1> QED BY <1>2

LEMMA TokenWorkOff ==
  ASSUME IInv, OffInv, NEW r \in Requests, TokenWork(r), Works(r), op[r] \in TokenOps,
         UNCHANGED <<muted, toPush, pushed, failed>>
  PROVE  OffInv'
<1> USE DEF IInv
<1>1. Persists
  BY StepPersists
<1>2. /\ UNCHANGED <<op, user, token, before>> /\ \A s \in Requests : s # r => pc'[s] = pc[s]
      /\ pc[r] # "idle" /\ ~Ended(r)
  BY DEF Works, arguments, InFlight
<1>3. \A s \in Requests : <<r, s>> \notin before
  BY <1>2 DEF BeforeInv
<1>4. user[r] \in Users /\ token[r] \in Tokens
  BY <1>2 DEF ArgumentsInv
<1>5. ASSUME NEW u \in Users, NEW t \in Tokens, platform'[u][t] # platform[u][t]
      PROVE  /\ About(r, u, t)
             /\ platform'[u][t] # None => op[r] \in {"register", "subscribe"}
  <2>1. PICK p \in Platforms \cup {None} : SetPlatform(r, p) /\ (p # None => op[r] \in {"register", "subscribe"})
    BY <1>5 DEF TokenWork, RegisterToken, UnregisterToken, SubscribeToken, SubscribeKeys, UnsubscribeToken,
                UnsubscribeKeys, At, Platforms
  <2>2. platform'[u][t] = IF u = user[r] /\ t = token[r] THEN p ELSE platform[u][t]
    BY <1>4, <2>1, PlatformSet
  <2> QED BY <1>5, <2>1, <2>2 DEF About
<1>6. ASSUME NEW w \in Requests PROVE TokenOff(w)'
  <2> SUFFICES ASSUME Answered(w, "unregister")', platform'[user[w]][token[w]] # None PROVE Again(w)'
    BY <1>2 DEF TokenOff
  <2>1. pc'[w] # "idle" /\ op[w] = "unregister"
    BY <1>2 DEF Answered, At
  <2>2. pc[w] # "idle"
    BY <1>2, <2>1
  <2>3. user[w] \in Users /\ token[w] \in Tokens
    BY <2>1, <2>2 DEF ArgumentsInv, TokenOps
  <2>4. CASE w = r
    <3>1. platform' = [platform EXCEPT ![user[r]][token[r]] = None]
      BY <2>1, <2>4 DEF TokenWork, RegisterToken, UnregisterToken, SubscribeToken, SubscribeKeys,
                        UnsubscribeToken, UnsubscribeKeys, SetPlatform, At
    <3>2. platform'[user[r]][token[r]] = None
      BY <1>4, <3>1 DEF TableTypes
    <3> QED BY <2>4, <3>2
  <2>5. CASE w # r /\ platform'[user[w]][token[w]] = platform[user[w]][token[w]]
    <3>1. Answered(w, "unregister")
      BY <1>2, <2>5 DEF Answered, At
    <3>2. Again(w)
      BY <2>5, <3>1 DEF OffInv
    <3> QED BY <1>1, <2>1, <2>2, <3>2, AgainPersists
  <2>6. CASE platform'[user[w]][token[w]] # platform[user[w]][token[w]]
    <3>1. About(r, user[w], token[w]) /\ op[r] \in {"register", "subscribe"}
      BY <1>5, <2>3, <2>6
    <3> QED BY <1>2, <1>3, <3>1 DEF Again, About
  <2> QED BY <2>4, <2>5, <2>6
<1>7. ASSUME NEW w \in Requests, NEW n \in Requests PROVE TokenSkipped(w, n)'
  <2> SUFFICES ASSUME <<w, n>> \in before, Answered(w, "unregister")', user[w] = user[n],
                      token[w] \in toPush[n] \cup pushed[n]
               PROVE  Again(w)'
    BY <1>2 DEF TokenSkipped
  <2>1. w # r
    BY <1>3
  <2>2. Answered(w, "unregister")
    BY <1>2, <2>1 DEF Answered, At
  <2>3. Again(w)
    BY <2>2 DEF OffInv
  <2> QED BY <1>1, <2>2, <2>3, AgainPersists DEF Answered, At
<1>8. ASSUME NEW w \in Requests PROVE MuteOn(w)'
  <2> SUFFICES ASSUME Answered(w, "mute")', user[w] \notin muted PROVE Unmuted(w)'
    BY <1>2 DEF MuteOn
  <2>1. w # r
    BY <1>2 DEF Answered, At, TokenOps
  <2>2. Answered(w, "mute")
    BY <1>2, <2>1 DEF Answered, At
  <2>3. Unmuted(w)
    BY <2>2 DEF OffInv
  <2> QED BY <1>1, <2>2, <2>3, UnmutedPersists DEF Answered, At
<1>9. ASSUME NEW w \in Requests, NEW n \in Requests PROVE MuteKept(w, n)'
  <2> SUFFICES ASSUME <<w, n>> \in before, Answered(w, "mute")', user[w] = user[n],
                      At(n, "notify", "tokens")' \/ At(n, "notify", "send")' \/ pushed[n] # {},
                      n \notin failed'
               PROVE  Unmuted(w)'
    BY <1>2 DEF MuteKept
  <2>1. w # r
    BY <1>3
  <2>2. Answered(w, "mute")
    BY <1>2, <2>1 DEF Answered, At
  <2>3. At(n, "notify", "tokens") \/ At(n, "notify", "send") \/ pushed[n] # {}
    BY <1>2 DEF At, TokenOps
  <2>4. Unmuted(w)
    BY <2>2, <2>3 DEF OffInv
  <2> QED BY <1>1, <2>2, <2>4, UnmutedPersists DEF Answered, At
<1> QED BY <1>6, <1>7, <1>8, <1>9 DEF OffInv, TokenOff, TokenSkipped, MuteOn, MuteKept

LEMMA NotifyWorkOff ==
  ASSUME IInv, OffInv, NEW r \in Requests, NotifyWork(r), Works(r), op[r] \in MuteOps,
         UNCHANGED <<platform, failed>>
  PROVE  OffInv'
<1> USE DEF IInv
<1>1. Persists
  BY StepPersists
<1>2. /\ UNCHANGED <<op, user, token, before>> /\ \A s \in Requests : s # r => pc'[s] = pc[s]
      /\ pc[r] # "idle" /\ ~Ended(r)
  BY DEF Works, arguments, InFlight
<1>3. \A s \in Requests : <<r, s>> \notin before
  BY <1>2 DEF BeforeInv
<1>4. ASSUME NEW w \in Requests PROVE TokenOff(w)'
  <2> SUFFICES ASSUME Answered(w, "unregister")', platform[user[w]][token[w]] # None PROVE Again(w)'
    BY <1>2 DEF TokenOff
  <2>1. w # r
    BY <1>2 DEF Answered, At, MuteOps
  <2>2. Answered(w, "unregister")
    BY <1>2, <2>1 DEF Answered, At
  <2>3. Again(w)
    BY <2>2 DEF OffInv
  <2> QED BY <1>1, <2>2, <2>3, AgainPersists DEF Answered, At
<1>5. \A s \in Requests : s # r => toPush'[s] = toPush[s] /\ pushed'[s] = pushed[s]
  BY DEF NotifyWork, SetMuted, DeleteMuted, CheckMuted, ReadTokens, SendPush, RequestTypes
<1>6. \/ ReadTokens(r) /\ pushed' = pushed /\ toPush'[r] = DeviceTokens(r)
      \/ ~ReadTokens(r) /\ toPush'[r] \cup pushed'[r] \subseteq toPush[r] \cup pushed[r]
  BY DEF NotifyWork, SetMuted, DeleteMuted, CheckMuted, ReadTokens, SendPush, RequestTypes
<1>7. ASSUME NEW w \in Requests, NEW n \in Requests PROVE TokenSkipped(w, n)'
  <2> SUFFICES ASSUME <<w, n>> \in before, Answered(w, "unregister")', user[w] = user[n],
                      token[w] \in toPush'[n] \cup pushed'[n]
               PROVE  Again(w)'
    BY <1>2 DEF TokenSkipped
  <2>1. w # r
    BY <1>3
  <2>2. Answered(w, "unregister")
    BY <1>2, <2>1 DEF Answered, At
  <2>3. Again(w)
    <3>1. CASE token[w] \in toPush[n] \cup pushed[n]
      BY <2>2, <3>1 DEF OffInv
    <3>2. CASE token[w] \notin toPush[n] \cup pushed[n]
      <4>1. n = r /\ ReadTokens(r) /\ token[w] \in DeviceTokens(r)
        BY <1>5, <1>6, <3>2
      <4>2. platform[user[w]][token[w]] # None
        BY <4>1 DEF DeviceTokens
      <4> QED BY <2>2, <4>2 DEF OffInv
    <3> QED BY <3>1, <3>2
  <2> QED BY <1>1, <2>2, <2>3, AgainPersists DEF Answered, At
<1>8. ASSUME NEW w \in Requests PROVE MuteOn(w)'
  <2> SUFFICES ASSUME Answered(w, "mute")', user[w] \notin muted' PROVE Unmuted(w)'
    BY <1>2 DEF MuteOn
  <2>1. w # r
    <3>1. ASSUME w = r PROVE FALSE
      <4>1. SetMuted(r)
        BY <1>2, <3>1 DEF NotifyWork, SetMuted, DeleteMuted, CheckMuted, ReadTokens, SendPush, Answered, At
      <4> QED BY <1>2, <3>1, <4>1 DEF SetMuted, Answered, At
    <3> QED BY <3>1
  <2>2. Answered(w, "mute")
    BY <1>2, <2>1 DEF Answered, At
  <2>3. CASE user[w] \notin muted
    <3>1. Unmuted(w)
      BY <2>2, <2>3 DEF OffInv
    <3> QED BY <1>1, <2>2, <3>1, UnmutedPersists DEF Answered, At
  <2>4. CASE user[w] \in muted
    <3>1. op[r] = "unmute" /\ user[w] = user[r]
      BY <2>4 DEF NotifyWork, SetMuted, DeleteMuted, CheckMuted, ReadTokens, SendPush, pushTables, At
    <3>2. op'[r] = "unmute" /\ user'[r] = user'[w] /\ <<r, w>> \notin before'
      BY <1>2, <1>3, <3>1
    <3> QED BY <3>2 DEF Unmuted
  <2> QED BY <2>3, <2>4
<1>9. ASSUME NEW w \in Requests, NEW n \in Requests PROVE MuteKept(w, n)'
  <2> SUFFICES ASSUME <<w, n>> \in before, Answered(w, "mute")', user[w] = user[n],
                      At(n, "notify", "tokens")' \/ At(n, "notify", "send")' \/ pushed'[n] # {},
                      n \notin failed'
               PROVE  Unmuted(w)'
    BY <1>2 DEF MuteKept
  <2>1. w # r
    BY <1>3
  <2>2. Answered(w, "mute")
    BY <1>2, <2>1 DEF Answered, At
  <2>3. Unmuted(w)
    <3>1. CASE At(n, "notify", "tokens") \/ At(n, "notify", "send") \/ pushed[n] # {}
      BY <2>2, <3>1 DEF OffInv
    <3>2. CASE ~(At(n, "notify", "tokens") \/ At(n, "notify", "send") \/ pushed[n] # {})
      <4>1. n = r
        BY <1>2, <1>5, <3>2 DEF At
      <4>2. CheckMuted(r) /\ user[r] \notin muted
        <5>1. ~ReadTokens(r) /\ ~SendPush(r)
          BY <3>2, <4>1 DEF ReadTokens, SendPush, At
        <5>2. pushed'[r] = pushed[r] /\ op[r] = "notify"
          BY <1>2, <3>2, <4>1, <5>1 DEF NotifyWork, SetMuted, DeleteMuted, CheckMuted, At
        <5>3. CheckMuted(r)
          BY <5>1, <5>2 DEF NotifyWork, SetMuted, DeleteMuted, At
        <5>4. pc'[r] # "answered"
          BY <3>2, <4>1, <5>2 DEF At
        <5>5. pc'[r] = IF IsConversationMuted(r) THEN "answered" ELSE "tokens"
          BY <5>3 DEF CheckMuted, Goto, RequestTypes
        <5> QED BY <5>3, <5>4, <5>5 DEF IsConversationMuted
      <4> QED BY <2>2, <4>1, <4>2 DEF OffInv
    <3> QED BY <3>1, <3>2
  <2> QED BY <1>1, <2>2, <2>3, UnmutedPersists DEF Answered, At
<1> QED BY <1>4, <1>7, <1>8, <1>9 DEF OffInv, TokenOff, TokenSkipped, MuteOn, MuteKept

\* A request that goes on after a failure is excused, and no other is affected.
LEMMA GoesOnOff ==
  ASSUME IInv, OffInv, NEW r \in Requests, Works(r), op[r] \in LaxOps, failed' = failed \cup {r},
         UNCHANGED <<platform, muted, toPush, pushed>>
  PROVE  OffInv'
<1> USE DEF IInv
<1>1. Persists
  BY StepPersists
<1>2. UNCHANGED <<op, user, token, before>> /\ \A s \in Requests : s # r => pc'[s] = pc[s]
  BY DEF Works, arguments
<1>3. ASSUME NEW w \in Requests, Answered(w, "unregister")'
      PROVE  Answered(w, "unregister") /\ (Again(w) => Again(w)')
  <2>1. Answered(w, "unregister")
    BY <1>2, <1>3 DEF Answered, At, LaxOps
  <2> QED BY <1>1, <2>1, AgainPersists DEF Answered, At
<1>4. ASSUME NEW w \in Requests, Answered(w, "mute")'
      PROVE  Answered(w, "mute") /\ (Unmuted(w) => Unmuted(w)')
  <2>1. Answered(w, "mute")
    BY <1>2, <1>4 DEF Answered, At, LaxOps
  <2> QED BY <1>1, <2>1, UnmutedPersists DEF Answered, At
<1>5. ASSUME NEW w \in Requests PROVE TokenOff(w)'
  BY <1>2, <1>3 DEF OffInv, TokenOff
<1>6. ASSUME NEW w \in Requests, NEW n \in Requests PROVE TokenSkipped(w, n)'
  BY <1>2, <1>3 DEF OffInv, TokenSkipped
<1>7. ASSUME NEW w \in Requests PROVE MuteOn(w)'
  BY <1>2, <1>4 DEF OffInv, MuteOn
<1>8. ASSUME NEW w \in Requests, NEW n \in Requests PROVE MuteKept(w, n)'
  <2> SUFFICES ASSUME <<w, n>> \in before, Answered(w, "mute")', user[w] = user[n],
                      At(n, "notify", "tokens")' \/ At(n, "notify", "send")' \/ pushed[n] # {},
                      n \notin failed'
               PROVE  Unmuted(w)'
    BY <1>2 DEF MuteKept
  <2>1. n # r /\ n \notin failed
    OBVIOUS
  <2>2. At(n, "notify", "tokens") \/ At(n, "notify", "send") \/ pushed[n] # {}
    BY <1>2, <2>1 DEF At
  <2> QED BY <1>4, <2>1, <2>2 DEF OffInv
<1> QED BY <1>5, <1>6, <1>7, <1>8 DEF OffInv, TokenOff, TokenSkipped, MuteOn, MuteKept

LEMMA StepOff ==
  ASSUME IInv, ConversationInv, OffInv, NEW r \in Requests, Step(r)
  PROVE  OffInv'
<1>1. Persists
  BY StepIInv
<1>2. CASE TokenWork(r)
  BY <1>2, TokenWorkStep, TokenWorkOff
<1>3. CASE NotifyWork(r)
  BY <1>3, NotifyWorkStep, NotifyWorkOff
<1>4. CASE ~TokenWork(r) /\ ~NotifyWork(r)
  <2>1. CASE Begins(r)
    <3>1. Quiet(TokenOps \cup MuteOps) /\ UNCHANGED <<platform, muted, toPush, pushed>>
      BY <2>1, BeginsQuiet DEF TokenOps, MuteOps, pushTables
    <3> QED BY <1>1, <3>1, OffQuiet
  <2>2. CASE BrokenWork(r)
    <3>1. Works(r) /\ UNCHANGED <<platform, muted, toPush, pushed>>
      BY <2>2, BrokenWorkStep DEF pushTables
    <3>2. CASE pc'[r] = "cut"
      BY <1>1, <2>2, <3>1, <3>2, BrokenQuiet, OffQuiet
    <3>3. CASE pc'[r] # "cut"
      BY <2>2, <3>1, <3>3, BrokenWorkStep, GoesOnOff
    <3> QED BY <3>2, <3>3
  <2>3. CASE ~Begins(r) /\ ~BrokenWork(r)
    <3>1. Works(r) /\ op[r] \notin TokenOps \cup MuteOps /\ UNCHANGED pushVars
      BY <1>4, <2>3, UserWorkStep, AgentWorkStep, ConversationWorkStep
         DEF Step, UserOps, AgentOps, TokenOps, MuteOps
    <3>2. Quiet(TokenOps \cup MuteOps)
      BY <3>1, WorksQuiet
    <3> QED BY <1>1, <3>1, <3>2, OffQuiet DEF pushVars, pushTables
  <2> QED BY <2>1, <2>2, <2>3
<1> QED BY <1>2, <1>3, <1>4

(* What a user turned off stays off: a notification that began after a token *)
(* was unregistered or the conversation muted is not pushed to it, whatever  *)
(* the goroutine of push.go reads and sends in between, unless the user      *)
(* registered or unmuted again since, or the notification could not read     *)
(* whether it is muted (notif_prefs.go:118-131).  What was turned off is     *)
(* absent from the table, and from what any later notification has read.     *)
THEOREM OffStaysOffHolds == Spec => []OffStaysOff
<1>1. Init => OffInv
  BY DEF Init, AccountInit, OffInv, Answered, At
<1>2. IInv /\ ConversationInv /\ OffInv /\ [Next]_vars => OffInv'
  <2> SUFFICES ASSUME IInv, ConversationInv, OffInv, [Next]_vars PROVE OffInv'
    OBVIOUS
  <2>1. CASE UNCHANGED vars
    <3> USE <2>1 DEF vars, accountVars, arguments, pushVars, pushTables
    <3>1. \A w \in Requests : (Again(w)' <=> Again(w)) /\ (Unmuted(w)' <=> Unmuted(w))
      BY DEF Again, Unmuted, About
    <3> QED BY <3>1 DEF OffInv, At, Answered
  <2>2. CASE Next
    <3>1. PICK r \in Requests : Step(r)
      BY <2>2, NextIsStep
    <3> QED BY <3>1, StepOff
  <2> QED BY <2>1, <2>2
<1>3. OffInv => OffStaysOff
  <2> SUFFICES ASSUME OffInv PROVE OffStaysOff
    OBVIOUS
  <2>1. ASSUME NEW n \in Requests, NEW w \in Requests, <<w, n>> \in before, NEW t \in pushed[n],
               Answered(w, "unregister"), About(w, user[n], t)
        PROVE  \E g \in Requests :
                 op[g] \in {"register", "subscribe"} /\ About(g, user[n], t) /\ <<g, w>> \notin before
    <3>1. Again(w)
      BY <2>1 DEF OffInv, About
    <3> QED BY <2>1, <3>1 DEF Again, About
  <2>2. ASSUME NEW n \in Requests, NEW w \in Requests, <<w, n>> \in before,
               Answered(w, "mute"), user[w] = user[n], pushed[n] # {}, n \notin failed
        PROVE  \E g \in Requests : op[g] = "unmute" /\ user[g] = user[n] /\ <<g, w>> \notin before
    <3>1. Unmuted(w)
      BY <2>2 DEF OffInv
    <3> QED BY <2>2, <3>1 DEF Unmuted
  <2> QED BY <2>1, <2>2 DEF OffStaysOff
<1> QED BY <1>1, <1>2, <1>3, Invariance, PTL DEF Spec

-----------------------------------------------------------------------------
(* Subscriptions.                                                           *)

LEMMA CalmBack ==
  ASSUME IInv, Persists, NEW u \in Users, NEW t \in Tokens, Calm(u, t)'
  PROVE  Calm(u, t)
<1>1. ASSUME NEW r \in Requests, token[r] = t PROVE pc[r] # "idle" /\ Kept(r)
  <2>1. pc[r] # "idle"
    BY <1>1 DEF IInv, ArgumentsInv
  <2> QED BY <2>1 DEF Persists
<1>2. ASSUME NEW r \in Requests, NEW s \in Requests, token[r] = t, token[s] = t PROVE ~Overlap(r, s)
  <2>1. ~Overlap(r, s)'
    BY <1>1, <1>2 DEF Calm, Kept
  <2> QED BY <1>1, <1>2, <2>1, OverlapPersists
<1>3. ASSUME NEW r \in Requests, About(r, u, t) PROVE op[r] \notin {"register", "unregister"}
  BY <1>1, <1>3 DEF Calm, About, Kept
<1>4. ASSUME NEW r \in Requests, token[r] = t, user[r] # u PROVE op[r] # "subscribe"
  BY <1>1, <1>4 DEF Calm, Kept
<1> QED BY <1>2, <1>3, <1>4 DEF Calm

\* KeysInv for one user and endpoint.
Settled(u, t) ==
  \A r \in Requests :
    Between(r, u, t) /\ r \notin failed => (platform[u][t] = "web" <=> op[r] = "subscribe")
Consistent(u, t) ==
  /\ Settled(u, t)
  /\ \/ \E r \in Requests : Between(r, u, t) \/ Loose(r, u, t)
     \/ keyOwner[t] = u <=> platform[u][t] = "web"

\* A request that no request about u and t has ended after stays loose.
LEMMA LoosePersists ==
  ASSUME IInv, Persists, NEW u \in Users, NEW t \in Tokens, NEW r \in Requests, Loose(r, u, t),
         \A s \in Requests : /\ About(s, u, t)' /\ op'[s] \in {"subscribe", "unsubscribe"}
                              /\ pc'[s] = "answered" /\ s \notin failed'
                              => pc[s] = "answered"
  PROVE  Loose(r, u, t)'
<1>1. pc[r] # "idle" /\ Kept(r)
  <2>1. pc[r] # "idle"
    BY DEF Loose, About, IInv, ArgumentsInv
  <2> QED BY <2>1 DEF Persists
<1>2. About(r, u, t)' /\ user'[r] = u /\ token'[r] = t
  BY <1>1 DEF Loose, About, Kept
<1>3. Broken(r)'
  BY <1>1 DEF Loose, Broken, Persists, Ended
<1>4. ASSUME NEW s \in Requests, <<r, s>> \in before', About(s, u, t)',
             op'[s] \in {"subscribe", "unsubscribe"}, pc'[s] = "answered", s \notin failed'
      PROVE  FALSE
  <2>1. pc[s] = "answered"
    BY <1>4
  <2>2. Kept(s) /\ <<r, s>> \in before /\ s \notin failed
    BY <1>4, <2>1 DEF Persists
  <2>3. About(s, user[r], token[r]) /\ op[s] \in {"subscribe", "unsubscribe"}
    BY <1>4, <2>2 DEF Kept, About, Loose
  <2> QED BY <2>1, <2>2, <2>3 DEF Loose, Repaired
<1> QED BY <1>2, <1>3, <1>4 DEF Loose, Repaired

\* A broken request nobody can have come after: it was in flight, and nobody has ended.
LEMMA LooseNow ==
  ASSUME IInv, NEW u, NEW t, NEW r \in Requests, InFlight(r), before' = before,
         About(r, u, t)', Broken(r)'
  PROVE  Loose(r, u, t)'
<1>1. \A s \in Requests : <<r, s>> \notin before'
  BY DEF IInv, BeforeInv, InFlight
<1> QED BY <1>1 DEF Loose, Repaired

LEMMA KeysQuiet ==
  ASSUME IInv, KeysInv, Persists, Quiet(TokenOps), UNCHANGED <<platform, keyOwner>>
  PROVE  KeysInv'
<1> SUFFICES ASSUME NEW u \in Users, NEW t \in Tokens, Calm(u, t)' PROVE Consistent(u, t)'
  BY DEF KeysInv, Consistent, Settled
<1>1. Consistent(u, t)
  BY CalmBack DEF KeysInv, Consistent, Settled
<1>2. \A s \in Requests : op'[s] \in {"subscribe", "unsubscribe"} /\ pc'[s] = "answered" => pc[s] = "answered"
  BY DEF Quiet, TokenOps
<1>3. ASSUME NEW s \in Requests, Between(s, u, t) PROVE Between(s, u, t)' \/ Loose(s, u, t)'
  <2>1. pc[s] = "keys" /\ op[s] \in TokenOps
    BY <1>3 DEF Between, TokenOps
  <2>2. Kept(s)
    BY <2>1 DEF Persists
  <2>3. About(s, u, t)' /\ op'[s] \in {"subscribe", "unsubscribe"} /\ op'[s] \in TokenOps
    BY <1>3, <2>2 DEF Between, About, Kept, TokenOps
  <2>4. CASE pc'[s] = pc[s]
    BY <2>1, <2>3, <2>4 DEF Between
  <2>5. CASE pc'[s] = "cut"
    <3>1. ASSUME NEW x \in Requests, <<s, x>> \in before', pc'[x] = "answered",
                 op'[x] \in {"subscribe", "unsubscribe"}
          PROVE  FALSE
      <4>1. pc[x] = "answered"
        BY <1>2, <3>1
      <4>2. <<s, x>> \in before
        BY <3>1, <4>1 DEF Persists
      <4> QED BY <2>1, <4>2 DEF IInv, BeforeInv, Ended
    <3> QED BY <2>3, <2>5, <3>1 DEF Loose, Broken, Repaired
  <2> QED BY <2>1, <2>3, <2>4, <2>5 DEF Quiet
<1>4. ASSUME NEW s \in Requests, Between(s, u, t)' PROVE Between(s, u, t) /\ op'[s] = op[s]
  <2>1. pc'[s] = "keys" /\ op'[s] \in TokenOps
    BY <1>4 DEF Between, TokenOps
  <2>2. pc[s] = "keys"
    BY <2>1 DEF Quiet
  <2>3. Kept(s)
    BY <2>2 DEF Persists
  <2> QED BY <1>4, <2>2, <2>3 DEF Between, About, Kept
<1>5. Settled(u, t)'
  BY <1>1, <1>4 DEF Consistent, Settled, Persists
<1>6. ASSUME NEW s \in Requests, Loose(s, u, t) PROVE Loose(s, u, t)'
  BY <1>2, <1>6, LoosePersists
<1> QED BY <1>1, <1>3, <1>5, <1>6 DEF Consistent

\* A request that goes on after a failure is loose.
LEMMA GoesOnKeys ==
  ASSUME IInv, KeysInv, NEW r \in Requests, Works(r), failed' = failed \cup {r},
         UNCHANGED <<platform, keyOwner>>
  PROVE  KeysInv'
<1> USE DEF IInv
<1>1. Persists
  BY StepPersists
<1>2. /\ UNCHANGED <<op, user, token, before>> /\ \A s \in Requests : s # r => pc'[s] = pc[s]
      /\ InFlight(r)
  BY DEF Works, arguments
<1> SUFFICES ASSUME NEW u \in Users, NEW t \in Tokens, Calm(u, t)' PROVE Consistent(u, t)'
  BY DEF KeysInv, Consistent, Settled
<1>3. Consistent(u, t)
  BY <1>1, CalmBack DEF KeysInv, Consistent, Settled
<1>4. \A s \in Requests : s # r => (Between(s, u, t)' <=> Between(s, u, t))
  BY <1>2 DEF Between, About
<1>5. Settled(u, t)'
  BY <1>2, <1>3, <1>4 DEF Consistent, Settled
<1>6. ASSUME NEW s \in Requests, Loose(s, u, t) PROVE Loose(s, u, t)'
  BY <1>1, <1>2, <1>6, LoosePersists
<1>7. CASE About(r, u, t)
  <2>1. About(r, u, t)' /\ Broken(r)'
    BY <1>2, <1>7 DEF About, Broken
  <2> QED BY <1>2, <1>5, <2>1, LooseNow DEF Consistent
<1>8. CASE ~About(r, u, t)
  <2>1. \A s \in Requests : Between(s, u, t) => Between(s, u, t)'
    BY <1>4, <1>8 DEF Between
  <2> QED BY <1>3, <1>5, <1>6, <2>1 DEF Consistent
<1> QED BY <1>7, <1>8

\* Of two requests about an endpoint where nothing overlaps one has ended.
LEMMA OnlyOne ==
  ASSUME IInv, NEW u \in Users, NEW t \in Tokens, Calm(u, t),
         NEW r \in Requests, NEW s \in Requests, token[r] = t, token[s] = t, InFlight(r), InFlight(s)
  PROVE  r = s
<1>1. <<r, s>> \notin before /\ <<s, r>> \notin before
  BY DEF IInv, BeforeInv, InFlight
<1> QED BY <1>1 DEF Calm, Overlap

LEMMA TokenWorkKeys ==
  ASSUME IInv, KeysInv, NEW r \in Requests, TokenWork(r), Works(r), op[r] \in TokenOps,
         UNCHANGED failed
  PROVE  KeysInv'
<1> USE DEF IInv
<1>1. Persists
  BY StepPersists
<1>2. /\ UNCHANGED <<op, user, token, before>> /\ \A s \in Requests : s # r => pc'[s] = pc[s]
      /\ pc[r] # "idle" /\ InFlight(r)
  BY DEF Works, arguments, InFlight
<1>3. user[r] \in Users /\ token[r] \in Tokens
  BY <1>2 DEF ArgumentsInv
<1> SUFFICES ASSUME NEW u \in Users, NEW t \in Tokens, Calm(u, t)' PROVE Consistent(u, t)'
  BY DEF KeysInv, Consistent, Settled
<1>4. Calm(u, t) /\ Consistent(u, t)
  BY <1>1, CalmBack DEF KeysInv, Consistent, Settled
<1>5. \A s \in Requests : s # r => (Between(s, u, t)' <=> Between(s, u, t))
  BY <1>2 DEF Between, About
<1>6. \/ platform' = platform
      \/ \E p \in Platforms \cup {None} : SetPlatform(r, p)
  BY DEF TokenWork, RegisterToken, UnregisterToken, SubscribeToken, SubscribeKeys, UnsubscribeToken,
         UnsubscribeKeys, Platforms
<1>7. ~About(r, u, t) => platform'[u][t] = platform[u][t]
  <2>1. CASE \E p \in Platforms \cup {None} : SetPlatform(r, p)
    <3>1. PICK p \in Platforms \cup {None} : SetPlatform(r, p)
      BY <2>1
    <3>2. platform'[u][t] = IF u = user[r] /\ t = token[r] THEN p ELSE platform[u][t]
      BY <1>3, <3>1, PlatformSet
    <3> QED BY <3>2 DEF About
  <2> QED BY <1>6, <2>1
<1>8. CASE ~About(r, u, t)
  <2>1. ~Between(r, u, t) /\ ~Between(r, u, t)'
    BY <1>2, <1>8 DEF Between, About
  <2>2. keyOwner'[t] = u <=> keyOwner[t] = u
    <3>1. CASE keyOwner' = keyOwner
      BY <3>1
    <3>2. CASE SubscribeKeys(r)
      <4>1. op[r] = "subscribe" /\ keyOwner' = [keyOwner EXCEPT ![token[r]] = user[r]]
        BY <3>2 DEF SubscribeKeys, At
      <4>2. token[r] # t
        BY <1>4, <1>8, <4>1 DEF Calm, About
      <4> QED BY <4>1, <4>2 DEF TableTypes
    <3>3. CASE UnsubscribeKeys(r) /\ keyOwner[token[r]] = user[r]
      <4>1. keyOwner' = [keyOwner EXCEPT ![token[r]] = None]
        BY <3>3 DEF UnsubscribeKeys, KeyDeleted
      <4>2. token[r] # t \/ (keyOwner[t] # u /\ keyOwner'[t] = None)
        BY <1>8, <3>3, <4>1 DEF TableTypes, About
      <4>3. u # None
        OBVIOUS
      <4> QED BY <4>1, <4>2, <4>3 DEF TableTypes
    <3> QED BY <3>1, <3>2, <3>3 DEF TokenWork, RegisterToken, UnregisterToken, SubscribeToken,
                                    UnsubscribeToken, UnsubscribeKeys, KeyDeleted
  <2>3. \A s \in Requests : Between(s, u, t)' <=> Between(s, u, t)
    BY <1>5, <2>1
  <2>4. ASSUME NEW s \in Requests, Loose(s, u, t) PROVE Loose(s, u, t)'
    <3>1. \A q \in Requests : About(q, u, t)' => q # r
      BY <1>2, <1>8 DEF About
    <3> QED BY <1>1, <1>2, <2>4, <3>1, LoosePersists
  <2>5. Settled(u, t)'
    BY <1>2, <1>4, <1>7, <1>8, <2>3 DEF Consistent, Settled
  <2> QED BY <1>4, <1>7, <1>8, <2>2, <2>3, <2>4, <2>5 DEF Consistent
<1>9. CASE About(r, u, t)
  <2>1. op[r] \in {"subscribe", "unsubscribe"}
    BY <1>4, <1>9 DEF Calm, TokenOps
  <2>2. \A s \in Requests : s # r => ~Between(s, u, t) /\ ~Between(s, u, t)'
    <3>1. ASSUME NEW s \in Requests, Between(s, u, t) PROVE s = r
      BY <1>2, <1>4, <1>9, <3>1, OnlyOne DEF Between, About, InFlight, Ended
    <3> QED BY <1>5, <3>1
  <2>3. user[r] = u /\ token[r] = t
    BY <1>9 DEF About
  <2>4. CASE SubscribeToken(r)
    <3>1. op[r] = "subscribe" /\ pc'[r] = "keys" /\ SetPlatform(r, "web")
      BY <2>4 DEF SubscribeToken, At, Goto, RequestTypes
    <3>2. platform'[u][t] = "web"
      BY <1>3, <2>3, <3>1, PlatformSet DEF Platforms
    <3>3. Between(r, u, t)'
      BY <1>2, <2>3, <3>1 DEF Between, About
    <3> QED BY <1>2, <2>2, <3>1, <3>2, <3>3 DEF Consistent, Settled
  <2>5. CASE UnsubscribeToken(r)
    <3>1. op[r] = "unsubscribe" /\ pc'[r] = "keys"
      BY <2>5 DEF UnsubscribeToken, At, Goto, RequestTypes
    <3>2. platform'[u][t] # "web"
      <4>1. CASE platform[u][t] = "web"
        <5>1. SetPlatform(r, None)
          BY <2>3, <2>5, <4>1 DEF UnsubscribeToken
        <5>2. platform'[u][t] = None
          BY <1>3, <2>3, <5>1, PlatformSet
        <5> QED BY <5>2 DEF Platforms
      <4>2. CASE platform[u][t] # "web"
        BY <2>3, <2>5, <4>2 DEF UnsubscribeToken
      <4> QED BY <4>1, <4>2
    <3>3. Between(r, u, t)'
      BY <1>2, <2>3, <3>1 DEF Between, About
    <3> QED BY <1>2, <2>2, <3>1, <3>2, <3>3 DEF Consistent, Settled
  <2>6. CASE SubscribeKeys(r) /\ r \notin failed
    <3>1. op[r] = "subscribe" /\ pc[r] = "keys" /\ pc'[r] = "answered" /\ platform' = platform
      BY <2>6 DEF SubscribeKeys, At, Goto, RequestTypes
    <3>2. platform[u][t] = "web"
      BY <1>4, <2>3, <2>6, <3>1 DEF Consistent, Settled, Between, About
    <3>3. keyOwner'[t] = u
      BY <1>3, <2>3, <2>6 DEF SubscribeKeys, TableTypes
    <3>4. \A s \in Requests : ~Between(s, u, t)'
      BY <2>2, <3>1 DEF Between
    <3> QED BY <3>1, <3>2, <3>3, <3>4 DEF Consistent, Settled
  <2>7. CASE UnsubscribeKeys(r) /\ r \notin failed
    <3>1. op[r] = "unsubscribe" /\ pc[r] = "keys" /\ pc'[r] = "answered" /\ platform' = platform
      BY <2>7 DEF UnsubscribeKeys, At, Goto, RequestTypes
    <3>2. platform[u][t] # "web"
      BY <1>4, <2>3, <2>7, <3>1 DEF Consistent, Settled, Between, About
    <3>3. keyOwner'[t] # u
      <4>1. u # None
        OBVIOUS
      <4> QED BY <1>3, <2>3, <2>7, <4>1 DEF UnsubscribeKeys, KeyDeleted, TableTypes
    <3>4. \A s \in Requests : ~Between(s, u, t)'
      BY <2>2, <3>1 DEF Between
    <3> QED BY <3>1, <3>2, <3>3, <3>4 DEF Consistent, Settled
  <2>8. CASE (SubscribeKeys(r) \/ UnsubscribeKeys(r)) /\ r \in failed
    <3>1. pc'[r] = "answered"
      BY <2>8 DEF SubscribeKeys, UnsubscribeKeys, Goto, RequestTypes
    <3>2. About(r, u, t)' /\ Broken(r)'
      BY <1>2, <2>3, <2>8 DEF About, Broken
    <3>3. \A s \in Requests : ~Between(s, u, t)'
      BY <2>2, <3>1 DEF Between
    <3> QED BY <1>2, <3>2, <3>3, LooseNow DEF Consistent, Settled
  <2> QED BY <2>1, <2>4, <2>5, <2>6, <2>7, <2>8 DEF TokenWork, RegisterToken, UnregisterToken, At
<1> QED BY <1>8, <1>9

LEMMA StepKeys ==
  ASSUME IInv, ConversationInv, KeysInv, NEW r \in Requests, Step(r)
  PROVE  KeysInv'
<1>1. Persists
  BY StepIInv
<1>2. CASE TokenWork(r)
  BY <1>2, TokenWorkStep, TokenWorkKeys
<1>3. CASE ~TokenWork(r)
  <2>1. CASE Begins(r)
    <3>1. Quiet(TokenOps) /\ UNCHANGED <<platform, keyOwner>>
      BY <2>1, BeginsQuiet DEF TokenOps, pushTables
    <3> QED BY <1>1, <3>1, KeysQuiet
  <2>2. CASE BrokenWork(r)
    <3>1. Works(r) /\ UNCHANGED <<platform, keyOwner>>
      BY <2>2, BrokenWorkStep DEF pushTables
    <3>2. CASE pc'[r] = "cut"
      BY <1>1, <2>2, <3>1, <3>2, BrokenQuiet, KeysQuiet
    <3>3. CASE pc'[r] # "cut"
      BY <2>2, <3>1, <3>3, BrokenWorkStep, GoesOnKeys
    <3> QED BY <3>2, <3>3
  <2>3. CASE ~Begins(r) /\ ~BrokenWork(r)
    <3>1. Works(r) /\ op[r] \notin TokenOps /\ UNCHANGED <<platform, keyOwner>>
      BY <1>3, <2>3, UserWorkStep, AgentWorkStep, ConversationWorkStep, NotifyWorkStep
         DEF Step, UserOps, AgentOps, TokenOps, MuteOps, pushVars, pushTables
    <3>2. Quiet(TokenOps)
      BY <3>1, WorksQuiet
    <3> QED BY <1>1, <3>1, <3>2, KeysQuiet
  <2> QED BY <2>1, <2>2, <2>3
<1> QED BY <1>2, <1>3

(* The keys of a Web Push subscription come and go with its device token,    *)
(* although push.go writes the two tables in two statements: where they      *)
(* differ, a request about the endpoint is between them, or one was cut      *)
(* short or went on after a failed statement and none has since run as a     *)
(* whole; or two overlapped, or the endpoint was used as a device token too, *)
(* or by another user.  A request between its statements has already written *)
(* the token the way its second statement will write the keys, unless its    *)
(* first one failed.                                                         *)
THEOREM KeysWithTokenHolds == Spec => []KeysWithToken
<1>1. Init => KeysInv
  <2> SUFFICES ASSUME Init, NEW u \in Users, NEW t \in Tokens PROVE Consistent(u, t)
    BY DEF KeysInv, Consistent, Settled
  <2>1. \A r \in Requests : ~Between(r, u, t)
    BY DEF Init, AccountInit, Between
  <2>2. keyOwner[t] # u /\ platform[u][t] # "web"
    <3>1. platform[u][t] = None /\ keyOwner[t] = None
      BY DEF Init
    <3>2. u # None /\ None # "web"
      BY DEF Platforms
    <3> QED BY <3>1, <3>2
  <2> QED BY <2>1, <2>2 DEF Consistent, Settled
<1>2. IInv /\ ConversationInv /\ KeysInv /\ [Next]_vars => KeysInv'
  <2> SUFFICES ASSUME IInv, ConversationInv, KeysInv, [Next]_vars PROVE KeysInv'
    OBVIOUS
  <2>1. CASE UNCHANGED vars
    <3> USE <2>1 DEF vars, accountVars, arguments, pushVars, pushTables
    <3>1. \A u \in Users, t \in Tokens : Calm(u, t)' <=> Calm(u, t)
      BY DEF Calm, About, Overlap
    <3>2. \A u \in Users, t \in Tokens, r \in Requests :
            (Between(r, u, t)' <=> Between(r, u, t)) /\ (Loose(r, u, t)' <=> Loose(r, u, t))
      BY DEF Between, Loose, Broken, Repaired, About
    <3> QED BY <3>1, <3>2 DEF KeysInv
  <2>2. CASE Next
    <3>1. PICK r \in Requests : Step(r)
      BY <2>2, NextIsStep
    <3> QED BY <3>1, StepKeys
  <2> QED BY <2>1, <2>2
<1>3. KeysInv => KeysWithToken
  <2> SUFFICES ASSUME KeysInv, NEW u \in Users, NEW t \in Tokens, Calm(u, t),
                      (keyOwner[t] = u) # (platform[u][t] = "web")
               PROVE  \E r \in Requests :
                        About(r, u, t) /\ (InFlight(r) \/ (Broken(r) /\ ~Repaired(r)))
    BY DEF KeysWithToken, Calm
  <2>1. PICK r \in Requests : Between(r, u, t) \/ Loose(r, u, t)
    BY DEF KeysInv
  <2> QED BY <2>1 DEF Between, Loose, InFlight, Ended
<1> QED BY <1>1, <1>2, <1>3, Invariance, PTL DEF Spec
=============================================================================
