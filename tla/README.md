# A TLA+ verification of the Agent Messenger server

Agent Messenger connects users and AI agents through one Go server (`src/server`).
Users and agents hold WebSocket connections; chat messages are stored in a
database, forwarded to the connected devices of the recipient, or kept in an
offline queue and replayed on the next connection. A REST interface works on
conversations, messages, reactions and keys. This directory models the parts of
the server where concurrency, failure and order decide whether it is right,
checks them with TLC on small instances and proves the most important facts for
instances of any size with TLAPS.

All paths below are relative to `src/server/` unless they say otherwise.

## 1. Inventory

| Component | State it keeps | Operations | Shares with |
|---|---|---|---|
| Hub (`hub.go`, connect handlers in `handlers.go`) | `agents` (one connection per agent), `clientConns` (one per device of a user), per connection a buffered `send` channel, `closed`, `lastHeartbeat` | register, unregister, replace, broadcast presence, SafeSend, Stop | everybody who sends: routers, replays, REST handlers |
| Heartbeat monitor (`hub.go:282-324`) | a ticker | collect stale agents, unregister them through the hub's channel | Hub |
| Routing (`routing.go`) | none of its own | check, store, look up, send to all devices, queue, acknowledge; typing, status, heartbeat | Hub, queue, database |
| Offline queue (`queue.go`, `queue_persist.go`) | `buffers` in memory, table `offline_queue` | Enqueue, Drain, persist, delete, load at start, hourly cleanup, replay on connect | routers, connect handlers |
| Database pool (`dbdriver.go`) | connections in use | every query and statement; SQLite gets one connection, PostgreSQL 25 | all of the above |
| Conversations, messages, reactions, tags, preferences, attachments (`conversations.go`, `messages_edit_delete.go`, `reactions.go`, `tags.go`, `notif_prefs.go`, `attachments.go`) | the tables of these names, files in the upload directory | send, edit, soft delete, toggle reaction, tag, mute, upload, mark read, delete conversation, history, search | devices through the Hub |
| Encryption (`e2e.go`) | tables `key_bundles`, `encrypted_messages` | upload keys, hand out a bundle and consume a one-time key, store and list ciphertexts | conversations |
| Rate limits (`middleware.go`, `auth.go`, `rate_limit_tiers.go`) | windows per connection, user, agent and address; tiers in memory and in the database | Allow, SetTier, cleanup, load and persist | REST handlers, routers |
| Accounts (`handlers.go`, `auth.go`, `conversations.go`, `cmd/am-admin`) | tables `users`, `agents`, `conversations` | register, register on connect, change password, create conversation; create and delete from the command line | everything that refers to them |
| Push (`push.go`, `notif_prefs.go`) | tables `device_tokens`, `web_push_subscriptions`, `notification_preferences` | register, unregister, subscribe, unsubscribe, mute, notify | routers start a notification for every message |
| Schema (`main.go:378-528`, `dbdriver.go`, `cmd/am-migrate`) | the tables themselves, `schema_migrations` | create and repair at every start; migrate up and down | two programs on one database file |
| CSRF, CORS, protocol negotiation, presence queries, profiles, metrics, logging, tracing | counters | none that another part reads back | |
| Clients: SDKs (`src/sdk`), OpenClaw plugin (`src/plugins`), web, Linux and mobile | connection state, backoff | connect, reconnect, send | the server |

What is hard about it:

* **One goroutine behind two unbuffered channels.** `run()` owns the registries;
  connect handlers, read pumps and the monitor rendezvous with it. A replaced
  connection unregisters long after its successor registered, `run()` closes
  channels without looking whether they are closed, and after `Stop` nobody
  receives any more.
* **Delivery is a sequence of unlocked steps.** Store, look up, send, enqueue and
  persist on one side; drain, delete rows and send on the other; a crash anywhere.
* **No transactions.** Every REST handler reads, decides, writes and tells the
  devices in separate statements. Only constraints of the schema hold across them.
* **Several programs on one database.** The server, `am-migrate` and `am-admin`
  write the same SQLite file, the last two without foreign keys, and any of them
  may be killed between two statements.
* **Nested queries on a small pool.** Reading a history holds a pooled connection
  while it asks for another one for every row.

What makes each component correct: the hub never panics, its registries hold exactly
the open connections, clients are told the truth about agents, and closed or
silent connections go away; a message is in one place, delivered once per session
and in order, and survives a restart; a restart is invisible to the queue; every
request gets a database connection in the end; deleting leaves nothing behind and
devices know what the database has; a one-time key is used once and a bundle holds
current keys; a limit is kept, in memory as in the database, and a user who waits as
told is let through; a message flood is held without locking the sender out for
ever; what is recorded as migrated is there and a start repairs the rest; users get
the conversation they asked for; what is turned off is not pushed to.

## 2. Modules

| Module | Models | Composes with |
|---|---|---|
| `Hub` | `hub.go` 61-588, connect handlers, `routeHeartbeat`, `routeStatusUpdate` | |
| `HubProofs` | theorems about `Hub` | extends `Hub` |
| `MessageFate` | the promise of delivery: the life cycle of a message | |
| `Delivery` | `routeChatMessage`, queue, persistence, replay, crash and restart, over a registry reduced to what a router sees of `Hub` | implements `MessageFate` |
| `DeliveryProofs` | theorems about `Delivery`, and that it implements `MessageFate` | extends `Delivery` |
| `OfflineQueue` | the queue over time: length limit, time-to-live, failing statements, cleanup, restart | the same queue as in `Delivery`, with the clock |
| `OfflineQueueProofs` | theorems about `OfflineQueue` | extends `OfflineQueue` |
| `DbPool` | who holds and who waits for pooled connections | |
| `Conversation` | the REST handlers on one conversation, statement by statement, and the schema's constraints | |
| `ConversationProofs` | theorems about `Conversation` | extends `Conversation` |
| `KeyBundles` | uploading keys and fetching bundles (`e2e.go` 44-188), with failing statements and crashes | |
| `KeyBundlesProofs` | theorems about `KeyBundles` | extends `KeyBundles` |
| `TierLimit` | the tiered limiter of one user over time (`rate_limit_tiers.go`) | |
| `RateLimits` | the limiters in memory, for one id over unbounded time (`middleware.go` 38-190, `auth.go` 98-128) | |
| `LimitsProofs` | theorems about both kinds of limiters | extends `RateLimits` and `TierLimit` |
| `Accounts` | writers of users, agents and conversations, `am-admin` included | |
| `Push` | tokens, subscriptions, muting and notifications | extends `Accounts`, and the specification of both |
| `PushProofs` | theorems about `Accounts` and `Push` | extends `Push` |
| `Schema` | `initSchema` and `am-migrate up` and `down`, statement by statement | |
| `DatabaseProofs` | theorems about the schema and about the pool | extends `Schema` and `DbPool` |
| `MC*` | symmetry and constraints for TLC | extend the modules above |

Definitions marked "Defect:" are not part of the models. Each is the form that the
definition after it would have with a plausible mistake in it; replacing the one
by the other must break the property `PROJECT.json` pairs it with.

### Hub

A rendezvous on `register` or `unregister` and the work `run()` does afterwards
under `h.mu` are two steps (`HubRecvRegister`, then `HubRegisterAgent` or
`HubRegisterClient`), because the sender runs on in between. `MarkClosed` and
`close(send)` are made together under `h.mu` and are the one flag `closed`;
closing it again sets `panicked`. The send channel is a count up to `BufCap`
and, since it is FIFO, what a client comes to believe about an agent is the last
presence event that went in: `heard`. `lost` marks agents whose latest event was
dropped on a full buffer. Pumps are `reader` and `writer`: a read fails when the
socket is closed, a write may fail at any time. `HeartbeatExpires` stands for time
passing; the monitor first collects (`MonitorTick`) and then sends one by one
(`HubRecvStale`), as the code does. An agent's status message is several steps of its
read pump: `SetAgentStatus`, `BroadcastStatus` and, when it names a conversation,
`LookUpDevices` and one `NotifyDevice` per device of the user (`EmptyStatus` goes
straight to these). `announcing`, `telling` and `recipients` hold what is still to be
done; the conversation may be anybody's, as the code does not compare its agent with
the sender. `crossed` marks the agents of which a connection that was not the
registered one had a part in what was said, so that clients may have heard two
announcements in the other order. An event with an empty status takes room in a
buffer and is no statement about the agent. What a client's status message sends to
an agent is `SendTo`.

### Delivery and OfflineQueue

`Delivery` has one goroutine per message (`phase`), one replay per connection
(`replay`, `batch`), the queue in memory and its rows. Each lock region and each
database call is a step. Which device a connection comes from, and with it which
one it replaces, and the length of the queue are chosen in the initial state. `trimmed` and `abandoned` record where messages go that
the code drops on purpose, so that `InExactlyOnePlace` can account for all of
them.

`OfflineQueue` has the clock, and of the concurrency what touches memory and rows:
`Enqueue` and a router's `PersistQueue`, `Drain` and a replay's
`DeleteQueueMessages` are steps of their own, either statement may fail
(`PersistFails`, `DeleteFails`), a restart may come between any two of them and may
fail to read any of the rows. `inserting` are the routers between the two, in the
order of `Enqueue`, `deleting` counts such replays. `delivered` is what drains have
returned, repeats included; what becomes of it in the replay is for `Delivery`.
Two history variables carry the exceptions: `astray` are messages whose row may come
behind a younger one's, or outlived its DELETE, and `dirty` says that since memory
and rows last agreed a statement failed or steps of two requests crossed.

`MessageFate` is what a sender can rely on: a message is refused or stored, a
stored one is delivered or waits, one that waits is delivered or dropped, and
nothing else happens to it while the process runs. Only a crash may lose a
message or make a delivered one wait again, which is when `offline_queue` still
has its row. The refinement mapping `Fate` of `Delivery` reads the fate off the
queue, the batches of the replays, what was sent and the router's place; while
the process is down, what waits is what the next start will load.

### DbPool

`database/sql` is external: a request takes a free connection or waits for one
with no deadline. A history request holds one connection in its rows loop
and waits for a second one for each row.

### Conversation

`op`, `msg` and `pc` are a request and its next statement. A statement is
atomic, a handler is not. Foreign keys are guards: `Referenced` (conversation of
a message), `Attached` (message of an attachment), `Present` (message of a
reaction); deleting messages takes reactions with it, deletes no attachment and
no encrypted message, and so may fail; tags and preferences go with the
conversation. An upload writes to `disk` and then to `stored`, and takes its
file back when the row is refused. `view` and `told` are what a device last
heard; `raced` is a history variable: messages to which a request wrote while
another one was at work on them.

### KeyBundles

A row is named by the request that stored it. Every statement may fail
(`Fails`), which the handlers take for "no such row" or ignore, and a crash cuts
the requests in flight. `before` is the real-time order of requests: a pair is
in it when the first had ended as the second began. Properties are about what
requests that do not overlap owe to one another; `Disorderly` says that uploads
of an identity key did overlap, or that one of them had a statement fail.

### TierLimit

Every method of the limiter is a step, changing the tier and storing it are two.
Time is counted in ticks and `Second` of them are a second, so that rounding to
seconds loses something. `passed` and `promise` record what was let through and
when the last Retry-After is over; `excused` becomes true when two changes
overlap, one is not stored, or the cleanup removes an entry with a tier. A restart
loads the row (`Restart`) or fails to, which main ignores (`RestartLoadFails`): the
first makes `excused` false, the second true.

### RateLimits

A counter is a count and the age of its window; both stop where they make no
difference any more, so time has no end and the state space is finite.
`ConnCheck` and `UserCheck` are the two halves of `checkRateLimit`, with
`between` pumps in between. `recent` and `tries` are how long ago each of the last
ones was let through, two limits and one more of them. `straddled` is set when the window per user begins while other
messages are between their checks: they may have been counted by an earlier
window of the first limiter, and then the second can indeed run full.

### Accounts and Push

Requests and rows are treated as in `KeyBundles`: a row is named by the request
that wrote it, `before` is the real-time order. `am-admin` commands are requests
too. `created_at` counts seconds, so of two conversations of one second either
may be the newest. In `Push`, `platform` is the table `device_tokens` and
`keyOwner` is `web_push_subscriptions`, whose endpoint is unique over all users.
`Cut` ends a request at any point: the process dies, or a statement fails and the
handler returns. Where a handler goes on after a failure, this is an action of its
own, and `failed` remembers the request: the keys of a subscription (`push.go:466-483`,
"non-fatal"), both statements of an unsubscription (521-522), the deletion of a
preference (`notif_prefs.go:110`), and the check for muting, which answers "not
muted" (118-131). `KeysWithToken` allows for such a request only until a later one
about the endpoint has run as a whole; `OffStaysOff` allows for a check that failed.

### Schema

`tables` are the tables that exist and `parts` those of their columns and foreign
key actions that were added later or that the two programs define differently.
`UpSQL`, `DownSQL`, `SqliteSchema` and `InlineMigrations` are the lists of
statements in the code. A program is a position: a list, for `up` and `down` the
version it belongs to and the target, and a line in it. Line 0 of `up` and `down`
is the read of `MAX(version)`, which fixes the version they begin with; the line
after `SqliteSchema` is the count of `schema_migrations`, the one after
`InlineMigrations` the end of `initSchema`. `After` is the loop over statements and
versions. `clash` says that a rollback overlapped with another
program, `cut` that a rollback or a start was killed and no start has completed
since.

## 3. Runs

| Run | Shows |
|---|---|
| `hub_safety` | three connections of an agent and a user, registering, replacing each other, failing and changing status in every order before `Stop`, what is sent to agents left out by a constraint: `NoDoubleClose`, `RegistryMatchesOpen`, `PresenceTruth`, `OfflineForCause` |
| `hub_live` | two connections of an agent with monitoring and `Stop` at any time: `SilentAgentIsDropped`, `ClosedIsTornDown`, `StopWaitsOnlyForMonitor` |
| `delivery` | two messages, two connections of the same or of two devices, full buffers and queues, failing writes and a crash: `InExactlyOnePlace`, `ReplayInOrder`, `ReplayedOnReconnect`, and `KeepsPromise`, the refinement of `MessageFate` |
| `offline_queue` | three messages, a queue of two, three ticks of time, routers and replays that cross, failing statements, restarts: `RestartIsTransparent`, `LateOnlyAfterRestart`, `DeliveredInOrder` |
| `db_pool` | two history requests and another one on three connections: `NeverStuck`, `HistoryReturns` |
| `db_pool_sqlite` | expected violation of `HistoryReturns`, see 6 |
| `conversation` | three concurrent requests of any kind on two messages and an attachment: `NothingLeftBehind`, `AttachmentIsWhole`, `ReadCountedOnce`, `DeletedTextOnlyByRace`, `DevicesUpToDate` |
| `key_bundles` | three requests of any kind after a first identity key, one with failing statements, and crashes: `OneTimeKeyOnce`, `OneIdentity`, `IdentityStays`, `BundleIsCurrent` |
| `tier_limit` | six requests of a user in eight ticks, two changes of tier, cleanups and restarts: `AtMostTwoBursts`, `RetryIsHonest`, `TierMatchesRow` |
| `rate_limits` | messages on several connections and attempts to connect, for ever: `UserLimitIdle`, `BurstBound`, `GetsThrough` |
| `accounts_push` | three requests of any kind about users, agents, conversations, tokens and notifications: `SameConversation`, `ConversationHasAgent`, `ConnectIsStored`, `ChangeKnowsPassword`, `OffStaysOff`, `KeysWithToken` |
| `schema` | the server and two `am-migrate` on an empty database or one of an old release, killed anywhere: `NoGaps`, `RecordedIsThere`, `StartRepairs` |

Type invariants are part of the modules and of the inductive invariants; they are
not listed with the runs.

**Bounds.** Three connections are what replacement needs: the one replaced, the
one that replaces it and a client that listens; in `hub_live` two, because liveness
needs no listener. A buffer of one is full after the first event, so dropping and
keeping both happen. In `Delivery` one message can be replayed while another is
routed or queued; a queue of one drops the older of two messages, a queue of two
keeps an order, and a buffer of one is full after a message. `MaxCrashes` 1 covers a crash between any two steps. In `OfflineQueue` a
time-to-live of one tick and three ticks let a message expire, be reloaded and be
handed out late; rows that outlive their DELETE can be handed out for ever, and
a behaviour ends once more than three messages (`MaxDelivered`) were. In `Conversation` three requests are two that race and one before or
after them, or a conversation being deleted under two writers. In `KeyBundles` three
requests are a key and two bundles that may share it, or two keys and a bundle that
must choose. In `TierLimit` a window of three ticks and a second of two are out of
step, and eight ticks are two windows and a cleanup. In `RateLimits` limits of two
and four, as one to two as in the code, let bursts of two windows add up. In
`Accounts` and `Push` three requests are two that race and one before or after them,
or a broken one, one that repairs and a third; one request is broken, by a constraint
of the run (the theorems are about any number).
In `Schema` a bound on the programs started lets a killed one be followed by a
migration and a start; targets 0, 3 and 8 are the ends and a version in between.
Queues are keyed
by recipient and constraints by conversation, so one of each is enough.
Symmetry is used in safety runs only. Runs say `CHECK_DEADLOCK FALSE` where the
system may stop: connections, messages and requests are used up, and a stopped hub
does nothing. `db_pool` and `rate_limits` have no end and check for deadlock.

**Fairness.** Weak fairness of goroutines that can take a step: the Go scheduler
runs them. `Hub` assumes nothing about which case `select` picks, and nothing of
the environment: connects, peers, heartbeats and the call of `Stop` may never
happen; a read on a closed socket fails, and a write pump with something to do
writes, fails or closes, because every write has a deadline (`hub.go:555-587`).
`Delivery` assumes that routers and replays that have begun go on. `DbPool`
assumes strong fairness of getting a connection: `database/sql` hands one that is
returned to some waiting query, in no documented order, and a query that is passed
over again and again gets its turn. `RateLimits` assumes that time passes and
that a pump between its two checks goes on; that the id keeps sending and trying to
connect is the hypothesis of `GetsThrough`, which is about a client that never stops.

## 4. Proofs

TLAPS proves, for all sets of connections, agents, users, devices and all buffer
capacities (`HubProofs`):

* `TypeOKHolds`, `NoDoubleCloseHolds`, `RegistryMatchesOpenHolds`,
  `OneConnPerDeviceHolds`, `OfflineForCauseHolds`, `PresenceTruthHolds`.

The assumptions are that agents and users have different identities, that `None`
and `NoDevice` are not values of their own sets, and that a buffer has room for
one event. The inductive invariant is `HubInv`, made of `TypeInv` (types, and
`run()` holds a connection while it is in a body), `OwnerInv` (a connection is
in a registry only under its own identity and after the hub took it in) and
`OpenInv`. The last is the point: `run()` closes a replaced connection without
looking, which is safe because a registered connection is always open; that is
inductive only together with the fact that the connection being registered is
open and in no registry yet. `PresenceInv` adds that a connection not yet
registered has heard nothing, that copied device lists hold registered or dropped connections,
and that what the current connection of an agent has yet to announce or to tell is
what it has set; `CauseInv` that without monitoring only a read
pump that has ended unregisters.

For any number of messages, connections and crashes, all buffer capacities and
queue lengths of at least one (`DeliveryProofs`):

* `KeepsPromiseHolds`: `Delivery` implements `MessageFate` under the mapping
  `Fate`. The inductive invariant is `IInv`. `RoutedInv` says that a message the
  router has not queued is in no queue, batch or row, so that sending it is not a
  second delivery, and that `hit` tells whether it was sent. `BatchInv` says that a
  replay holds nothing outside of its sending, so that a drain overwrites nothing.
  `AccountedInv` says that a message with a row waits, was sent or was dropped:
  without it a crash could bring back a message that was already lost. Then one
  lemma per action shows what it does to the fate of every message; for Enqueue
  that is where the message just queued is kept (`NewestAppend`) and only ones
  that waited make room for it. `TypesHold` comes with it.
* `ReplayInOrderHolds`, from `ReplayInv`. `LogInv` says that nothing is queued or
  stored twice; `OrderInv` that the queue, each batch and what each connection
  was sent are in the order of queueing, and that what a connection was sent
  precedes what its replay still holds. The second half is what makes it
  inductive, and it needs `SentInv`: before its drain a connection was sent
  nothing that had been queued.
* `InExactlyOnePlaceHolds`, from `PlaceInv`: until a crash, a message is in at
  most one of the queue, a replay, a connection and the dropped ones. It is
  inductive because no two replays hold the same message.

For any number of messages, routers and replays, any length limit and time-to-live
(`OfflineQueueProofs`), with the inductive invariant `QueueInv`:

* `DeliveredInOrderHolds` and `LateOnlyAfterRestartHolds`. `OrderInv` says that
  queue, rows and what was delivered are in the order of queueing, but for messages
  astray that come late, and that what waits is not older than what was delivered;
  for the rows that holds only when no DELETE is still to come, and a DELETE that
  fails or never comes makes them astray. A message whose row is still to come is
  the youngest of all or astray, which is what lets its row be appended. The rows
  are part of the invariant because a restart makes them the queue. `QueuedInv` says
  that an entry has the time at which its message was queued, or was loaded.
* `RestartIsTransparentHolds`, from `TailInv`: while nothing is dirty, the queue and
  the rows followed by those still to come agree from the end, as far back as a
  queue goes, on what has not expired. "Has not expired" is needed: a drain that
  finds only expired messages empties the queue and leaves the rows, and a cleanup
  does the opposite. Between a drain and its DELETE the queue is empty instead.
  Order (`Ordered`, `Behind`) and agreement (`Agree`) are operators on sequences
  with lemmas about appending, trimming and dropping. What the loop of `Kept`
  computes (`KeptSub`, `KeptDrops`) is shown by induction on its counter, which the
  provers take in the form that a nonempty set of naturals has a least element
  (`MinNat`); the library's induction theorems they cannot apply.

For any number of messages, attachments and concurrent requests
(`ConversationProofs`):

* `NothingLeftBehindHolds` and `AttachmentHasMessageHolds`, from `RefInv`, one
  conjunct per foreign key. `ReactionHasMessage` is the strengthening: an empty
  `messages` table means an empty `reactions` table when the row of the
  conversation goes.
* `AttachmentHasFileHolds` and the action property `AttachmentStaysHolds`, from
  `FileInv`: an id of an attachment is uploaded by one request, has its file
  before its row, and without a row has no message.
* `ReadCountedOnceHolds`, from the cardinality of disjoint finite sets; it is
  why the messages of the agent are assumed to be finitely many.
* `DeletedTextOnlyByRaceHolds`, from `RaceInv`: an edit between its check and
  its write is at a message that is not deleted unless the deletion overlapped
  it (`EditChecked`), and a deleted id is never stored again because a message
  has one sender who inserts once (`SentOnce`).
* `DevicesUpToDateHolds`, from `DeviceInv`: for a message of which no two requests
  overlapped, the text in the database is the one every request about to tell
  the devices will tell (`TextAt`), a toggle about to tell has changed the
  reaction as it decided when it read it (`ReactionAt`, `FoundInv`), and nobody
  works on a message that is still to be sent (`UnsentInv`).

For any number of requests and faults (`KeyBundlesProofs`):

* `OneTimeKeyOnceHolds` and `KeysAccountedHolds`. The strengthening is
  `ConsumedInv`: the key in a bundle that was answered without a fault is not in
  the table; with `GotInv` (it was stored by an upload that has ended, and so is
  not stored again) no later request finds it.
* `OneIdentityHolds`, from `ReplaceInv`: an orderly upload that is about to
  delete has read the only identity key, and one that is about to insert finds
  none. It rests on `InFlightOverlap` (two requests in flight overlap) and
  `DisorderlyStays`.
* `BundleIsCurrentHolds`, from `CurrentInv`. `StampInv` gives signed keys of
  uploads that do not overlap increasing times, because the time is at most the
  number of uploads that have asked for it; `SignedInv` keeps them in the table,
  and `IdentityInv` says that a replaced identity key is gone.
* `IdentityStaysHolds` and `TypeOKHolds`.

For all tiers, windows, units of time and numbers of administrators
(`LimitsProofs`):

* `RetryIsHonestHolds`, from `PromiseInv`: after a refusal the entry is gone, or
  its window ends before the promised time, or it has room. `RoundedUp` is the
  arithmetic.
* `TierMatchesRowHolds`, from `AgreeInv`: without an excuse one change at most
  is under way, and it has set the limiter to what it is about to store.
* `AtMostTwoBurstsHolds`, from `TierBurstInv`, which places each request let through:
  not after the end of the present window; the ones before those it counted,
  before its beginning; the ones before a tier more, before the beginning of the
  window before it.
* `TierTypeOKHolds`: a window never ends later than one window from now.

For all limits of which the one per user is at least twice the other, all window
lengths and numbers of connections (`LimitsProofs`):

* `UserLimitIdleHolds`, from `LimitInv`. The strengthening relates the two
  limiters: what the user's window has counted fits into the current window of
  the first limiter and one that ended since the user's window began.
* `BurstBoundHolds` for both kinds of limiter, from `BurstInv`: beyond what the
  present window counted, everything let through is older than that window;
  beyond a limit more, it is older than the length of a window.

For any requests, users, agents, passwords and tokens (`PushProofs`). `IInv` has
the types, the arguments a request keeps and the real-time order; each property
adds what its handler knows between two statements:

* `SameConversationHolds`, from `ConversationInv`: two conversations of a user with
  an agent were made by requests that overlap, one about to insert has found
  none of a request before it, and of those there are one is the newest.
* `ConversationHasAgentHolds`, from `AgentInv`: an agent that has a conversation
  is missing only when `am-admin` has deleted it.
* `ChangeKnowsPasswordHolds`, from `PasswordInv`: the password that was compared
  is the one in the table unless another change overlapped.
* `ConnectIsStoredHolds`, from `ConnectInv`: of an agent that connects, the fields
  before the present UPDATE have its values, unless another writer of the agent
  overlapped.
* `OffStaysOffHolds`, from `OffInv`: after an unregistration or a muting that was
  answered, the token or the sending is back only with a request that did not
  precede it; this has to hold of what a notification has already read, too. A
  notification whose check failed is excepted.
* `KeysWithTokenHolds`, from `KeysInv`: for one who only subscribes and
  unsubscribes and shares the endpoint with nobody, the token and its keys are
  there together, except between the two statements of such a request, and after
  one that was cut short or had a statement fail, until another has run as a whole.

For any number of invocations of `am-migrate` beside the server, any targets and any
number of programs started and killed (`DatabaseProofs`); the assumption is that
targets are versions or 0:

* `NoGapsHolds`, from `GapInv`: without a clash everything below the version that an
  `up` or a first start is about to record is recorded, and the version that a
  rollback is about to unrecord is the highest.
* `RecordedIsThereHolds`, from `UpInv` (an `up` has executed the statements before
  its line) and `ThereInv`: what is recorded and not there is being made by a start
  or undone by a rollback, which without a clash is alone (`AloneInv`).
* `StartRepairsHolds`, from `StartInv` (a start no rollback disturbs has executed the
  statements before its line) and `RepairInv`.

Three facts about the lists carry these: a rollback of a version drops no table of
an earlier one (`DropsOwn`), the server alters only tables it has just created
(`AltersOwn`), and once the server's statements are done those of `am-migrate` are
(`ServerDefines`). `ExecuteEffects` reduces the execution of a statement to seven
kinds of steps, and the invariants are shown of those.

For any number of requests and any size of the pool (`DatabaseProofs`):

* `PoolBoundHolds`: no more connections are in use than the pool allows.
* `NeverStuckHolds`, by counting: the history requests that hold a connection are
  fewer than there are connections, so one is free as long as nobody else holds any.

**Only model-checked:** liveness (`hub_live`, `ReplayedOnReconnect`, `GetsThrough`,
`HistoryReturns`), which is out of the prover's reach under fairness. Every
invariant and every other action property of the runs is a theorem.

## 5. Not modelled

Text and formats (JSON, wording of errors, headers), metrics, logs, traces,
cryptography, the contents of files, outgoing push requests, user interfaces and
deployment; they keep no state that another part reads back, or are pure input
and output. Failures of the database other than constraint violations are
modelled for the offline queue, delivery, key bundles, tiers, accounts and push; in
`Conversation` a request may stop before any of its statements, as nothing forces
its next step. `Schema` is about
SQLite; `am-migrate` does not know PostgreSQL. Typing indicators (`routing.go`
251-303) are forwarded and forgotten. In `Conversation` requests of
strangers are left out: they are refused and change nothing. `PROJECT.json`
lists every component with its status.

## 6. Where the code and what is said of it differ

Shown by a run:

* `db_pool_sqlite`: with SQLite's single connection (`dbdriver.go:70`), asking
  for the history of a conversation with a message waits for itself
  (`conversations.go:171`), and with it everything that needs the database.

Seen while modelling, without a run of their own:

* `checkStaleAgents` sends to `unregister` without watching `h.done`
  (`hub.go:322`). When `run()` has exited, the monitor blocks and `Stop`, which
  "waits for all goroutines to exit" (`hub.go:266`), never returns.
  `StopWaitsOnlyForMonitor` shows that nothing else can hold it up.
* A message queued between the drain of a replay and its delete loses its row
  (`queue.go:147`) and would be lost in a restart, although the rows are there so
  that such messages "are not lost" (`queue_persist.go:40`). `KeepsPromise` shows
  that without a crash it is not, and `RestartIsTransparent` excepts it (`dirty`).
* Messages that a process drained but whose DELETE it did not reach, or whose DELETE
  failed, are replayed again after the next start, possibly behind younger ones
  (`queue.go:141-147`), and two routers may insert their rows in the other order
  (`routing.go:183-184`): "returning them in order" (`queue.go:66`) holds of one
  drain of one process. `DeliveredInOrder` says that nothing else is out of order.
* "This prevents a user from circumventing per-connection limits by reconnecting"
  (`middleware.go:154`): the limit per connection goes by the same id and is half
  as large, so the limit per user is never met; `UserLimitIdle` says so, but for
  windows that begin between two checks. No route uses `ipRateLimitMiddleware`.
* `main.go:389` says that the inline path "does not record individual versions";
  it records all eight when `schema_migrations` is empty, before it creates them.
* The DownSQL of version 7 is a comment with a semicolon in it, and what follows
  the semicolon is executed as a statement, which fails and is logged
  (`cmd/am-migrate/main.go:429-437`).
* On a database that `am-migrate` or an old release created, `agents` has no
  `status` column and deleting a message does not cascade; no start adds them
  (`StartRepairs` excepts them).
* Two first requests at the same time create two conversations of a user and an
  agent (`conversations.go:317`); later ones get the newer of them.
* A replay whose connection closes or fills up drops the rest of what it drained
  (`queue.go:164`, `abandoned` in `Delivery`), although "Offline messages are
  queued and replayed on reconnect" (`src/CONTRIBUTING.md:339`). They stay in
  the history.
* An edit that crosses a deletion gives the deleted message a text again
  (`messages_edit_delete.go:66`); `DeletedTextOnlyByRace` says that nothing else
  does. The comment at 167 speaks of blank content.
* "One identity key per owner" (`e2e.go:84`) and "single-use" (`e2e.go:15`) hold
  for requests that do not overlap, which is what `OneIdentity` and
  `OneTimeKeyOnce` say.
* With SQLite agents cannot upload keys: `key_bundles.owner_id` refers to
  `users` (`dbdriver.go:188`).
* `main.go:364` says that `hub.Stop` "closes all WebSocket connections"; it
  closes none.
* `src/SECURITY.md:59` promises no duplicate connections per user; clients that
  send no `device_id` are never replaced (`hub.go:187`).
* A heartbeat that arrives after the monitor collected its agent does not save
  it (`hub.go:312` and `322`).
* `queue.go:43` says `Enqueue` is called when the recipient is not connected; it
  may have connected since the lookup, and the message then waits for its next
  connection.
* A restart gives a queued message a new time-to-live (`queue_persist.go:61`).
* A sender is told "delivered" also when the message was queued
  (`routing.go:243`).
* `reactions.go:21` speaks of one reaction per message; the key is one per
  emoji.
* A user's tier is forgotten ten minutes after his last window
  (`rate_limit_tiers.go:190`), until the next start; it is one of the excuses of
  `TierMatchesRow`.
* Limits called per connection go by user id (`middleware.go:162`), so all
  devices of a user share them.

## 7. Plan

Done: `Hub` with status, `Delivery` and the refinement of `MessageFate`,
`OfflineQueue`, `DbPool`, `Conversation`, `KeyBundles`, `TierLimit`, `RateLimits`,
`Accounts`, `Push`, `Schema`, and the proofs of section 4, which state every
invariant of the runs. Left:

1. That the registry `Delivery` works on is implemented by `Hub`.
2. `ClientReconnect`: the reconnecting client of the SDKs against the server.
