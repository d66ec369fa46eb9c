-------------------------------- MODULE Hub --------------------------------
(***************************************************************************)
(* The connection hub of the server (server/hub.go and the two WebSocket   *)
(* connect handlers of server/handlers.go).                                *)
(*                                                                         *)
(* One goroutine, run(), owns the two registries: agents (one connection   *)
(* per agent) and clientConns (one connection per device of a user).  It   *)
(* is fed through two unbuffered channels, register and unregister, by the *)
(* connect handlers, by the read pump of every connection and by the       *)
(* heartbeat monitor.  Every connection has a read pump, a write pump and  *)
(* a buffered send channel that the hub closes exactly when it drops the   *)
(* connection.                                                             *)
(*                                                                         *)
(* A rendezvous on a channel and the work run() does under h.mu afterwards *)
(* are two steps: between them the sender is already running again.        *)
(* MarkClosed and close(send) happen together under h.mu and are the one   *)
(* flag closed.  The send channel is abstracted to the number of buffered  *)
(* events; since it is FIFO, what a client ends up believing about an      *)
(* agent is the last presence event that entered the channel, kept in      *)
(* heard.  lost marks the agents whose latest event SafeSend dropped on a  *)
(* full buffer.  Order inside a user's device list is not observable (the  *)
(* code removes "without preserving order"), so the list is a set.         *)
(* The channel h.broadcast has no sender in the program and is left out,   *)
(* and so are counters for metrics.                                        *)
(***************************************************************************)
EXTENDS Naturals, FiniteSets

CONSTANTS Conns,             \* connection objects; each is created at most once
          Agents, Users,     \* identities that connect
          Devices, NoDevice, \* device_id values; NoDevice is the empty one
          None,              \* the nil connection
          BufCap,            \* capacity of the send channel (256)
          Statuses,          \* what agents say of themselves (idle, busy, ...),
                             \* with "unset" when they send an empty status too
          HeartbeatEnabled   \* AGENT_HEARTBEAT_ENABLED

ASSUME IdentityAssumption ==
  /\ Agents \cap Users = {}
  /\ None \notin Conns \cup Agents \cup Users
  /\ NoDevice \notin Devices

ASSUME BufCapAssumption == BufCap \in Nat \ {0}

\* "unknown" marks a client that was told nothing and "nothing" a read pump that
\* has nothing to tell.
ASSUME StatusAssumption == {"unknown", "nothing"} \cap Statuses = {}

ASSUME HeartbeatAssumption == HeartbeatEnabled \in BOOLEAN

VARIABLES
  owner, device,  \* conn.id (its set tells connType) and conn.deviceID
  handler,        \* the HTTP handler that serves the connection
  reader, writer, \* its read pump and write pump
  socket,         \* the WebSocket is open
  closed,         \* MarkClosed was called and send is closed
  pending,        \* events buffered in send
  silent,         \* registered agents whose lastHeartbeat is too old
  agents, clientConns,
  runPc, runConn, \* the run goroutine: where it is, the connection it holds
  done, runDone,  \* the channels h.done and h.runDone are closed
  monitor, stale, \* the heartbeat monitor and the connections it has yet to send
  stop,           \* the caller of Stop
  panicked,       \* a closed channel was closed again
  heard, lost,    \* what the events queued for a client say about each agent
  status,         \* conn.status of the connection registered for an agent
  announcing,     \* the status a read pump has set and has yet to broadcast
  telling,        \* ... and the one it has yet to tell the user of the
                  \* conversation that the status message names
  recipients,     \* the devices of that user it has yet to tell
  crossed         \* agents with a status update from a connection while it
                  \* was not the registered one

connVars == <<owner, device, handler, reader, writer, socket>>
sendVars == <<closed, pending, panicked, heard, lost>>
registryVars == <<agents, clientConns>>
runVars == <<runPc, runConn>>
stopVars == <<done, runDone, stop>>
monitorVars == <<monitor, stale>>
statusVars == <<status, announcing, telling, recipients, crossed>>
vars == <<connVars, sendVars, registryVars, runVars, stopVars, monitorVars, silent,
          statusVars>>

-----------------------------------------------------------------------------

IsAgent(c) == owner[c] \in Agents

\* The read pump is not in the middle of a status message.
Idle(c) == announcing[c] = "unset" /\ telling[c] = "nothing"

\* Every connection BroadcastToAllClients and broadcastPresence reach.
ClientListeners == UNION {clientConns[u] : u \in Users}

\* Every connection in one of the two registries.
Registered == ClientListeners \cup ({agents[a] : a \in Agents} \ {None})

\* The hub has taken the connection from the register channel.
Accepted(c) == handler[c] = "accepted"

\* The connections whose registration run() has carried out.
Settled(c) == Accepted(c) /\ ~(runPc = "register" /\ runConn = c)

\* newHub, with the goroutine that main starts for run() still to begin.
Init ==
  /\ owner = [c \in Conns |-> None]
  /\ device = [c \in Conns |-> NoDevice]
  /\ handler = [c \in Conns |-> "idle"]
  /\ reader = [c \in Conns |-> "off"]
  /\ writer = [c \in Conns |-> "off"]
  /\ socket = [c \in Conns |-> FALSE]
  /\ closed = [c \in Conns |-> FALSE]
  /\ pending = [c \in Conns |-> 0]
  /\ silent = {}
  /\ agents = [a \in Agents |-> None]
  /\ clientConns = [u \in Users |-> {}]
  /\ runPc = "off"
  /\ runConn = None
  /\ done = FALSE
  /\ runDone = FALSE
  /\ monitor = IF HeartbeatEnabled THEN "waiting" ELSE "exited"
  /\ stale = {}
  /\ stop = "no"
  /\ panicked = FALSE
  /\ heard = [c \in Conns |-> [a \in Agents |-> "unknown"]]
  /\ lost = [c \in Conns |-> {}]
  /\ status = [a \in Agents |-> "unset"]
  /\ announcing = [c \in Conns |-> "unset"]
  /\ telling = [c \in Conns |-> "nothing"]
  /\ recipients = [c \in Conns |-> {}]
  /\ crossed = {}

\* AgentStatus(a), which the agent listing shows.
AgentStatus(a) ==
  IF agents[a] = None THEN "offline"
  ELSE IF status[a] = "unset" THEN "online" ELSE status[a]

-----------------------------------------------------------------------------
(* Sending.  SafeSend checks closed and then tries the channel without      *)
(* blocking; a close between the two makes it panic and recover, with the   *)
(* outcome of a check made after the close.  It is therefore one step.      *)

SafeSendOK(c) == ~closed[c] /\ pending[c] < BufCap

SafeSend(c) ==
  pending' = IF SafeSendOK(c) THEN [pending EXCEPT ![c] = @ + 1] ELSE pending

\* broadcastPresence and BroadcastToAllClients: an event about agent a to every
\* registered client connection, under h.mu.
Broadcast(a, word) ==
  /\ pending' = [c \in Conns |->
       IF c \in ClientListeners /\ SafeSendOK(c) THEN pending[c] + 1 ELSE pending[c]]
  /\ heard' = [c \in Conns |->
       IF c \in ClientListeners /\ SafeSendOK(c)
         THEN [heard[c] EXCEPT ![a] = word] ELSE heard[c]]
  /\ lost' = [c \in Conns |->
       IF c \notin ClientListeners THEN lost[c]
       ELSE IF SafeSendOK(c) THEN lost[c] \ {a} ELSE lost[c] \cup {a}]

\* MarkClosed and close(send), of every connection in S.
CloseSend(S) ==
  /\ closed' = [c \in Conns |-> closed[c] \/ c \in S]
  /\ panicked' = (panicked \/ \E c \in S : closed[c])

\* What connections that left the device lists were told no longer matters.
Forget(S) ==
  /\ heard' = [c \in Conns |-> IF c \in S THEN [a \in Agents |-> "unknown"] ELSE heard[c]]
  /\ lost' = [c \in Conns |-> IF c \in S THEN {} ELSE lost[c]]

\* Defect: the close of an unregistering connection without that guard.
UncheckedClose(c) == {c}

\* The connections a guarded close reaches: `if !conn.IsClosed()`.
Unclosed(c) == {d \in {c} : ~closed[d]}

\* A goroutine that holds the connection, registered still or not, sends to
\* it: the connect handler its welcome message, routing and replay the rest.
SendTo(c) ==
  /\ Accepted(c)
  /\ SafeSendOK(c)
  /\ SafeSend(c)
  /\ UNCHANGED <<connVars, closed, panicked, heard, lost, registryVars, runVars,
                 stopVars, monitorVars, silent, statusVars>>

-----------------------------------------------------------------------------
(* Connect handlers.                                                        *)

Connect(c, id, d) ==
  /\ handler[c] = "idle"
  /\ owner' = [owner EXCEPT ![c] = id]
  /\ device' = [device EXCEPT ![c] = d]
  /\ socket' = [socket EXCEPT ![c] = TRUE]
  /\ handler' = [handler EXCEPT ![c] = "registering"]
  /\ UNCHANGED <<reader, writer, sendVars, registryVars, runVars, stopVars,
                 monitorVars, silent, statusVars>>

HandleAgentConnect(c) == \E a \in Agents : Connect(c, a, NoDevice)

HandleClientConnect(c) ==
  \E u \in Users, d \in Devices \cup {NoDevice} : Connect(c, u, d)

-----------------------------------------------------------------------------
(* run().                                                                   *)

StartRun ==
  /\ runPc = "off"
  /\ runPc' = "select"
  /\ UNCHANGED <<connVars, sendVars, registryVars, runConn, stopVars, monitorVars, silent, statusVars>>

\* conn := <-h.register.  The handler goes on and starts the two pumps.
HubRecvRegister(c) ==
  /\ runPc = "select"
  /\ handler[c] = "registering"
  /\ runPc' = "register"
  /\ runConn' = c
  /\ handler' = [handler EXCEPT ![c] = "accepted"]
  /\ reader' = [reader EXCEPT ![c] = "reading"]
  /\ writer' = [writer EXCEPT ![c] = "running"]
  /\ UNCHANGED <<owner, device, socket, sendVars, registryVars, stopVars, monitorVars, silent, statusVars>>

BackToSelect == runPc' = "select" /\ runConn' = None

\* Defect: a registering agent overwrites the entry and closes nothing.
OverwrittenAgent(a) == {}

\* The connection a registering agent replaces, as a set of at most one.
ReplacedAgent(a) == {agents[a]} \ {None}

HubRegisterAgent ==
  /\ runPc = "register"
  /\ IsAgent(runConn)
  /\ silent' = silent \ {runConn}
  /\ CloseSend(ReplacedAgent(owner[runConn]))
  /\ agents' = [agents EXCEPT ![owner[runConn]] = runConn]
  /\ Broadcast(owner[runConn], "online")
  /\ crossed' = IF Idle(runConn) THEN crossed \ {owner[runConn]}
                                  ELSE crossed \cup {owner[runConn]}
  /\ status' = [status EXCEPT ![owner[runConn]] = "unset"]
  /\ BackToSelect
  /\ UNCHANGED <<connVars, clientConns, stopVars, monitorVars, announcing, telling, recipients>>

\* The registered connections a registering client may replace.
SameDevice(c) ==
  {e \in clientConns[owner[c]] : device[e] = device[c] /\ device[c] # NoDevice}

HubRegisterClient ==
  /\ runPc = "register"
  /\ ~IsAgent(runConn)
  /\ \/ /\ SameDevice(runConn) = {}
        /\ CloseSend({})
        /\ Forget({})
        /\ clientConns' = [clientConns EXCEPT ![owner[runConn]] = @ \cup {runConn}]
     \/ \E old \in SameDevice(runConn) :
          /\ CloseSend({old})
          /\ Forget({old})
          /\ clientConns' = [clientConns EXCEPT ![owner[runConn]] = (@ \ {old}) \cup {runConn}]
  /\ BackToSelect
  /\ UNCHANGED <<connVars, pending, agents, stopVars, monitorVars, silent, statusVars>>

\* conn := <-h.unregister from a read pump, which then closes the socket
\* and ends.
HubRecvUnregister(c) ==
  /\ runPc = "select"
  /\ reader[c] = "leaving"
  /\ runPc' = "unregister"
  /\ runConn' = c
  /\ reader' = [reader EXCEPT ![c] = "done"]
  /\ socket' = [socket EXCEPT ![c] = FALSE]
  /\ UNCHANGED <<owner, device, handler, writer, sendVars, registryVars, stopVars,
                 monitorVars, silent, statusVars>>

\* conn := <-h.unregister from the heartbeat monitor.
HubRecvStale(c) ==
  /\ runPc = "select"
  /\ c \in stale
  /\ runPc' = "unregister"
  /\ runConn' = c
  /\ stale' = stale \ {c}
  /\ UNCHANGED <<connVars, sendVars, registryVars, stopVars, monitor, silent, statusVars>>

\* Defect: the entry is looked up and not compared with the connection.
AnyAgentConn(c) == agents[owner[c]] # None

\* `existing, ok := h.agents[conn.id]; ok && existing == conn`
CurrentAgentConn(c) == agents[owner[c]] = c

\* Defect: the offline event is sent for a replaced connection as well.
HubUnregisterAgentLoudly ==
  /\ runPc = "unregister"
  /\ IsAgent(runConn)
  /\ agents' = [agents EXCEPT ![owner[runConn]] = IF @ = runConn THEN None ELSE @]
  /\ CloseSend(Unclosed(runConn))
  /\ Broadcast(owner[runConn], "offline")
  /\ BackToSelect
  /\ UNCHANGED <<connVars, clientConns, stopVars, monitorVars, silent, statusVars>>

HubUnregisterAgent ==
  /\ runPc = "unregister"
  /\ IsAgent(runConn)
  /\ \/ /\ CurrentAgentConn(runConn)
        /\ agents' = [agents EXCEPT ![owner[runConn]] = None]
        /\ CloseSend(Unclosed(runConn))
        /\ Broadcast(owner[runConn], "offline")
        /\ crossed' = crossed \ {owner[runConn]}
        /\ status' = [status EXCEPT ![owner[runConn]] = "unset"]
     \/ /\ ~CurrentAgentConn(runConn)
        /\ UNCHANGED <<agents, sendVars, crossed, status>>
  /\ BackToSelect
  /\ UNCHANGED <<connVars, clientConns, stopVars, monitorVars, silent, announcing, telling,
                 recipients>>

HubUnregisterClient ==
  /\ runPc = "unregister"
  /\ ~IsAgent(runConn)
  /\ clientConns' = [clientConns EXCEPT ![owner[runConn]] = @ \ {runConn}]
  /\ CloseSend(Unclosed(runConn))
  /\ Forget({runConn})
  /\ BackToSelect
  /\ UNCHANGED <<connVars, pending, agents, stopVars, monitorVars, silent, statusVars>>

\* Defect: run() returns without closing runDone.
RunExitSilently ==
  /\ runPc = "select"
  /\ done
  /\ runPc' = "exited"
  /\ UNCHANGED <<connVars, sendVars, registryVars, runConn, stopVars, monitorVars, silent, statusVars>>

\* case <-h.done, with the deferred close of runDone.
RunExit ==
  /\ runPc = "select"
  /\ done
  /\ runPc' = "exited"
  /\ runDone' = TRUE
  /\ UNCHANGED <<connVars, sendVars, registryVars, runConn, done, stop, monitorVars, silent, statusVars>>

-----------------------------------------------------------------------------
(* Pumps.                                                                   *)

\* A heartbeat message: TouchHeartbeat, then an acknowledgement.
ReadHeartbeat(c) ==
  /\ reader[c] = "reading"
  /\ socket[c]
  /\ Idle(c)
  /\ silent' = silent \ {c}
  /\ SafeSend(c)
  /\ UNCHANGED <<connVars, closed, panicked, heard, lost, registryVars, runVars,
                 stopVars, monitorVars, statusVars>>

\* The agents marked after connection c had a part in what is said of its agent.
CrossedBy(c) == IF agents[owner[c]] = c THEN crossed ELSE crossed \cup {owner[c]}

\* An agent's status message: SetAgentStatus writes to the connection that is
\* registered for the agent, which need not be the one that was read.
SetAgentStatus(c) ==
  \E word \in Statuses \ {"unset"} :
    /\ reader[c] = "reading"
    /\ socket[c]
    /\ IsAgent(c)
    /\ Idle(c)
    /\ status' = [status EXCEPT ![owner[c]] = IF agents[owner[c]] = None THEN @ ELSE word]
    /\ announcing' = [announcing EXCEPT ![c] = word]
    /\ crossed' = CrossedBy(c)
    /\ UNCHANGED <<connVars, sendVars, registryVars, runVars, stopVars, monitorVars, silent,
                   telling, recipients>>

\* ... and then, under a lock of its own, BroadcastToAllClients.  A message
\* that names a conversation is not done with that.
BroadcastStatus(c) ==
  /\ announcing[c] # "unset"
  /\ Broadcast(owner[c], announcing[c])
  /\ announcing' = [announcing EXCEPT ![c] = "unset"]
  /\ \/ telling' = [telling EXCEPT ![c] = announcing[c]]
     \/ UNCHANGED telling
  /\ crossed' = CrossedBy(c)
  /\ UNCHANGED <<connVars, closed, panicked, registryVars, runVars, stopVars, monitorVars,
                 silent, status, recipients>>

\* A status message with an empty status: nothing is set or broadcast, but the
\* user of the conversation it names is still told.
EmptyStatus(c) ==
  /\ "unset" \in Statuses
  /\ reader[c] = "reading"
  /\ socket[c]
  /\ IsAgent(c)
  /\ Idle(c)
  /\ telling' = [telling EXCEPT ![c] = "unset"]
  /\ UNCHANGED <<connVars, sendVars, registryVars, runVars, stopVars, monitorVars, silent,
                 status, announcing, recipients, crossed>>

\* getConversation and GetClientConns, which copies the device list: of any
\* user, since nothing says that the agent takes part in the conversation.
\* The message is done with when there is no conversation or no device.
LookUpDevices(c) ==
  /\ telling[c] # "nothing"
  /\ recipients[c] = {}
  /\ \/ \E u \in Users :
          /\ clientConns[u] # {}
          /\ recipients' = [recipients EXCEPT ![c] = clientConns[u]]
          /\ UNCHANGED telling
     \/ telling' = [telling EXCEPT ![c] = "nothing"] /\ UNCHANGED recipients
  /\ UNCHANGED <<connVars, sendVars, registryVars, runVars, stopVars, monitorVars, silent,
                 status, announcing, crossed>>

\* One turn of the loop over the copied list, without h.mu.  An event with an
\* empty status takes room in the buffer and says nothing of the agent.
NotifyDevice(c) ==
  \E d \in recipients[c] :
    /\ SafeSend(d)
    /\ \/ /\ SafeSendOK(d) /\ telling[c] # "unset"
          /\ heard' = [heard EXCEPT ![d][owner[c]] = telling[c]]
          /\ lost' = [lost EXCEPT ![d] = @ \ {owner[c]}]
       \/ /\ ~SafeSendOK(d) \/ telling[c] = "unset"
          /\ UNCHANGED <<heard, lost>>
    /\ recipients' = [recipients EXCEPT ![c] = @ \ {d}]
    /\ telling' = [telling EXCEPT ![c] = IF recipients[c] = {d} THEN "nothing" ELSE @]
    /\ crossed' = CrossedBy(c)
    /\ UNCHANGED <<connVars, closed, panicked, registryVars, runVars, stopVars, monitorVars,
                   silent, status, announcing>>

\* ReadMessage fails: always on a closed socket, and on an open one when the
\* read deadline passes or a frame is too large.
ReadFail(c) ==
  /\ reader[c] = "reading"
  /\ Idle(c)
  /\ reader' = [reader EXCEPT ![c] = "leaving"]
  /\ UNCHANGED <<owner, device, handler, writer, socket, sendVars, registryVars, runVars,
                 stopVars, monitorVars, silent, statusVars>>

WriterSend(c) ==
  /\ writer[c] = "running"
  /\ socket[c]
  /\ pending[c] > 0
  /\ pending' = [pending EXCEPT ![c] = @ - 1]
  /\ UNCHANGED <<connVars, closed, panicked, heard, lost, registryVars, runVars,
                 stopVars, monitorVars, silent, statusVars>>

\* Defect: the write pump returns and leaves the socket open.
WriterReturnsOnly(c) ==
  /\ writer' = [writer EXCEPT ![c] = "done"]
  /\ UNCHANGED <<owner, device, handler, reader, socket, sendVars, registryVars, runVars,
                 stopVars, monitorVars, silent, statusVars>>

\* The write pump returns and its deferred call closes the socket.
WriterReturns(c) ==
  /\ writer' = [writer EXCEPT ![c] = "done"]
  /\ socket' = [socket EXCEPT ![c] = FALSE]
  /\ UNCHANGED <<owner, device, handler, reader, sendVars, registryVars, runVars,
                 stopVars, monitorVars, silent, statusVars>>

\* `!ok`: send is closed and what was buffered in it has been written.
WriterClose(c) ==
  /\ writer[c] = "running"
  /\ closed[c]
  /\ pending[c] = 0
  /\ WriterReturns(c)

\* A write or a ping fails: always on a closed socket, and on an open one
\* when the write deadline passes.
WriteFail(c) ==
  /\ writer[c] = "running"
  /\ WriterReturns(c)

-----------------------------------------------------------------------------
(* Heartbeat monitor, Stop and the environment.                             *)

\* Defect: only agents whose socket is gone count as stale.
StaleClosedConns == {c \in silent : ~socket[c] /\ \E a \in Agents : agents[a] = c}

\* ticker.C: checkStaleAgents collects under h.mu.RLock, then sends one by
\* one.  A tick that finds nothing changes nothing.
StaleConns == {c \in silent : \E a \in Agents : agents[a] = c}

MonitorTick ==
  /\ monitor = "waiting"
  /\ stale = {}
  /\ StaleConns # {}
  /\ stale' = StaleConns
  /\ UNCHANGED <<connVars, sendVars, registryVars, runVars, stopVars, monitor, silent, statusVars>>

\* case <-h.done, with the deferred close of monitorDone.
MonitorExit ==
  /\ monitor = "waiting"
  /\ stale = {}
  /\ done
  /\ monitor' = "exited"
  /\ UNCHANGED <<connVars, sendVars, registryVars, runVars, stopVars, stale, silent, statusVars>>

StopCall ==
  /\ stop = "no"
  /\ stop' = "waiting"
  /\ done' = TRUE
  /\ runDone' = (runDone \/ runPc = "off")
  /\ UNCHANGED <<connVars, sendVars, registryVars, runVars, monitorVars, silent, statusVars>>

\* <-h.runDone; <-h.monitorDone
StopReturn ==
  /\ stop = "waiting"
  /\ runDone
  /\ monitor = "exited"
  /\ stop' = "returned"
  /\ UNCHANGED <<connVars, sendVars, registryVars, runVars, done, runDone, monitorVars, silent, statusVars>>

PeerClose(c) ==
  /\ socket[c]
  /\ socket' = [socket EXCEPT ![c] = FALSE]
  /\ UNCHANGED <<owner, device, handler, reader, writer, sendVars, registryVars, runVars,
                 stopVars, monitorVars, silent, statusVars>>

\* agentPresenceTimeout passes without a heartbeat.  Only the monitor reads
\* lastHeartbeat, and only of registered agents.
HeartbeatExpires(c) ==
  /\ HeartbeatEnabled
  /\ c \notin silent
  /\ \E a \in Agents : agents[a] = c
  /\ silent' = silent \cup {c}
  /\ UNCHANGED <<connVars, sendVars, registryVars, runVars, stopVars, monitorVars, statusVars>>

-----------------------------------------------------------------------------

RunBody ==
  \/ HubRegisterAgent
  \/ HubRegisterClient
  \/ HubUnregisterAgent
  \/ HubUnregisterClient

RunNext ==
  \/ StartRun
  \/ RunBody
  \/ RunExit
  \/ \E c \in Conns : HubRecvRegister(c) \/ HubRecvUnregister(c) \/ HubRecvStale(c)

ConnNext(c) ==
  \/ HandleAgentConnect(c)
  \/ HandleClientConnect(c)
  \/ SendTo(c)
  \/ ReadHeartbeat(c)
  \/ SetAgentStatus(c)
  \/ BroadcastStatus(c)
  \/ EmptyStatus(c)
  \/ LookUpDevices(c)
  \/ NotifyDevice(c)
  \/ ReadFail(c)
  \/ WriterSend(c)
  \/ WriterClose(c)
  \/ WriteFail(c)
  \/ PeerClose(c)
  \/ HeartbeatExpires(c)

Next ==
  \/ RunNext
  \/ MonitorTick
  \/ MonitorExit
  \/ StopCall
  \/ StopReturn
  \/ \E c \in Conns : ConnNext(c)

(* A goroutine that can take a step takes one; nothing is assumed about the *)
(* choice select makes.  Reads and writes on a closed socket fail; a write  *)
(* on an open one succeeds or misses its deadline.  Connects, peers,        *)
(* heartbeats and the call of Stop are the environment's.                   *)
Fairness ==
  /\ WF_vars(RunNext)
  /\ WF_vars(MonitorTick \/ MonitorExit)
  /\ WF_vars(StopReturn)
  /\ \A c \in Conns :
       /\ WF_vars(\/ BroadcastStatus(c) \/ LookUpDevices(c) \/ NotifyDevice(c)
                 \/ (ReadFail(c) /\ ~socket[c]))
       /\ WF_vars(WriterSend(c) \/ WriterClose(c) \/ (WriteFail(c) /\ ~socket[c]))

Spec == Init /\ [][Next]_vars /\ Fairness

-----------------------------------------------------------------------------
(* Properties.                                                              *)

\* What a client can be told of an agent.
Words == Statuses \cup {"unknown", "online", "offline"}

(* Types of the hub (hub.go:61-133); a send channel never holds more than its *)
(* capacity.                                                                *)
TypeOK ==
  /\ owner \in [Conns -> Agents \cup Users \cup {None}]
  /\ device \in [Conns -> Devices \cup {NoDevice}]
  /\ handler \in [Conns -> {"idle", "registering", "accepted"}]
  /\ reader \in [Conns -> {"off", "reading", "leaving", "done"}]
  /\ writer \in [Conns -> {"off", "running", "done"}]
  /\ socket \in [Conns -> BOOLEAN]
  /\ closed \in [Conns -> BOOLEAN]
  /\ pending \in [Conns -> 0..BufCap]
  /\ silent \in SUBSET Conns
  /\ agents \in [Agents -> Conns \cup {None}]
  /\ clientConns \in [Users -> SUBSET Conns]
  /\ runPc \in {"off", "select", "register", "unregister", "exited"}
  /\ runConn \in Conns \cup {None}
  /\ done \in BOOLEAN
  /\ runDone \in BOOLEAN
  /\ monitor \in {"waiting", "exited"}
  /\ stale \in SUBSET Conns
  /\ stop \in {"no", "waiting", "returned"}
  /\ panicked \in BOOLEAN
  /\ heard \in [Conns -> [Agents -> Words]]
  /\ lost \in [Conns -> SUBSET Agents]
  /\ status \in [Agents -> Statuses \cup {"unset"}]
  /\ announcing \in [Conns -> Statuses \cup {"unset"}]
  /\ telling \in [Conns -> Statuses \cup {"unset", "nothing"}]
  /\ recipients \in [Conns -> SUBSET Conns]
  /\ crossed \in SUBSET Agents

(* run() closes the send channel of a replaced connection without looking   *)
(* at closed (hub.go:173 and 190).  No order of reconnects, late            *)
(* unregisters and stale disconnects makes it close a channel twice, which  *)
(* would panic in the hub goroutine and take the server down.               *)
NoDoubleClose == ~panicked

(* Between two steps of run(), a connection the hub has taken in is found   *)
(* in a registry exactly as long as its send channel is open: nothing is    *)
(* routed to a closed connection and no open one is forgotten.              *)
RegistryMatchesOpen ==
  \A c \in Conns : Settled(c) => (c \in Registered <=> ~closed[c])

(* Multi-device: of two registered connections of one user that name a      *)
(* device, no two name the same one (hub.go:184-194).                       *)
OneConnPerDevice ==
  \A u \in Users : \A c, d \in clientConns[u] :
    device[c] = device[d] /\ device[c] # NoDevice => c = d

\* The current connection of the agent is between setting and announcing.
Announcing(a) == agents[a] # None /\ announcing[agents[a]] # "unset"

(* What the events queued for a registered client last say about an agent   *)
(* is what AgentStatus reports (hub.go:425-435), except when the latest was *)
(* dropped on a full buffer, when the status is just being announced, and   *)
(* when a connection that was not the registered one set, announced or told *)
(* a status (routing.go:317-370): the devices of the conversation's user    *)
(* are told one by one without the lock, so this can happen after the       *)
(* "online" of a reconnect.  An event with an empty status is no statement. *)
(* In particular a replaced connection that unregisters late never leaves a *)
(* client believing that the agent is gone.                                 *)
PresenceTruth ==
  \A c \in ClientListeners, a \in Agents :
    a \notin lost[c] \cup crossed /\ heard[c][a] # "unknown" /\ ~Announcing(a)
      => heard[c][a] = AgentStatus(a)

\* The agents a step takes out of the registry.
Dropped == {a \in Agents : agents[a] # None /\ agents'[a] = None}

(* An agent goes offline only when the read pump of its CURRENT connection  *)
(* has ended or heartbeats are monitored: the end of a replaced connection  *)
(* never disconnects the one that replaced it (hub.go:209).                 *)
OfflineForCause ==
  [][\A a \in Dropped : reader[agents[a]] = "done" \/ HeartbeatEnabled]_vars

(* A connection whose send channel the hub has closed is torn down: its     *)
(* write pump returns, its socket is closed and, while the hub runs, its    *)
(* read pump gets through the unregister channel.                           *)
ClosedIsTornDown ==
  \A c \in Conns :
    closed[c] ~> writer[c] = "done" /\ ~socket[c] /\ (reader[c] = "done" \/ done)

(* With monitoring on, an agent that stays silent does not stay registered  *)
(* (hub.go:304-305), unless the hub is stopped.                             *)
SilentAgentIsDropped ==
  \A c \in Conns, a \in Agents :
    agents[a] = c /\ c \in silent ~> agents[a] # c \/ c \notin silent \/ done

(* "Stop signals the hub to stop running and waits for all goroutines to    *)
(* exit." (hub.go:266).  Whenever it is called, the only thing it can wait for for ever is a    *)
(* heartbeat monitor that still has a stale connection to unregister when   *)
(* run() is gone (hub.go:160-161 and 321-323).                              *)
StopWaitsOnlyForMonitor ==
  stop = "waiting" ~> stop = "returned" \/ (runPc = "exited" /\ stale # {})

=============================================================================
