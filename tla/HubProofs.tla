----------------------------- MODULE HubProofs -----------------------------
(***************************************************************************)
(* Proofs about Hub for every set of connections, agents, users and        *)
(* devices and every buffer capacity.                                      *)
(***************************************************************************)
EXTENDS Hub, TLAPS

\* What run() holds while it is in one of the two bodies.
RunHolds == runPc \in {"register", "unregister"} => runConn \in Conns

\* Only the read pump of an agent announces or tells a status.
AgentsAnnounce ==
  /\ \A c \in Conns : announcing[c] # "unset" => owner[c] \in Agents
  /\ \A c \in Conns : telling[c] # "nothing" => owner[c] \in Agents
  /\ \A c \in Conns : recipients[c] # {} => telling[c] # "nothing"
  /\ \A c \in Conns : handler[c] # "accepted" =>
       reader[c] = "off" /\ announcing[c] = "unset" /\ telling[c] = "nothing"

TypeInv == TypeOK /\ RunHolds /\ AgentsAnnounce

(* What the parts of the hub know of each other.  A connection is in a      *)
(* registry only under its own identity and only after the hub took it in.  *)
OwnerInv ==
  /\ \A c \in Conns : Accepted(c) => owner[c] \in Agents \cup Users
  /\ \A c \in Conns : handler[c] = "registering" => owner[c] \in Agents \cup Users
  /\ \A c \in Conns : reader[c] # "off" => Accepted(c)
  /\ \A c \in Conns : closed[c] => Accepted(c)
  /\ \A a \in Agents : agents[a] # None => owner[agents[a]] = a /\ Accepted(agents[a])
  /\ \A u \in Users : \A c \in clientConns[u] : owner[c] = u /\ Accepted(c)
  /\ \A c \in stale : Accepted(c)
  /\ runPc \in {"register", "unregister"} => Accepted(runConn)

(* The strengthening that makes the closing of channels inductive: the      *)
(* connection whose registration is under way is open, in no registry and   *)
(* has heard nothing; every other one is registered exactly while open.     *)
OpenInv ==
  /\ runPc = "register" => ~closed[runConn] /\ runConn \notin Registered
  /\ RegistryMatchesOpen

HubInv == TypeInv /\ OwnerInv /\ OpenInv /\ NoDoubleClose

(* A connection the hub has not finished to register has been told nothing, *)
(* so it cannot start as a listener with an outdated belief.                *)
UnsettledHeardNothing ==
  \A c \in Conns : ~Settled(c) => \A a \in Agents : heard[c][a] = "unknown"

(* The same holds of the connections in a copied device list.               *)
RecipientsSettled ==
  \A c \in Conns : \A d \in recipients[c] : d \in Conns /\ Settled(d)

\* The current connection of the agent has a status to tell a user.
Telling(a) == agents[a] # None /\ telling[agents[a]] \notin {"unset", "nothing"}

(* What the current connection of an agent is about to announce or to tell  *)
(* is what SetAgentStatus has set, unless another connection interfered.    *)
AnnouncedIsSet ==
  \A a \in Agents : a \notin crossed =>
    /\ Announcing(a) => status[a] = announcing[agents[a]]
    /\ Telling(a) => status[a] = telling[agents[a]]

PresenceInv ==
  PresenceTruth /\ UnsettledHeardNothing /\ RecipientsSettled /\ AnnouncedIsSet

(* Without monitoring only a read pump that has ended unregisters.          *)
CauseInv ==
  ~HeartbeatEnabled =>
    /\ stale = {}
    /\ silent = {}
    /\ runPc = "unregister" => reader[runConn] = "done"

-----------------------------------------------------------------------------

(* A presence broadcast (hub.go:394-412) fills buffers up to their          *)
(* capacity and tells every listener about one agent.                       *)
LEMMA PresenceType ==
  ASSUME TypeOK, NEW a \in Agents, NEW word \in Words, Broadcast(a, word)
  PROVE  /\ pending' \in [Conns -> 0..BufCap]
         /\ heard' \in [Conns -> [Agents -> Words]]
         /\ lost' \in [Conns -> SUBSET Agents]
<1>1. pending' \in [Conns -> 0..BufCap]
  BY BufCapAssumption DEF TypeOK, Broadcast, SafeSendOK
<1>2. heard' \in [Conns -> [Agents -> Words]]
  BY DEF TypeOK, Broadcast
<1>3. lost' \in [Conns -> SUBSET Agents]
  BY DEF TypeOK, Broadcast
<1>. QED
  BY <1>1, <1>2, <1>3

(* SafeSend (hub.go:476-494) never sends to a full buffer.                  *)
LEMMA SafeSendType ==
  ASSUME TypeOK, NEW d \in Conns, SafeSend(d)
  PROVE  pending' \in [Conns -> 0..BufCap]
  BY BufCapAssumption DEF TypeOK, SafeSend, SafeSendOK

(* MarkClosed and close(send) (hub.go:459-472) set flags.                   *)
LEMMA CloseType ==
  ASSUME TypeOK, NEW S, CloseSend(S)
  PROVE  closed' \in [Conns -> BOOLEAN] /\ panicked' \in BOOLEAN
  BY Zenon DEF TypeOK, CloseSend

(* A connection that leaves a device list (hub.go:189-191, 222-240) takes   *)
(* what it was told with it.                                                *)
LEMMA ForgetType ==
  ASSUME TypeOK, NEW S, Forget(S)
  PROVE  /\ heard' \in [Conns -> [Agents -> Words]]
         /\ lost' \in [Conns -> SUBSET Agents]
<1>1. [a \in Agents |-> "unknown"] \in [Agents -> Words]
  BY DEF Words
<1>2. heard' \in [Conns -> [Agents -> Words]]
  BY <1>1 DEF TypeOK, Forget
<1>3. lost' \in [Conns -> SUBSET Agents]
  BY DEF TypeOK, Forget
<1>. QED
  BY <1>2, <1>3

\* What one turn of the loop over a copied device list does with device d.
NotifiedAs(c, d) ==
  /\ SafeSend(d)
  /\ \/ /\ SafeSendOK(d) /\ telling[c] # "unset"
        /\ heard' = [heard EXCEPT ![d] = [heard[d] EXCEPT ![owner[c]] = telling[c]]]
        /\ lost' = [lost EXCEPT ![d] = @ \ {owner[c]}]
     \/ UNCHANGED <<heard, lost>>
  /\ recipients' = [recipients EXCEPT ![c] = @ \ {d}]
  /\ telling' = [telling EXCEPT ![c] = IF recipients[c] = {d} THEN "nothing" ELSE @]
  /\ crossed' = CrossedBy(c)
  /\ UNCHANGED <<connVars, closed, panicked, registryVars, runVars, stopVars, monitorVars,
                 silent, status, announcing>>

(* The loop of routeStatusUpdate (routing.go:362-364), with its choices     *)
(* named.                                                                   *)
LEMMA NotifyMeans ==
  ASSUME TypeOK, NEW c \in Conns, NotifyDevice(c)
  PROVE  \E d \in recipients[c] : NotifiedAs(c, d)
<1>1. PICK d \in recipients[c] :
        /\ SafeSend(d)
        /\ \/ /\ SafeSendOK(d) /\ telling[c] # "unset"
              /\ heard' = [heard EXCEPT ![d][owner[c]] = telling[c]]
              /\ lost' = [lost EXCEPT ![d] = @ \ {owner[c]}]
           \/ /\ ~SafeSendOK(d) \/ telling[c] = "unset"
              /\ UNCHANGED <<heard, lost>>
        /\ recipients' = [recipients EXCEPT ![c] = @ \ {d}]
        /\ telling' = [telling EXCEPT ![c] = IF recipients[c] = {d} THEN "nothing" ELSE @]
        /\ crossed' = CrossedBy(c)
        /\ UNCHANGED <<connVars, closed, panicked, registryVars, runVars, stopVars, monitorVars,
                       silent, status, announcing>>
  BY DEF NotifyDevice
<1>2. heard' = [heard EXCEPT ![d][owner[c]] = telling[c]]
        => heard' = [heard EXCEPT ![d] = [heard[d] EXCEPT ![owner[c]] = telling[c]]]
  OBVIOUS
<1>3. NotifiedAs(c, d)
  BY <1>1, <1>2 DEF NotifiedAs
<1>. QED
  BY <1>3

(* Every variable of the hub keeps its type and run() only works on a       *)
(* connection that a connect handler gave it (hub.go:155-264).              *)
THEOREM TypeCorrect == Spec => []TypeInv
<1>1. Init => TypeInv
  <2> SUFFICES ASSUME Init
               PROVE  TypeInv
    OBVIOUS
  <2>1. /\ heard \in [Conns -> [Agents -> Words]]
        /\ lost \in [Conns -> SUBSET Agents]
        /\ clientConns \in [Users -> SUBSET Conns]
    BY DEF Init, Words
  <2>2. /\ owner \in [Conns -> Agents \cup Users \cup {None}]
        /\ pending \in [Conns -> 0..BufCap]
    BY BufCapAssumption DEF Init
  <2>3. /\ status \in [Agents -> Statuses \cup {"unset"}]
        /\ announcing \in [Conns -> Statuses \cup {"unset"}]
        /\ telling \in [Conns -> Statuses \cup {"unset", "nothing"}]
        /\ recipients \in [Conns -> SUBSET Conns]
        /\ crossed \in SUBSET Agents
    BY DEF Init
  <2>. QED
    BY <2>1, <2>2, <2>3 DEF Init, TypeInv, TypeOK, RunHolds, AgentsAnnounce
<1>2. TypeInv /\ [Next]_vars => TypeInv'
  <2> SUFFICES ASSUME TypeInv, [Next]_vars
               PROVE  TypeInv'
    OBVIOUS
  <2> USE DEF TypeInv, TypeOK, RunHolds, AgentsAnnounce
  <2> USE DEF connVars, sendVars, registryVars, runVars, stopVars, monitorVars, statusVars
  <2> USE BufCapAssumption
  <2>1. CASE StartRun
    BY <2>1 DEF StartRun
  <2>2. CASE HubRegisterAgent
    <3>1. closed' \in [Conns -> BOOLEAN] /\ panicked' \in BOOLEAN
      BY <2>2, CloseType DEF HubRegisterAgent
    <3>2. /\ pending' \in [Conns -> 0..BufCap]
          /\ heard' \in [Conns -> [Agents -> Words]]
          /\ lost' \in [Conns -> SUBSET Agents]
      <4>1. "online" \in Words
        BY DEF Words
      <4>. QED
        BY <2>2, <4>1, PresenceType DEF HubRegisterAgent, IsAgent
    <3>3. agents' \in [Agents -> Conns \cup {None}]
      BY <2>2 DEF HubRegisterAgent
    <3>4. status' \in [Agents -> Statuses \cup {"unset"}] /\ crossed' \in SUBSET Agents
      BY <2>2 DEF HubRegisterAgent, IsAgent
    <3>. QED
      BY <2>2, <3>1, <3>2, <3>3, <3>4 DEF HubRegisterAgent, BackToSelect
  <2>3. CASE HubRegisterClient
    <3>1. closed' \in [Conns -> BOOLEAN] /\ panicked' \in BOOLEAN
      BY <2>3, CloseType DEF HubRegisterClient
    <3>2. clientConns' \in [Users -> SUBSET Conns]
      <4>1. runConn \in Conns
        BY <2>3 DEF HubRegisterClient
      <4>2. CASE clientConns' = [clientConns EXCEPT ![owner[runConn]] = @ \cup {runConn}]
        BY <4>1, <4>2
      <4>3. ASSUME NEW old \in SameDevice(runConn),
                   clientConns' = [clientConns EXCEPT ![owner[runConn]] = (@ \ {old}) \cup {runConn}]
            PROVE  clientConns' \in [Users -> SUBSET Conns]
        BY <4>1, <4>3
      <4>. QED
        BY <2>3, <4>2, <4>3 DEF HubRegisterClient
    <3>3. /\ heard' \in [Conns -> [Agents -> Words]]
          /\ lost' \in [Conns -> SUBSET Agents]
      BY <2>3, ForgetType DEF HubRegisterClient
    <3>. QED
      BY <2>3, <3>1, <3>2, <3>3 DEF HubRegisterClient, BackToSelect
  <2>4. CASE HubUnregisterAgent
    <3>1. closed' \in [Conns -> BOOLEAN] /\ panicked' \in BOOLEAN
      BY <2>4, CloseType DEF HubUnregisterAgent
    <3>2. /\ pending' \in [Conns -> 0..BufCap]
          /\ heard' \in [Conns -> [Agents -> Words]]
          /\ lost' \in [Conns -> SUBSET Agents]
      <4>1. CASE CurrentAgentConn(runConn)
        <5>1. "offline" \in Words
          BY DEF Words
        <5>. QED
          BY <2>4, <4>1, <5>1, PresenceType DEF HubUnregisterAgent, IsAgent
      <4>2. CASE ~CurrentAgentConn(runConn)
        BY <2>4, <4>2 DEF HubUnregisterAgent
      <4>. QED
        BY <4>1, <4>2
    <3>3. agents' \in [Agents -> Conns \cup {None}]
      BY <2>4 DEF HubUnregisterAgent
    <3>4. status' \in [Agents -> Statuses \cup {"unset"}] /\ crossed' \in SUBSET Agents
      <4>1. CASE status' = status /\ crossed' = crossed
        BY <4>1
      <4>2. CASE /\ status' = [status EXCEPT ![owner[runConn]] = "unset"]
                 /\ crossed' = crossed \ {owner[runConn]}
        BY <4>2
      <4>. QED
        BY <2>4, <4>1, <4>2 DEF HubUnregisterAgent
    <3>. QED
      BY <2>4, <3>1, <3>2, <3>3, <3>4 DEF HubUnregisterAgent, BackToSelect
  <2>5. CASE HubUnregisterClient
    <3>1. closed' \in [Conns -> BOOLEAN] /\ panicked' \in BOOLEAN
      BY <2>5, CloseType DEF HubUnregisterClient
    <3>2. clientConns' \in [Users -> SUBSET Conns]
      BY <2>5 DEF HubUnregisterClient
    <3>3. /\ heard' \in [Conns -> [Agents -> Words]]
          /\ lost' \in [Conns -> SUBSET Agents]
      BY <2>5, ForgetType DEF HubUnregisterClient
    <3>. QED
      BY <2>5, <3>1, <3>2, <3>3 DEF HubUnregisterClient, BackToSelect
  <2>6. CASE RunExit
    BY <2>6 DEF RunExit
  <2>7. ASSUME NEW c \in Conns, HubRecvRegister(c)
        PROVE  TypeInv'
    BY <2>7 DEF HubRecvRegister
  <2>8. ASSUME NEW c \in Conns, HubRecvUnregister(c)
        PROVE  TypeInv'
    BY <2>8 DEF HubRecvUnregister
  <2>9. ASSUME NEW c \in Conns, HubRecvStale(c)
        PROVE  TypeInv'
    BY <2>9 DEF HubRecvStale
  <2>10. CASE MonitorTick \/ MonitorExit
    BY <2>10 DEF MonitorTick, MonitorExit, StaleConns
  <2>11. CASE StopCall \/ StopReturn
    <3>1. CASE StopCall
      BY <3>1 DEF StopCall
    <3>2. CASE StopReturn
      BY <3>2 DEF StopReturn
    <3>. QED
      BY <2>11, <3>1, <3>2
  <2>12. ASSUME NEW c \in Conns, ConnNext(c)
         PROVE  TypeInv'
    <3>1. CASE HandleAgentConnect(c) \/ HandleClientConnect(c)
      <4>1. PICK id \in Agents \cup Users, d \in Devices \cup {NoDevice} : Connect(c, id, d)
        BY <3>1 DEF HandleAgentConnect, HandleClientConnect
      <4>. QED
        BY <4>1 DEF Connect
    <3>2. CASE SendTo(c) \/ ReadHeartbeat(c)
      <4>1. pending' \in [Conns -> 0..BufCap]
        BY <3>2, SafeSendType DEF SendTo, ReadHeartbeat
      <4>2. silent' \in SUBSET Conns
        BY <3>2 DEF SendTo, ReadHeartbeat
      <4>. QED
        BY <3>2, <4>1, <4>2 DEF SendTo, ReadHeartbeat
    <3>3. CASE ReadFail(c) \/ PeerClose(c) \/ HeartbeatExpires(c)
      <4>1. CASE ReadFail(c)
        BY <4>1 DEF ReadFail
      <4>2. CASE PeerClose(c)
        BY <4>2 DEF PeerClose
      <4>3. CASE HeartbeatExpires(c)
        BY <4>3 DEF HeartbeatExpires
      <4>. QED
        BY <3>3, <4>1, <4>2, <4>3
    <3>4. CASE WriterSend(c)
      <4>1. pending[c] - 1 \in 0..BufCap
        BY <3>4 DEF WriterSend
      <4>. QED
        BY <3>4, <4>1 DEF WriterSend
    <3>5. CASE WriterClose(c) \/ WriteFail(c)
      <4>1. WriterReturns(c)
        BY <3>5 DEF WriterClose, WriteFail
      <4>. QED
        BY <4>1 DEF WriterReturns
    <3>6. CASE SetAgentStatus(c)
      <4>1. PICK word \in Statuses \ {"unset"} :
              /\ owner[c] \in Agents
              /\ status' = [status EXCEPT ![owner[c]] = IF agents[owner[c]] = None THEN @ ELSE word]
              /\ announcing' = [announcing EXCEPT ![c] = word]
        BY <3>6 DEF SetAgentStatus, IsAgent
      <4>2. status' \in [Agents -> Statuses \cup {"unset"}]
        BY <4>1
      <4>3. announcing' \in [Conns -> Statuses \cup {"unset"}]
        BY <4>1
      <4>4. crossed' \in SUBSET Agents
        BY <3>6, <4>1 DEF SetAgentStatus, CrossedBy
      <4>5. \A d \in Conns : announcing'[d] # "unset" => owner[d] \in Agents
        BY <4>1
      <4>6. \A d \in Conns : handler[d] # "accepted" => announcing'[d] = "unset"
        BY <3>6, <4>1 DEF SetAgentStatus
      <4>. QED
        BY <3>6, <4>2, <4>3, <4>4, <4>5, <4>6 DEF SetAgentStatus
    <3>7. CASE BroadcastStatus(c)
      <4>1. owner[c] \in Agents /\ announcing[c] \in Words /\ announcing[c] # "nothing"
        BY <3>7, StatusAssumption DEF BroadcastStatus, Words
      <4>2. /\ pending' \in [Conns -> 0..BufCap]
            /\ heard' \in [Conns -> [Agents -> Words]]
            /\ lost' \in [Conns -> SUBSET Agents]
        BY <3>7, <4>1, PresenceType DEF BroadcastStatus
      <4>3. announcing' \in [Conns -> Statuses \cup {"unset"}] /\ crossed' \in SUBSET Agents
        BY <3>7, <4>1 DEF BroadcastStatus, CrossedBy
      <4>4. /\ telling' \in [Conns -> Statuses \cup {"unset", "nothing"}]
            /\ \A d \in Conns : d # c => telling'[d] = telling[d]
            /\ telling'[c] # telling[c] => telling'[c] # "nothing"
        BY <3>7, <4>1 DEF BroadcastStatus
      <4>5. Accepted(c)
        BY <3>7 DEF BroadcastStatus, Accepted
      <4>6. AgentsAnnounce'
        BY <3>7, <4>1, <4>4, <4>5 DEF BroadcastStatus, Accepted
      <4>. QED
        BY <3>7, <4>2, <4>3, <4>4, <4>6 DEF BroadcastStatus
    <3>8. CASE EmptyStatus(c)
      BY <3>8 DEF EmptyStatus, IsAgent
    <3>9. CASE LookUpDevices(c)
      <4>1. ASSUME NEW u \in Users, telling' = telling, telling[c] # "nothing",
                   recipients' = [recipients EXCEPT ![c] = clientConns[u]]
            PROVE  TypeInv'
        <5>1. recipients' \in [Conns -> SUBSET Conns]
          BY <4>1
        <5>2. \A d \in Conns : recipients'[d] # {} => telling[d] # "nothing"
          BY <4>1
        <5>. QED
          BY <3>9, <4>1, <5>1, <5>2 DEF LookUpDevices
      <4>2. CASE telling' = [telling EXCEPT ![c] = "nothing"] /\ UNCHANGED recipients
        <5>1. telling' \in [Conns -> Statuses \cup {"unset", "nothing"}]
          BY <4>2
        <5>2. \A d \in Conns : telling'[d] = IF d = c THEN "nothing" ELSE telling[d]
          BY <4>2
        <5>3. recipients[c] = {}
          BY <3>9 DEF LookUpDevices
        <5>4. AgentsAnnounce'
          BY <3>9, <4>2, <5>2, <5>3 DEF LookUpDevices
        <5>. QED
          BY <3>9, <4>2, <5>1, <5>4 DEF LookUpDevices
      <4>. QED
        BY <3>9, <4>1, <4>2 DEF LookUpDevices
    <3>10. CASE NotifyDevice(c)
      <4>1. PICK d \in recipients[c] : NotifiedAs(c, d)
        BY <3>10, NotifyMeans
      <4>2. owner[c] \in Agents /\ d \in Conns /\ telling[c] # "nothing"
        BY <4>1
      <4>3. pending' \in [Conns -> 0..BufCap]
        BY <4>1, <4>2, SafeSendType DEF NotifiedAs
      <4>4. heard' \in [Conns -> [Agents -> Words]] /\ lost' \in [Conns -> SUBSET Agents]
        <5>1. CASE UNCHANGED <<heard, lost>>
          BY <5>1
        <5>2. CASE ~UNCHANGED <<heard, lost>>
          <6>1. /\ telling[c] \in Words
                /\ heard' = [heard EXCEPT ![d] = [heard[d] EXCEPT ![owner[c]] = telling[c]]]
                /\ lost' = [lost EXCEPT ![d] = @ \ {owner[c]}]
            BY <4>1, <4>2, <5>2 DEF NotifiedAs, Words
          <6>2. [heard[d] EXCEPT ![owner[c]] = telling[c]] \in [Agents -> Words]
            BY <4>2, <6>1
          <6>. QED
            BY <4>2, <6>1, <6>2
        <5>. QED
          BY <5>1, <5>2
      <4>5. /\ recipients' \in [Conns -> SUBSET Conns]
            /\ telling' \in [Conns -> Statuses \cup {"unset", "nothing"}]
            /\ crossed' \in SUBSET Agents
        BY <4>1, <4>2 DEF NotifiedAs, CrossedBy
      <4>6. AgentsAnnounce'
        BY <4>1, <4>2 DEF NotifiedAs
      <4>. QED
        BY <4>1, <4>3, <4>4, <4>5, <4>6 DEF NotifiedAs
    <3>. QED
      BY <2>12, <3>1, <3>2, <3>3, <3>4, <3>5, <3>6, <3>7, <3>8, <3>9, <3>10 DEF ConnNext
  <2>13. CASE UNCHANGED vars
    BY <2>13 DEF vars
  <2>. QED
    BY <2>1, <2>2, <2>3, <2>4, <2>5, <2>6, <2>7, <2>8, <2>9, <2>10, <2>11, <2>12, <2>13
       DEF Next, RunNext, RunBody
<1>. QED
  BY <1>1, <1>2, PTL DEF Spec

(* A send channel holds at most its capacity and every field of the hub has *)
(* its type (hub.go:61-133).                                                *)
THEOREM TypeOKHolds == Spec => []TypeOK
BY TypeCorrect, PTL DEF TypeInv

-----------------------------------------------------------------------------

(* A connection enters a registry under its own identity only, after the    *)
(* hub took it from a connect handler (hub.go:163-204, handlers.go:102).    *)
LEMMA OwnerStep == TypeInv /\ OwnerInv /\ [Next]_vars => OwnerInv'
<1> SUFFICES ASSUME TypeInv, OwnerInv, [Next]_vars
             PROVE  OwnerInv'
  OBVIOUS
<1> USE DEF TypeInv, TypeOK, RunHolds, AgentsAnnounce, OwnerInv, Accepted
<1> USE DEF connVars, sendVars, registryVars, runVars, stopVars, monitorVars, statusVars
<1> USE IdentityAssumption
<1>1. CASE StartRun \/ RunExit
  BY <1>1 DEF StartRun, RunExit
<1>2. CASE HubRegisterAgent
  <2>1. \A c \in Conns : closed'[c] => closed[c] \/ \E a \in Agents : c = agents[a]
    BY <1>2 DEF HubRegisterAgent, CloseSend, ReplacedAgent, IsAgent
  <2>2. \A c \in Conns : closed'[c] => Accepted(c)
    BY <2>1
  <2>. QED
    BY <1>2, <2>2 DEF HubRegisterAgent, BackToSelect, IsAgent
<1>3. CASE HubRegisterClient
  <2>1. owner[runConn] \in Users
    BY <1>3 DEF HubRegisterClient, IsAgent
  <2>2. \A c \in Conns : closed'[c] => closed[c] \/ c \in clientConns[owner[runConn]]
    <3>1. PICK S \in SUBSET SameDevice(runConn) : CloseSend(S)
      <4>1. CASE CloseSend({})
        BY <4>1
      <4>2. ASSUME NEW old \in SameDevice(runConn), CloseSend({old})
            PROVE  \E S \in SUBSET SameDevice(runConn) : CloseSend(S)
        BY <4>2
      <4>. QED
        BY <1>3, <4>1, <4>2 DEF HubRegisterClient
    <3>2. SameDevice(runConn) \subseteq clientConns[owner[runConn]]
      BY DEF SameDevice
    <3>. QED
      BY ONLY <3>1, <3>2 DEF CloseSend
  <2>3. \A u \in Users : \A c \in clientConns'[u] :
           c \in clientConns[u] \/ (u = owner[runConn] /\ c = runConn)
    <3>1. CASE clientConns' = [clientConns EXCEPT ![owner[runConn]] = @ \cup {runConn}]
      BY <2>1, <3>1
    <3>2. ASSUME NEW old \in SameDevice(runConn),
                 clientConns' = [clientConns EXCEPT ![owner[runConn]] = (@ \ {old}) \cup {runConn}]
          PROVE  \A u \in Users : \A c \in clientConns'[u] :
                   c \in clientConns[u] \/ (u = owner[runConn] /\ c = runConn)
      BY <2>1, <3>2
    <3>. QED
      BY <1>3, <3>1, <3>2 DEF HubRegisterClient
  <2>. QED
    BY <1>3, <2>1, <2>2, <2>3 DEF HubRegisterClient, BackToSelect
<1>4. CASE HubUnregisterAgent
  <2>1. \A c \in Conns : closed'[c] => closed[c] \/ c = runConn
    BY <1>4 DEF HubUnregisterAgent, CloseSend, Unclosed
  <2>2. \A a \in Agents : agents'[a] # None => agents'[a] = agents[a]
    BY <1>4 DEF HubUnregisterAgent, IsAgent
  <2>. QED
    BY <1>4, <2>1, <2>2 DEF HubUnregisterAgent, BackToSelect
<1>5. CASE HubUnregisterClient
  <2>1. \A c \in Conns : closed'[c] => closed[c] \/ c = runConn
    BY <1>5 DEF HubUnregisterClient, CloseSend, Unclosed
  <2>2. \A u \in Users : \A c \in clientConns'[u] : c \in clientConns[u]
    BY <1>5 DEF HubUnregisterClient
  <2>. QED
    BY <1>5, <2>1, <2>2 DEF HubUnregisterClient, BackToSelect
<1>6. ASSUME NEW c \in Conns, HubRecvRegister(c)
      PROVE  OwnerInv'
  BY <1>6 DEF HubRecvRegister
<1>7. ASSUME NEW c \in Conns, HubRecvUnregister(c)
      PROVE  OwnerInv'
  BY <1>7 DEF HubRecvUnregister
<1>8. ASSUME NEW c \in Conns, HubRecvStale(c)
      PROVE  OwnerInv'
  BY <1>8 DEF HubRecvStale
<1>9. CASE MonitorTick \/ MonitorExit
  BY <1>9 DEF MonitorTick, MonitorExit, StaleConns
<1>10. CASE StopCall \/ StopReturn
  BY <1>10 DEF StopCall, StopReturn
<1>11. ASSUME NEW c \in Conns, ConnNext(c)
       PROVE  OwnerInv'
  <2>1. CASE HandleAgentConnect(c) \/ HandleClientConnect(c)
    <3>1. PICK id \in Agents \cup Users, d \in Devices \cup {NoDevice} : Connect(c, id, d)
      BY <2>1 DEF HandleAgentConnect, HandleClientConnect
    <3>. QED
      BY <3>1 DEF Connect
  <2>2. CASE SendTo(c) \/ ReadHeartbeat(c) \/ PeerClose(c) \/ HeartbeatExpires(c)
    BY <2>2 DEF SendTo, ReadHeartbeat, PeerClose, HeartbeatExpires
  <2>5. CASE SetAgentStatus(c) \/ BroadcastStatus(c) \/ EmptyStatus(c)
               \/ LookUpDevices(c) \/ NotifyDevice(c)
    BY <2>5 DEF SetAgentStatus, BroadcastStatus, EmptyStatus, LookUpDevices, NotifyDevice
  <2>3. CASE ReadFail(c)
    BY <2>3 DEF ReadFail
  <2>4. CASE WriterSend(c) \/ WriterClose(c) \/ WriteFail(c)
    BY <2>4 DEF WriterSend, WriterClose, WriteFail, WriterReturns
  <2>. QED
    BY <1>11, <2>1, <2>2, <2>3, <2>4, <2>5 DEF ConnNext
<1>12. CASE UNCHANGED vars
  BY <1>12 DEF vars
<1>. QED
  BY <1>1, <1>2, <1>3, <1>4, <1>5, <1>6, <1>7, <1>8, <1>9, <1>10, <1>11, <1>12
     DEF Next, RunNext, RunBody

-----------------------------------------------------------------------------

(* Membership in the registries (hub.go:106-107), without the union.        *)
LEMMA RegisteredMeans ==
  ASSUME NEW c \in Conns
  PROVE  c \in Registered <=> \/ \E u \in Users : c \in clientConns[u]
                              \/ \E a \in Agents : agents[a] = c
  BY IdentityAssumption DEF Registered, ClientListeners

\* The state that decides whether a connection is registered and open.
openVars == <<closed, panicked, agents, clientConns, runPc, runConn, handler>>

(* A step that leaves registration, the two registries and the send         *)
(* channels alone keeps registered and open the same (hub.go:163-249 is the *)
(* only code that changes them).                                            *)
LEMMA OpenFrame ==
  ASSUME OpenInv, NoDoubleClose, UNCHANGED openVars
  PROVE  OpenInv' /\ NoDoubleClose'
  BY DEF OpenInv, NoDoubleClose, RegistryMatchesOpen, Registered, ClientListeners, Settled,
         Accepted, openVars

(* The unconditional close of a replaced connection (hub.go:173 and 190)    *)
(* hits an open channel, and after every step of run() the registries hold  *)
(* exactly the open connections.                                            *)
LEMMA OpenStep == HubInv /\ [Next]_vars => (OpenInv /\ NoDoubleClose)'
<1> SUFFICES ASSUME HubInv, [Next]_vars
             PROVE  (OpenInv /\ NoDoubleClose)'
  OBVIOUS
<1> USE DEF HubInv, TypeInv, TypeOK, RunHolds
<1> USE DEF connVars, sendVars, registryVars, runVars, stopVars, monitorVars, statusVars
<1> USE IdentityAssumption
<1>1. CASE HubRegisterAgent
  <2> DEFINE a == owner[runConn]
  <2>1. a \in Agents /\ runConn \in Conns /\ Accepted(runConn) /\ runConn \notin Registered
    BY <1>1 DEF HubRegisterAgent, IsAgent, OwnerInv, OpenInv
  <2>2. agents[a] # None => agents[a] \in Conns /\ ~closed[agents[a]]
    <3>1. agents[a] # None => Settled(agents[a]) /\ agents[a] \in Registered /\ agents[a] \in Conns
      BY <2>1 DEF OwnerInv, Settled, Registered
    <3>. QED
      BY <3>1 DEF OpenInv, RegistryMatchesOpen
  <2>3. ~panicked'
    BY <1>1, <2>1, <2>2 DEF HubRegisterAgent, CloseSend, ReplacedAgent, NoDoubleClose
  <2>4. \A d \in Conns : closed'[d] <=> closed[d] \/ d = agents[a]
    BY <1>1, <2>1 DEF HubRegisterAgent, CloseSend, ReplacedAgent
  <2>5. \A d \in Conns : d \in Registered' <=> d = runConn \/ (d \in Registered /\ d # agents[a])
    <3>1. /\ clientConns' = clientConns
          /\ agents' = [agents EXCEPT ![a] = runConn]
      BY <1>1 DEF HubRegisterAgent
    <3>2. \A d \in Conns : d \in Registered' <=> \/ \E u \in Users : d \in clientConns[u]
                                              \/ \E b \in Agents : agents'[b] = d
      BY <3>1 DEF Registered, ClientListeners
    <3>3. \A d \in Conns : \A u \in Users : d \in clientConns[u] => d # agents[a]
      BY <2>1 DEF OwnerInv
    <3>4. \A b \in Agents : b # a /\ agents[b] # None => agents[b] # agents[a]
      BY <2>1 DEF OwnerInv
    <3>. QED
      BY <2>1, <3>1, <3>2, <3>3, <3>4, RegisteredMeans
  <2>6. runPc' = "select" /\ handler' = handler
    BY <1>1 DEF HubRegisterAgent, BackToSelect
  <2>7. ASSUME NEW d \in Conns, Accepted(d)
        PROVE  d \in Registered' <=> ~closed'[d]
    <3>1. CASE d = runConn
      <4>1. runConn # agents[a]
        BY <2>1, RegisteredMeans
      <4>. QED
        BY <1>1, <2>1, <2>4, <2>5, <3>1, <4>1 DEF HubRegisterAgent, OpenInv
    <3>2. CASE d # runConn
      <4>1. d \in Registered <=> ~closed[d]
        BY <2>7, <3>2 DEF OpenInv, RegistryMatchesOpen, Settled
      <4>. QED
        BY <2>4, <2>5, <3>2, <4>1
    <3>. QED
      BY <3>1, <3>2
  <2>. QED
    BY <2>3, <2>6, <2>7 DEF OpenInv, NoDoubleClose, RegistryMatchesOpen, Settled, Accepted
<1>2. CASE HubRegisterClient
  <2> DEFINE u == owner[runConn]
  <2>1. u \in Users /\ runConn \in Conns /\ Accepted(runConn) /\ runConn \notin Registered
    BY <1>2 DEF HubRegisterClient, IsAgent, OwnerInv, OpenInv
  <2>2. PICK S \in SUBSET clientConns[u] :
          /\ CloseSend(S)
          /\ clientConns' = [clientConns EXCEPT ![u] = (@ \ S) \cup {runConn}]
    <3>1. CASE /\ SameDevice(runConn) = {}
               /\ CloseSend({})
               /\ clientConns' = [clientConns EXCEPT ![u] = @ \cup {runConn}]
      <4>1. clientConns' = [clientConns EXCEPT ![u] = (@ \ {}) \cup {runConn}]
        BY <3>1
      <4>. QED
        BY <3>1, <4>1
    <3>2. ASSUME NEW old \in SameDevice(runConn),
                 CloseSend({old}),
                 clientConns' = [clientConns EXCEPT ![u] = (@ \ {old}) \cup {runConn}]
          PROVE  \E S \in SUBSET clientConns[u] :
                   /\ CloseSend(S)
                   /\ clientConns' = [clientConns EXCEPT ![u] = (@ \ S) \cup {runConn}]
      BY <3>2 DEF SameDevice
    <3>. QED
      BY <1>2, <3>1, <3>2 DEF HubRegisterClient
  <2>3. \A d \in S : d \in Conns /\ d \in Registered /\ ~closed[d]
    <3>1. \A d \in S : d \in Conns /\ Settled(d) /\ d \in Registered
      BY <2>1, RegisteredMeans DEF OwnerInv, Settled
    <3>. QED
      BY <3>1 DEF OpenInv, RegistryMatchesOpen
  <2>4. ~panicked'
    BY <2>2, <2>3 DEF CloseSend, NoDoubleClose
  <2>5. \A d \in Conns : closed'[d] <=> closed[d] \/ d \in S
    BY <2>2 DEF CloseSend
  <2>6. \A d \in Conns : d \in Registered' <=> d = runConn \/ (d \in Registered /\ d \notin S)
    <3>1. agents' = agents
      BY <1>2 DEF HubRegisterClient
    <3>2. \A d \in Conns : d \in Registered' <=> \/ \E v \in Users : d \in clientConns'[v]
                                              \/ \E b \in Agents : agents[b] = d
      BY <3>1 DEF Registered, ClientListeners
    <3>3. \A b \in Agents : agents[b] \notin S
      BY <2>1, <2>3 DEF OwnerInv
    <3>4. \A v \in Users : v # u => \A d \in clientConns[v] : d \notin S
      BY <2>1, <2>3 DEF OwnerInv
    <3>5. \A v \in Users : clientConns'[v] =
            IF v = u THEN (clientConns[u] \ S) \cup {runConn} ELSE clientConns[v]
      BY <2>1, <2>2
    <3>6. ASSUME NEW d \in Conns
          PROVE  (\E v \in Users : d \in clientConns'[v])
                   <=> d = runConn \/ (d \notin S /\ \E v \in Users : d \in clientConns[v])
      <4>1. ASSUME NEW v \in Users, d \in clientConns'[v]
            PROVE  d = runConn \/ (d \notin S /\ d \in clientConns[v])
        <5>1. CASE v = u
          BY <3>5, <4>1, <5>1
        <5>2. CASE v # u
          BY <3>4, <3>5, <4>1, <5>2
        <5>. QED
          BY <5>1, <5>2
      <4>2. ASSUME NEW v \in Users, d \notin S, d \in clientConns[v]
            PROVE  d \in clientConns'[v]
        BY ONLY <3>5, <4>2
      <4>3. runConn \in clientConns'[u]
        BY <2>1, <3>5
      <4>. QED
        BY <2>1, <4>1, <4>2, <4>3
    <3>. QED
      <4>1. \A d \in Conns : d \in Registered <=> \/ \E v \in Users : d \in clientConns[v]
                                               \/ \E b \in Agents : agents[b] = d
        BY RegisteredMeans
      <4>. QED
        BY ONLY <3>2, <3>3, <3>6, <4>1
  <2>7. runPc' = "select" /\ handler' = handler
    BY <1>2 DEF HubRegisterClient, BackToSelect
  <2>8. ASSUME NEW d \in Conns, Accepted(d)
        PROVE  d \in Registered' <=> ~closed'[d]
    <3>1. CASE d = runConn
      BY <1>2, <2>1, <2>3, <2>5, <2>6, <3>1 DEF HubRegisterClient, OpenInv
    <3>2. CASE d # runConn
      <4>1. d \in Registered <=> ~closed[d]
        BY <2>8, <3>2 DEF OpenInv, RegistryMatchesOpen, Settled
      <4>. QED
        BY <2>5, <2>6, <3>2, <4>1
    <3>. QED
      BY <3>1, <3>2
  <2>. QED
    BY <2>4, <2>7, <2>8 DEF OpenInv, NoDoubleClose, RegistryMatchesOpen, Settled, Accepted
<1>3. CASE HubUnregisterAgent /\ CurrentAgentConn(runConn)
  <2> DEFINE a == owner[runConn]
  <2>1. a \in Agents /\ runConn \in Conns /\ Accepted(runConn) /\ agents[a] = runConn
    BY <1>3 DEF HubUnregisterAgent, IsAgent, OwnerInv, CurrentAgentConn
  <2>2. ~panicked'
    BY <1>3 DEF HubUnregisterAgent, CloseSend, Unclosed, NoDoubleClose
  <2>3. \A d \in Conns : closed'[d] <=> closed[d] \/ d = runConn
    <3>1. CloseSend(Unclosed(runConn))
      BY <1>3 DEF HubUnregisterAgent
    <3>. QED
      BY ONLY <2>1, <3>1 DEF CloseSend, Unclosed
  <2>4. \A d \in Conns : d \in Registered' <=> d \in Registered /\ d # runConn
    <3>1. /\ clientConns' = clientConns
          /\ agents' = [agents EXCEPT ![a] = None]
      BY <1>3 DEF HubUnregisterAgent
    <3>2. \A d \in Conns : d \in Registered' <=> \/ \E u \in Users : d \in clientConns[u]
                                                 \/ \E b \in Agents : agents'[b] = d
      BY <3>1 DEF Registered, ClientListeners
    <3>3. \A u \in Users : runConn \notin clientConns[u]
      BY <2>1 DEF OwnerInv
    <3>4. \A b \in Agents : b # a => agents[b] # runConn
      BY <2>1 DEF OwnerInv
    <3>5. \A d \in Conns : (\E b \in Agents : agents'[b] = d)
                            <=> (\E b \in Agents : agents[b] = d) /\ d # runConn
      BY <2>1, <3>1, <3>4
    <3>6. \A d \in Conns : d \in Registered <=> \/ \E v \in Users : d \in clientConns[v]
                                                \/ \E b \in Agents : agents[b] = d
      BY RegisteredMeans
    <3>. QED
      BY ONLY <3>2, <3>3, <3>5, <3>6
  <2>5. runPc = "unregister" /\ runPc' = "select" /\ handler' = handler
    BY <1>3 DEF HubUnregisterAgent, BackToSelect
  <2>. QED
    BY <2>2, <2>3, <2>4, <2>5 DEF OpenInv, NoDoubleClose, RegistryMatchesOpen, Settled, Accepted
<1>4. CASE HubUnregisterAgent /\ ~CurrentAgentConn(runConn)
  <2>1. UNCHANGED <<closed, panicked, agents, clientConns, handler>>
    BY <1>4 DEF HubUnregisterAgent
  <2>2. Registered' = Registered
    BY <2>1 DEF Registered, ClientListeners
  <2>3. runPc = "unregister" /\ runPc' = "select"
    BY <1>4 DEF HubUnregisterAgent, BackToSelect
  <2>. QED
    BY <2>1, <2>2, <2>3 DEF OpenInv, NoDoubleClose, RegistryMatchesOpen, Settled, Accepted
<1>5. CASE HubUnregisterClient
  <2> DEFINE u == owner[runConn]
  <2>1. u \in Users /\ runConn \in Conns /\ Accepted(runConn)
    BY <1>5 DEF HubUnregisterClient, IsAgent, OwnerInv
  <2>2. ~panicked'
    BY <1>5 DEF HubUnregisterClient, CloseSend, Unclosed, NoDoubleClose
  <2>3. \A d \in Conns : closed'[d] <=> closed[d] \/ d = runConn
    <3>1. CloseSend(Unclosed(runConn))
      BY <1>5 DEF HubUnregisterClient
    <3>. QED
      BY ONLY <2>1, <3>1 DEF CloseSend, Unclosed
  <2>4. \A d \in Conns : d \in Registered' <=> d \in Registered /\ d # runConn
    <3>1. /\ agents' = agents
          /\ clientConns' = [clientConns EXCEPT ![u] = @ \ {runConn}]
      BY <1>5 DEF HubUnregisterClient
    <3>2. \A d \in Conns : d \in Registered' <=> \/ \E v \in Users : d \in clientConns'[v]
                                                 \/ \E b \in Agents : agents[b] = d
      BY <3>1 DEF Registered, ClientListeners
    <3>3. \A b \in Agents : agents[b] # runConn
      <4>1. SUFFICES ASSUME NEW b \in Agents, agents[b] = runConn
                     PROVE  FALSE
        OBVIOUS
      <4>2. agents[b] # None
        BY <2>1, <4>1
      <4>3. owner[runConn] = b
        BY <4>1, <4>2 DEF OwnerInv
      <4>. QED
        BY <2>1, <4>3
    <3>4. \A v \in Users : v # u => runConn \notin clientConns[v]
      BY <2>1 DEF OwnerInv
    <3>5. \A d \in Conns : (\E v \in Users : d \in clientConns'[v])
                            <=> (\E v \in Users : d \in clientConns[v]) /\ d # runConn
      BY <2>1, <3>1, <3>4
    <3>6. \A d \in Conns : d \in Registered <=> \/ \E v \in Users : d \in clientConns[v]
                                                \/ \E b \in Agents : agents[b] = d
      BY RegisteredMeans
    <3>. QED
      BY ONLY <3>2, <3>3, <3>5, <3>6
  <2>5. runPc = "unregister" /\ runPc' = "select" /\ handler' = handler
    BY <1>5 DEF HubUnregisterClient, BackToSelect
  <2>. QED
    BY <2>2, <2>3, <2>4, <2>5 DEF OpenInv, NoDoubleClose, RegistryMatchesOpen, Settled, Accepted
<1>6. ASSUME NEW c \in Conns, HubRecvRegister(c)
      PROVE  (OpenInv /\ NoDoubleClose)'
  <2>1. UNCHANGED <<closed, panicked, agents, clientConns>>
    BY <1>6 DEF HubRecvRegister
  <2>2. Registered' = Registered
    BY <2>1 DEF Registered, ClientListeners
  <2>3. ~Accepted(c) /\ ~closed[c] /\ c \notin Registered
    <3>1. ~Accepted(c)
      BY <1>6 DEF HubRecvRegister, Accepted
    <3>2. ~closed[c]
      BY <3>1 DEF OwnerInv
    <3>3. (\A u \in Users : c \notin clientConns[u]) /\ (\A a \in Agents : agents[a] # c)
      BY <3>1 DEF OwnerInv
    <3>. QED
      BY <3>1, <3>2, <3>3, RegisteredMeans
  <2>4. /\ runPc = "select" /\ runPc' = "register" /\ runConn' = c
        /\ handler' = [handler EXCEPT ![c] = "accepted"]
    BY <1>6 DEF HubRecvRegister
  <2>5. \A d \in Conns : Settled(d)' => Settled(d)
    BY <2>4 DEF Settled, Accepted
  <2>. QED
    BY <2>1, <2>2, <2>3, <2>4, <2>5 DEF OpenInv, NoDoubleClose, RegistryMatchesOpen
<1>7. ASSUME UNCHANGED <<closed, panicked, agents, clientConns, handler>>,
             runPc # "register", runPc' # "register"
      PROVE  (OpenInv /\ NoDoubleClose)'
  <2>1. Registered' = Registered
    BY <1>7 DEF Registered, ClientListeners
  <2>. QED
    BY <1>7, <2>1 DEF OpenInv, NoDoubleClose, RegistryMatchesOpen, Settled, Accepted
<1>8. CASE StartRun \/ RunExit
  BY <1>7, <1>8 DEF StartRun, RunExit
<1>9. ASSUME NEW c \in Conns, HubRecvUnregister(c) \/ HubRecvStale(c)
      PROVE  (OpenInv /\ NoDoubleClose)'
  BY <1>7, <1>9 DEF HubRecvUnregister, HubRecvStale
<1>10. CASE MonitorTick \/ MonitorExit \/ StopCall \/ StopReturn
  BY <1>10, OpenFrame DEF openVars, MonitorTick, MonitorExit, StopCall, StopReturn
<1>11. ASSUME NEW c \in Conns, ConnNext(c)
       PROVE  (OpenInv /\ NoDoubleClose)'
  <2>1. CASE HandleAgentConnect(c) \/ HandleClientConnect(c)
    <3>1. PICK id \in Agents \cup Users, d \in Devices \cup {NoDevice} : Connect(c, id, d)
      BY <2>1 DEF HandleAgentConnect, HandleClientConnect
    <3>2. UNCHANGED <<closed, panicked, agents, clientConns, runPc, runConn>>
      BY <3>1 DEF Connect
    <3>3. Registered' = Registered
      BY <3>2 DEF Registered, ClientListeners
    <3>4. \A e \in Conns : Settled(e)' => Settled(e)
      BY <3>1 DEF Connect, Settled, Accepted
    <3>. QED
      BY <3>2, <3>3, <3>4 DEF OpenInv, NoDoubleClose, RegistryMatchesOpen
  <2>2. CASE SendTo(c) \/ ReadHeartbeat(c) \/ PeerClose(c) \/ HeartbeatExpires(c) \/ ReadFail(c)
                \/ SetAgentStatus(c) \/ BroadcastStatus(c)
    BY <2>2, OpenFrame
       DEF openVars, SendTo, ReadHeartbeat, PeerClose, HeartbeatExpires, ReadFail,
           SetAgentStatus, BroadcastStatus
  <2>4. CASE EmptyStatus(c) \/ LookUpDevices(c) \/ NotifyDevice(c)
    BY <2>4, OpenFrame DEF openVars, EmptyStatus, LookUpDevices, NotifyDevice
  <2>3. CASE WriterSend(c) \/ WriterClose(c) \/ WriteFail(c)
    BY <2>3, OpenFrame DEF openVars, WriterSend, WriterClose, WriteFail, WriterReturns
  <2>. QED
    BY <1>11, <2>1, <2>2, <2>3, <2>4 DEF ConnNext
<1>12. CASE UNCHANGED vars
  BY <1>12, OpenFrame DEF openVars, vars
<1>. QED
  BY <1>1, <1>2, <1>3, <1>4, <1>5, <1>6, <1>8, <1>9, <1>10, <1>11, <1>12
     DEF Next, RunNext, RunBody

(* For any connections, agents, users and devices: run() never closes a     *)
(* channel twice, and a connection the hub has taken in is registered       *)
(* exactly as long as its channel is open.                                  *)
THEOREM HubInvariant == Spec => []HubInv
<1>1. Init => OwnerInv /\ OpenInv /\ NoDoubleClose
  BY DEF Init, OwnerInv, OpenInv, NoDoubleClose, RegistryMatchesOpen, Settled, Accepted
<1>2. TypeInv /\ OwnerInv /\ OpenInv /\ NoDoubleClose /\ [Next]_vars
        => (OwnerInv /\ OpenInv /\ NoDoubleClose)'
  BY OwnerStep, OpenStep DEF HubInv
<1>. QED
  BY <1>1, <1>2, TypeCorrect, PTL DEF Spec, HubInv

(* The close of a replaced connection never panics (hub.go:173, 190).       *)
THEOREM NoDoubleCloseHolds == Spec => []NoDoubleClose
  BY HubInvariant, PTL DEF HubInv

(* Registered and open are the same thing between two steps of run().       *)
THEOREM RegistryMatchesOpenHolds == Spec => []RegistryMatchesOpen
  BY HubInvariant, PTL DEF HubInv, OpenInv

-----------------------------------------------------------------------------

(* No two registered connections of a user name the same device: the one    *)
(* connection that a reconnect of a device can replace is replaced          *)
(* (hub.go:186-195).                                                        *)
THEOREM OneConnPerDeviceHolds == Spec => []OneConnPerDevice
<1>1. Init => OneConnPerDevice
  BY DEF Init, OneConnPerDevice
<1>2. HubInv /\ OneConnPerDevice /\ [Next]_vars => OneConnPerDevice'
  <2> SUFFICES ASSUME HubInv, OneConnPerDevice, [Next]_vars
               PROVE  OneConnPerDevice'
    OBVIOUS
  <2> USE DEF HubInv, TypeInv, TypeOK, RunHolds
  <2> USE DEF connVars, sendVars, registryVars, runVars, stopVars, monitorVars, statusVars
  <2>1. CASE UNCHANGED <<device, clientConns>>
    BY <2>1 DEF OneConnPerDevice
  <2>2. CASE HubRegisterClient
    <3> DEFINE u == owner[runConn]
    <3>1. u \in Users /\ runConn \in Conns /\ device' = device
      BY <2>2 DEF HubRegisterClient, IsAgent, OwnerInv
    <3>2. ASSUME NEW e \in clientConns'[u], e # runConn
          PROVE  /\ e \in clientConns[u]
                 /\ ~(device[e] = device[runConn] /\ device[runConn] # NoDevice)
      <4>1. CASE /\ SameDevice(runConn) = {}
                 /\ clientConns' = [clientConns EXCEPT ![u] = @ \cup {runConn}]
        BY <3>1, <3>2, <4>1 DEF SameDevice
      <4>2. ASSUME NEW old \in SameDevice(runConn),
                   clientConns' = [clientConns EXCEPT ![u] = (@ \ {old}) \cup {runConn}]
            PROVE  /\ e \in clientConns[u]
                   /\ ~(device[e] = device[runConn] /\ device[runConn] # NoDevice)
        <5>1. e \in clientConns[u] /\ e # old
          BY <3>1, <3>2, <4>2
        <5>2. old \in clientConns[u] /\ device[old] = device[runConn]
          BY <4>2 DEF SameDevice
        <5>. QED
          BY <3>1, <5>1, <5>2 DEF OneConnPerDevice
      <4>. QED
        BY <2>2, <4>1, <4>2 DEF HubRegisterClient
    <3>3. \A v \in Users : v # u => clientConns'[v] = clientConns[v]
      BY <2>2, <3>1 DEF HubRegisterClient
    <3>. QED
      BY <3>1, <3>2, <3>3 DEF OneConnPerDevice
  <2>3. CASE HubUnregisterClient
    <3>1. device' = device /\ \A v \in Users : clientConns'[v] \subseteq clientConns[v]
      BY <2>3 DEF HubUnregisterClient
    <3>. QED
      BY <3>1 DEF OneConnPerDevice
  <2>4. ASSUME NEW c \in Conns, HandleAgentConnect(c) \/ HandleClientConnect(c)
        PROVE  OneConnPerDevice'
    <3>1. PICK id \in Agents \cup Users, d \in Devices \cup {NoDevice} : Connect(c, id, d)
      BY <2>4 DEF HandleAgentConnect, HandleClientConnect
    <3>2. clientConns' = clientConns /\ \A e \in Conns : e # c => device'[e] = device[e]
      BY <3>1 DEF Connect
    <3>3. \A v \in Users : c \notin clientConns[v]
      BY <3>1 DEF Connect, OwnerInv, Accepted
    <3>4. \A v \in Users : \A e \in clientConns[v] : device'[e] = device[e]
      BY <3>2, <3>3
    <3>. QED
      BY <3>2, <3>4 DEF OneConnPerDevice
  <2>5. ASSUME NEW c \in Conns,
               ConnNext(c), ~HandleAgentConnect(c), ~HandleClientConnect(c)
        PROVE  UNCHANGED <<device, clientConns>>
    BY <2>5 DEF ConnNext, SendTo, ReadHeartbeat, SetAgentStatus, BroadcastStatus, ReadFail,
                EmptyStatus, LookUpDevices, NotifyDevice,
                WriterSend, WriterClose, WriteFail, WriterReturns, PeerClose, HeartbeatExpires
  <2>6. CASE MonitorTick \/ MonitorExit \/ StopCall \/ StopReturn \/ StartRun \/ RunExit
    BY <2>1, <2>6 DEF MonitorTick, MonitorExit, StopCall, StopReturn, StartRun, RunExit
  <2>7. CASE HubRegisterAgent \/ HubUnregisterAgent
    BY <2>1, <2>7 DEF HubRegisterAgent, HubUnregisterAgent
  <2>8. ASSUME NEW c \in Conns, HubRecvRegister(c) \/ HubRecvUnregister(c) \/ HubRecvStale(c)
        PROVE  OneConnPerDevice'
    BY <2>1, <2>8 DEF HubRecvRegister, HubRecvUnregister, HubRecvStale
  <2>9. CASE UNCHANGED vars
    BY <2>1, <2>9 DEF vars
  <2>. QED
    BY <2>1, <2>2, <2>3, <2>4, <2>5, <2>6, <2>7, <2>8, <2>9 DEF Next, RunNext, RunBody
<1>. QED
  BY <1>1, <1>2, HubInvariant, PTL DEF Spec

-----------------------------------------------------------------------------

(* Without monitoring, what run() unregisters is a connection whose read    *)
(* pump has ended.                                                          *)
LEMMA CauseStep == TypeInv /\ CauseInv /\ [Next]_vars => CauseInv'
<1> SUFFICES ASSUME TypeInv, CauseInv, [Next]_vars, ~HeartbeatEnabled
             PROVE  CauseInv'
  BY DEF CauseInv
<1> USE DEF TypeInv, TypeOK, RunHolds, CauseInv
<1> USE DEF connVars, sendVars, registryVars, runVars, stopVars, monitorVars, statusVars
<1>1. CASE StartRun \/ RunExit
  BY <1>1 DEF StartRun, RunExit
<1>2. CASE RunBody
  BY <1>2 DEF RunBody, HubRegisterAgent, HubRegisterClient, HubUnregisterAgent,
              HubUnregisterClient, BackToSelect
<1>3. ASSUME NEW c \in Conns, HubRecvRegister(c) \/ HubRecvUnregister(c) \/ HubRecvStale(c)
      PROVE  CauseInv'
  BY <1>3 DEF HubRecvRegister, HubRecvUnregister, HubRecvStale
<1>4. CASE MonitorTick \/ MonitorExit \/ StopCall \/ StopReturn
  BY <1>4 DEF MonitorTick, MonitorExit, StopCall, StopReturn, StaleConns
<1>5. ASSUME NEW c \in Conns, ConnNext(c)
      PROVE  CauseInv'
  <2>1. CASE HandleAgentConnect(c) \/ HandleClientConnect(c)
    BY <2>1 DEF HandleAgentConnect, HandleClientConnect, Connect
  <2>2. CASE ReadFail(c)
    BY <2>2 DEF ReadFail
  <2>3. CASE SendTo(c) \/ ReadHeartbeat(c) \/ PeerClose(c) \/ HeartbeatExpires(c)
    BY <2>3 DEF SendTo, ReadHeartbeat, PeerClose, HeartbeatExpires
  <2>5. CASE SetAgentStatus(c) \/ BroadcastStatus(c) \/ EmptyStatus(c)
               \/ LookUpDevices(c) \/ NotifyDevice(c)
    BY <2>5 DEF SetAgentStatus, BroadcastStatus, EmptyStatus, LookUpDevices, NotifyDevice
  <2>4. CASE WriterSend(c) \/ WriterClose(c) \/ WriteFail(c)
    BY <2>4 DEF WriterSend, WriterClose, WriteFail, WriterReturns
  <2>. QED
    BY <1>5, <2>1, <2>2, <2>3, <2>4, <2>5 DEF ConnNext
<1>6. CASE UNCHANGED vars
  BY <1>6 DEF vars
<1>. QED
  BY <1>1, <1>2, <1>3, <1>4, <1>5, <1>6 DEF Next, RunNext

(* A replaced connection never takes the agent offline: an agent leaves the *)
(* registry only through its current connection (hub.go:209).               *)
THEOREM OfflineForCauseHolds == Spec => OfflineForCause
<1>1. Init => CauseInv
  BY DEF Init, CauseInv
<1>2. TypeInv /\ CauseInv /\ [Next]_vars
        => [\A a \in Dropped : reader[agents[a]] = "done" \/ HeartbeatEnabled]_vars
  <2> SUFFICES ASSUME TypeInv, CauseInv, Next, NEW a \in Dropped, ~HeartbeatEnabled
               PROVE  reader[agents[a]] = "done"
    BY DEF CauseInv
  <2> USE DEF TypeInv, TypeOK, RunHolds
  <2> USE DEF connVars, sendVars, registryVars, runVars, stopVars, monitorVars, statusVars
  <2>1. a \in Agents /\ agents[a] # None /\ agents'[a] = None
    BY DEF Dropped
  <2>2. CASE HubUnregisterAgent
    BY <2>1, <2>2 DEF HubUnregisterAgent, CurrentAgentConn, CauseInv, IsAgent
  <2>3. CASE HubRegisterAgent
    BY <2>1, <2>3, IdentityAssumption DEF HubRegisterAgent, IsAgent
  <2>4. CASE UNCHANGED agents
    BY <2>1, <2>4
  <2>5. RunNext => HubUnregisterAgent \/ HubRegisterAgent \/ UNCHANGED agents
    BY DEF RunNext, RunBody, StartRun, HubRegisterClient, HubUnregisterClient, RunExit,
           HubRecvRegister, HubRecvUnregister, HubRecvStale
  <2>6. MonitorTick \/ MonitorExit \/ StopCall \/ StopReturn => UNCHANGED agents
    BY DEF MonitorTick, MonitorExit, StopCall, StopReturn
  <2>7. \A c \in Conns : ConnNext(c) => UNCHANGED agents
    BY DEF ConnNext, HandleAgentConnect, HandleClientConnect, Connect, SendTo,
           ReadHeartbeat, SetAgentStatus, BroadcastStatus, EmptyStatus, LookUpDevices,
           NotifyDevice, ReadFail, WriterSend, WriterClose, WriteFail, WriterReturns, PeerClose,
           HeartbeatExpires
  <2>. QED
    BY <2>2, <2>3, <2>4, <2>5, <2>6, <2>7 DEF Next
<1>. QED
  BY <1>1, <1>2, CauseStep, TypeCorrect, PTL DEF Spec, OfflineForCause

-----------------------------------------------------------------------------

\* The state that presence is about.
presenceVars == <<heard, lost, agents, clientConns, statusVars>>

(* Only broadcasts, status updates and changes of the registries            *)
(* (hub.go:163-249, 438-445) bear on what clients were told about agents.   *)
LEMMA PresenceFrame ==
  ASSUME PresenceTruth, AnnouncedIsSet, UNCHANGED presenceVars
  PROVE  PresenceTruth' /\ AnnouncedIsSet'
<1> USE DEF presenceVars, statusVars
<1>1. \A a \in Agents : /\ Announcing(a)' <=> Announcing(a)
                        /\ Telling(a)' <=> Telling(a)
                        /\ AgentStatus(a)' = AgentStatus(a)
  BY DEF Announcing, Telling, AgentStatus
<1>2. AnnouncedIsSet'
  BY <1>1 DEF AnnouncedIsSet
<1>3. PresenceTruth'
  BY <1>1 DEF PresenceTruth, ClientListeners
<1>. QED
  BY <1>2, <1>3

(* What a listener that was reached hears is the word that was sent, and    *)
(* nothing changes about other agents (hub.go:382-412).                     *)
LEMMA BroadcastTells ==
  ASSUME TypeOK, NEW a \in Agents, NEW word, Broadcast(a, word),
         NEW c \in ClientListeners, NEW b \in Agents, b \notin lost'[c]
  PROVE  /\ b = a => heard'[c][b] = word
         /\ b # a => heard'[c][b] = heard[c][b] /\ b \notin lost[c]
<1>1. c \in Conns
  BY DEF ClientListeners, TypeOK
<1>2. CASE b = a
  <2>1. SafeSendOK(c)
    BY <1>1, <1>2 DEF Broadcast, TypeOK
  <2>. QED
    BY <1>1, <1>2, <2>1 DEF Broadcast, TypeOK
<1>3. CASE b # a
  BY <1>1, <1>3 DEF Broadcast, TypeOK
<1>. QED
  BY <1>2, <1>3

(* A broadcast about an agent that says what AgentStatus says after the     *)
(* step, or that is marked as crossed, keeps what clients were told true    *)
(* (hub.go:175-181, 210-219, routing.go:317-370).                           *)
LEMMA BroadcastIsTrue ==
  ASSUME TypeOK, PresenceTruth, NEW a \in Agents, NEW word, Broadcast(a, word),
         clientConns' = clientConns,
         a \notin crossed' => word = AgentStatus(a)',
         \A b \in Agents : b # a =>
           /\ agents'[b] = agents[b] /\ status'[b] = status[b]
           /\ b \in crossed => b \in crossed'
           /\ Announcing(b) => Announcing(b)'
  PROVE  PresenceTruth'
<1> SUFFICES ASSUME NEW c \in ClientListeners, NEW b \in Agents,
                    b \notin lost'[c], b \notin crossed', heard'[c][b] # "unknown",
                    ~Announcing(b)'
             PROVE  heard'[c][b] = AgentStatus(b)'
  BY DEF PresenceTruth, ClientListeners
<1>1. CASE b = a
  BY <1>1, BroadcastTells
<1>2. CASE b # a
  <2>1. heard'[c][b] = heard[c][b] /\ b \notin lost[c] /\ b \notin crossed /\ ~Announcing(b)
    BY <1>2, BroadcastTells
  <2>2. heard[c][b] = AgentStatus(b)
    BY <2>1 DEF PresenceTruth
  <2>. QED
    BY <1>2, <2>1, <2>2 DEF AgentStatus
<1>. QED
  BY <1>1, <1>2

(* A connection in a device list was put there by the client branch of      *)
(* run() (hub.go:196-198), which had then finished with it.                 *)
LEMMA ListenersSettled ==
  ASSUME HubInv, NEW c \in ClientListeners
  PROVE  c \in Conns /\ Settled(c)
<1>1. PICK u \in Users : c \in clientConns[u]
  BY DEF ClientListeners
<1>2. c \in Conns /\ Accepted(c)
  BY <1>1 DEF HubInv, TypeInv, TypeOK, OwnerInv
<1>3. c \in Registered
  BY DEF Registered
<1>. QED
  BY <1>2, <1>3 DEF HubInv, OpenInv, Settled

(* No presence event reaches a connection before run() has registered it:   *)
(* broadcastPresence goes through the device lists (hub.go:407-411).        *)
LEMMA UnsettledStep ==
  HubInv /\ UnsettledHeardNothing /\ RecipientsSettled /\ [Next]_vars => UnsettledHeardNothing'
<1> SUFFICES ASSUME HubInv, UnsettledHeardNothing, RecipientsSettled, [Next]_vars,
                    NEW c \in Conns, ~Settled(c)', NEW a \in Agents
             PROVE  heard'[c][a] = "unknown"
  BY DEF UnsettledHeardNothing
<1> USE DEF HubInv, TypeInv, TypeOK, RunHolds, AgentsAnnounce
<1> USE DEF connVars, sendVars, registryVars, runVars, stopVars, monitorVars, statusVars
<1>1. CASE RunBody
  <2>1. ~Accepted(c)
    BY <1>1 DEF RunBody, HubRegisterAgent, HubRegisterClient, HubUnregisterAgent,
                HubUnregisterClient, BackToSelect, Settled, Accepted
  <2>2. c \notin ClientListeners /\ heard[c][a] = "unknown"
    BY <2>1, ListenersSettled DEF UnsettledHeardNothing, Settled
  <2>3. CASE HubRegisterAgent \/ HubUnregisterAgent
    BY <2>2, <2>3 DEF HubRegisterAgent, HubUnregisterAgent, Broadcast
  <2>4. CASE HubRegisterClient \/ HubUnregisterClient
    <3>1. PICK S : Forget(S)
      BY <2>4 DEF HubRegisterClient, HubUnregisterClient
    <3>. QED
      BY <2>2, <3>1 DEF Forget
  <2>. QED
    BY <1>1, <2>3, <2>4 DEF RunBody
<1>2. CASE UNCHANGED heard /\ ~Settled(c)
  BY <1>2 DEF UnsettledHeardNothing
<1>3. CASE StartRun \/ RunExit
  BY <1>2, <1>3 DEF StartRun, RunExit, Settled, Accepted
<1>4. ASSUME NEW d \in Conns, HubRecvRegister(d) \/ HubRecvUnregister(d) \/ HubRecvStale(d)
      PROVE  heard'[c][a] = "unknown"
  BY <1>2, <1>4 DEF HubRecvRegister, HubRecvUnregister, HubRecvStale, Settled, Accepted
<1>5. CASE MonitorTick \/ MonitorExit \/ StopCall \/ StopReturn
  BY <1>2, <1>5 DEF MonitorTick, MonitorExit, StopCall, StopReturn, Settled, Accepted
<1>6. ASSUME NEW d \in Conns, ConnNext(d)
      PROVE  heard'[c][a] = "unknown"
  <2>1. CASE HandleAgentConnect(d) \/ HandleClientConnect(d)
    BY <1>2, <2>1 DEF HandleAgentConnect, HandleClientConnect, Connect, Settled, Accepted
  <2>2. CASE SendTo(d) \/ ReadHeartbeat(d) \/ ReadFail(d) \/ PeerClose(d) \/ HeartbeatExpires(d)
    BY <1>2, <2>2 DEF SendTo, ReadHeartbeat, ReadFail, PeerClose, HeartbeatExpires, Settled,
                      Accepted
  <2>3. CASE WriterSend(d) \/ WriterClose(d) \/ WriteFail(d)
    BY <1>2, <2>3 DEF WriterSend, WriterClose, WriteFail, WriterReturns, Settled, Accepted
  <2>4. CASE SetAgentStatus(d) \/ EmptyStatus(d) \/ LookUpDevices(d)
    BY <1>2, <2>4 DEF SetAgentStatus, EmptyStatus, LookUpDevices, Settled, Accepted
  <2>5. CASE BroadcastStatus(d)
    <3>1. ~Settled(c)
      BY <2>5 DEF BroadcastStatus, Settled, Accepted
    <3>2. c \notin ClientListeners /\ heard[c][a] = "unknown"
      BY <3>1, ListenersSettled DEF UnsettledHeardNothing
    <3>. QED
      BY <2>5, <3>2 DEF BroadcastStatus, Broadcast
  <2>6. CASE NotifyDevice(d)
    <3>1. PICK e \in recipients[d] : NotifiedAs(d, e)
      BY <2>6, NotifyMeans
    <3>2. ~Settled(c)
      BY <3>1 DEF NotifiedAs, Settled, Accepted
    <3>3. c # e
      BY <3>2 DEF RecipientsSettled
    <3>4. heard'[c] = heard[c]
      BY <3>1, <3>3 DEF NotifiedAs
    <3>. QED
      BY <3>2, <3>4 DEF UnsettledHeardNothing
  <2>. QED
    BY <1>6, <2>1, <2>2, <2>3, <2>4, <2>5, <2>6 DEF ConnNext
<1>7. CASE UNCHANGED vars
  BY <1>2, <1>7 DEF vars, Settled, Accepted
<1>. QED
  BY <1>1, <1>3, <1>4, <1>5, <1>6, <1>7 DEF Next, RunNext

(* run() finishes the registration of a connection once (hub.go:163-205).   *)
LEMMA SettledStays ==
  ASSUME HubInv, [Next]_vars, NEW c \in Conns, Settled(c)
  PROVE  Settled(c)'
<1> USE DEF HubInv, TypeInv, TypeOK, Settled, Accepted
<1> USE DEF connVars, sendVars, registryVars, runVars, stopVars, monitorVars, statusVars
<1>1. CASE RunBody
  BY <1>1 DEF RunBody, HubRegisterAgent, HubRegisterClient, HubUnregisterAgent,
              HubUnregisterClient, BackToSelect
<1>2. CASE UNCHANGED <<handler, runPc, runConn>>
  BY <1>2
<1>3. CASE StartRun \/ RunExit
  BY <1>3 DEF StartRun, RunExit
<1>4. ASSUME NEW d \in Conns, HubRecvRegister(d) \/ HubRecvUnregister(d) \/ HubRecvStale(d)
      PROVE  Settled(c)'
  BY <1>4 DEF HubRecvRegister, HubRecvUnregister, HubRecvStale
<1>5. CASE MonitorTick \/ MonitorExit \/ StopCall \/ StopReturn
  BY <1>2, <1>5 DEF MonitorTick, MonitorExit, StopCall, StopReturn
<1>6. ASSUME NEW d \in Conns, ConnNext(d)
      PROVE  Settled(c)'
  <2>1. CASE HandleAgentConnect(d) \/ HandleClientConnect(d)
    BY <2>1 DEF HandleAgentConnect, HandleClientConnect, Connect
  <2>2. CASE ~(HandleAgentConnect(d) \/ HandleClientConnect(d))
    <3>1. UNCHANGED <<handler, runPc, runConn>>
      BY <1>6, <2>2
         DEF ConnNext, SendTo, ReadHeartbeat, SetAgentStatus, BroadcastStatus, EmptyStatus,
             LookUpDevices, NotifyDevice, ReadFail, WriterSend, WriterClose, WriteFail,
             WriterReturns, PeerClose, HeartbeatExpires
    <3>. QED
      BY <1>2, <3>1
  <2>. QED
    BY <2>1, <2>2
<1>7. CASE UNCHANGED vars
  BY <1>2, <1>7 DEF vars
<1>. QED
  BY <1>1, <1>3, <1>4, <1>5, <1>6, <1>7 DEF Next, RunNext

(* A copied device list holds connections that run() had registered         *)
(* (hub.go:359-365).                                                        *)
LEMMA RecipientsStep == HubInv /\ RecipientsSettled /\ [Next]_vars => RecipientsSettled'
<1> SUFFICES ASSUME HubInv, RecipientsSettled, [Next]_vars,
                    NEW c \in Conns, NEW d \in recipients'[c]
             PROVE  d \in Conns /\ Settled(d)'
  BY DEF RecipientsSettled
<1> USE DEF connVars, sendVars, registryVars, runVars, stopVars, monitorVars, statusVars
<1>1. recipients \in [Conns -> SUBSET Conns]
  BY DEF HubInv, TypeInv, TypeOK
<1>2. d \in recipients[c] \/ d \in ClientListeners
  <2>1. CASE UNCHANGED recipients
    BY <2>1
  <2>2. ASSUME NEW e \in Conns, LookUpDevices(e)
        PROVE  d \in recipients[c] \/ d \in ClientListeners
    BY <1>1, <2>2 DEF LookUpDevices, ClientListeners
  <2>3. ASSUME NEW e \in Conns, NotifyDevice(e)
        PROVE  d \in recipients[c]
    BY <1>1, <2>3 DEF NotifyDevice
  <2>4. RunNext \/ MonitorTick \/ MonitorExit \/ StopCall \/ StopReturn => UNCHANGED recipients
    BY DEF RunNext, RunBody, StartRun, HubRegisterAgent, HubRegisterClient, HubUnregisterAgent,
           HubUnregisterClient, RunExit, HubRecvRegister, HubRecvUnregister, HubRecvStale,
           MonitorTick, MonitorExit, StopCall, StopReturn
  <2>5. ASSUME NEW e \in Conns, ConnNext(e), ~LookUpDevices(e), ~NotifyDevice(e)
        PROVE  UNCHANGED recipients
    BY <2>5
       DEF ConnNext, HandleAgentConnect, HandleClientConnect, Connect, SendTo, ReadHeartbeat,
           SetAgentStatus, BroadcastStatus, EmptyStatus, ReadFail, WriterSend, WriterClose,
           WriteFail, WriterReturns, PeerClose, HeartbeatExpires
  <2>. QED
    BY <2>1, <2>2, <2>3, <2>4, <2>5 DEF Next, vars
<1>3. d \in Conns /\ Settled(d)
  BY <1>2, ListenersSettled DEF RecipientsSettled
<1>. QED
  BY <1>3, SettledStays

(* Which step of run() or of a read pump (hub.go:163-249, routing.go:317-370)*)
(* keeps what clients were told true, and why.                              *)
LEMMA PresenceStep ==
  HubInv /\ PresenceInv /\ [Next]_vars => (PresenceTruth /\ AnnouncedIsSet)'
<1> SUFFICES ASSUME HubInv, PresenceInv, [Next]_vars
             PROVE  (PresenceTruth /\ AnnouncedIsSet)'
  OBVIOUS
<1> USE DEF HubInv, TypeInv, TypeOK, RunHolds, AgentsAnnounce, PresenceInv
<1> USE DEF connVars, sendVars, registryVars, runVars, stopVars, monitorVars, statusVars
<1>1. CASE HubRegisterAgent
  <2>1. PICK a \in Agents : a = owner[runConn] /\ runConn \in Conns /\ runConn # None
    BY <1>1, IdentityAssumption DEF HubRegisterAgent, IsAgent
  <2>2. /\ agents' = [agents EXCEPT ![a] = runConn]
        /\ status' = [status EXCEPT ![a] = "unset"]
        /\ announcing' = announcing /\ telling' = telling
        /\ crossed' = IF Idle(runConn) THEN crossed \ {a} ELSE crossed \cup {a}
        /\ clientConns' = clientConns
        /\ Broadcast(a, "online")
    BY <1>1, <2>1 DEF HubRegisterAgent
  <2>3. AgentStatus(a)' = "online"
    BY <2>1, <2>2 DEF AgentStatus
  <2>4. \A b \in Agents : b # a =>
          /\ agents'[b] = agents[b] /\ status'[b] = status[b]
          /\ b \in crossed <=> b \in crossed'
          /\ Announcing(b) <=> Announcing(b)'
          /\ Telling(b) <=> Telling(b)'
    BY <2>1, <2>2 DEF Announcing, Telling
  <2>8. TypeOK /\ PresenceTruth
    OBVIOUS
  <2>5. PresenceTruth'
    BY ONLY <2>1, <2>2, <2>3, <2>4, <2>8, BroadcastIsTrue
  <2>6. Announcing(a)' \/ Telling(a)' => a \in crossed'
    BY <2>1, <2>2 DEF Announcing, Telling, Idle
  <2>. QED
    BY <2>2, <2>4, <2>5, <2>6 DEF AnnouncedIsSet
<1>2. CASE HubUnregisterAgent /\ CurrentAgentConn(runConn)
  <2>1. PICK a \in Agents : a = owner[runConn]
    BY <1>2 DEF HubUnregisterAgent, IsAgent
  <2>2. /\ agents' = [agents EXCEPT ![a] = None]
        /\ status' = [status EXCEPT ![a] = "unset"]
        /\ announcing' = announcing /\ telling' = telling
        /\ crossed' = crossed \ {a}
        /\ clientConns' = clientConns
        /\ Broadcast(a, "offline")
    BY <1>2, <2>1 DEF HubUnregisterAgent
  <2>3. AgentStatus(a)' = "offline" /\ ~Announcing(a)' /\ ~Telling(a)'
    BY <2>1, <2>2 DEF AgentStatus, Announcing, Telling
  <2>4. \A b \in Agents : b # a =>
          /\ agents'[b] = agents[b] /\ status'[b] = status[b]
          /\ b \in crossed <=> b \in crossed'
          /\ Announcing(b) <=> Announcing(b)'
          /\ Telling(b) <=> Telling(b)'
    BY <2>1, <2>2 DEF Announcing, Telling
  <2>8. TypeOK /\ PresenceTruth
    OBVIOUS
  <2>5. PresenceTruth'
    BY ONLY <2>1, <2>2, <2>3, <2>4, <2>8, BroadcastIsTrue
  <2>. QED
    BY <2>2, <2>3, <2>4, <2>5 DEF AnnouncedIsSet
<1>3. CASE HubUnregisterAgent /\ ~CurrentAgentConn(runConn)
  BY <1>3, PresenceFrame DEF HubUnregisterAgent, presenceVars
<1>4. ASSUME NEW S, Forget(S), UNCHANGED <<agents, statusVars>>,
             \A d \in ClientListeners' : d \in Conns /\ (d \in ClientListeners \/ ~Settled(d))
      PROVE  (PresenceTruth /\ AnnouncedIsSet)'
  <2>1. AnnouncedIsSet'
    BY <1>4 DEF AnnouncedIsSet, Announcing, Telling
  <2>2. ASSUME NEW d \in ClientListeners', NEW b \in Agents,
               b \notin lost'[d], b \notin crossed, heard'[d][b] # "unknown", ~Announcing(b)
        PROVE  heard'[d][b] = AgentStatus(b)
    <3>1. d \in Conns /\ d \notin S
      BY <1>4, <2>2 DEF Forget
    <3>2. heard'[d] = heard[d] /\ lost'[d] = lost[d]
      BY <1>4, <3>1 DEF Forget
    <3>3. d \in ClientListeners
      BY <1>4, <2>2, <3>2 DEF UnsettledHeardNothing
    <3>. QED
      BY <2>2, <3>2, <3>3 DEF PresenceTruth
  <2>3. \A b \in Agents : AgentStatus(b)' = AgentStatus(b) /\ (Announcing(b)' <=> Announcing(b))
    BY <1>4 DEF AgentStatus, Announcing
  <2>. QED
    BY <1>4, <2>1, <2>2, <2>3 DEF PresenceTruth
<1>5. CASE HubRegisterClient
  <2>1. runConn \in Conns /\ ~Settled(runConn)
    BY <1>5 DEF HubRegisterClient, Settled
  <2>2. \A v \in Users : clientConns'[v] \subseteq clientConns[v] \cup {runConn}
    <3>1. owner[runConn] \in Users
      BY <1>5 DEF HubRegisterClient, IsAgent, OwnerInv
    <3>2. CASE clientConns' = [clientConns EXCEPT ![owner[runConn]] = @ \cup {runConn}]
      BY <3>1, <3>2
    <3>3. ASSUME NEW old \in SameDevice(runConn),
                 clientConns' = [clientConns EXCEPT ![owner[runConn]] = (@ \ {old}) \cup {runConn}]
          PROVE  \A v \in Users : clientConns'[v] \subseteq clientConns[v] \cup {runConn}
      BY <3>1, <3>3
    <3>. QED
      BY <1>5, <3>2, <3>3 DEF HubRegisterClient
  <2>3. \A d \in ClientListeners' : d \in Conns /\ (d \in ClientListeners \/ ~Settled(d))
    BY <2>1, <2>2 DEF ClientListeners
  <2>4. PICK S : Forget(S)
    BY <1>5 DEF HubRegisterClient
  <2>5. UNCHANGED <<agents, statusVars>>
    BY <1>5 DEF HubRegisterClient
  <2>. QED
    BY <1>4, <2>3, <2>4, <2>5
<1>6. CASE HubUnregisterClient
  <2>1. \A d \in ClientListeners' : d \in Conns /\ d \in ClientListeners
    BY <1>6 DEF HubUnregisterClient, ClientListeners
  <2>. QED
    BY <1>4, <1>6, <2>1 DEF HubUnregisterClient
<1>7. CASE StartRun \/ RunExit \/ MonitorTick \/ MonitorExit \/ StopCall \/ StopReturn
  BY <1>7, PresenceFrame
     DEF presenceVars, StartRun, RunExit, MonitorTick, MonitorExit, StopCall, StopReturn
<1>8. ASSUME NEW c \in Conns, HubRecvRegister(c) \/ HubRecvUnregister(c) \/ HubRecvStale(c)
      PROVE  (PresenceTruth /\ AnnouncedIsSet)'
  BY <1>8, PresenceFrame DEF presenceVars, HubRecvRegister, HubRecvUnregister, HubRecvStale
<1>9. ASSUME NEW c \in Conns, SetAgentStatus(c)
      PROVE  (PresenceTruth /\ AnnouncedIsSet)'
  <2>9. PICK word \in Statuses \ {"unset"} :
          /\ owner[c] \in Agents /\ Idle(c)
          /\ status' = [status EXCEPT ![owner[c]] = IF agents[owner[c]] = None THEN @ ELSE word]
          /\ announcing' = [announcing EXCEPT ![c] = word]
          /\ crossed' = CrossedBy(c)
          /\ UNCHANGED <<heard, lost, agents, clientConns, telling>>
    BY <1>9 DEF SetAgentStatus, IsAgent
  <2>1. PICK a \in Agents :
          /\ a = owner[c] /\ announcing[c] = "unset" /\ telling[c] = "nothing"
          /\ status' = [status EXCEPT ![a] = IF agents[a] = None THEN @ ELSE word]
          /\ announcing' = [announcing EXCEPT ![c] = word]
          /\ crossed' = IF agents[a] = c THEN crossed ELSE crossed \cup {a}
          /\ UNCHANGED <<heard, lost, agents, clientConns, telling>>
    BY <2>9 DEF Idle, CrossedBy
  <2>2. word # "unset"
    OBVIOUS
  <2>3. \A b \in Agents : agents[b] = c => b = a
    BY <2>1, IdentityAssumption DEF OwnerInv
  <2>4. \A b \in Agents : b # a =>
          /\ status'[b] = status[b] /\ (b \in crossed <=> b \in crossed')
          /\ agents[b] # None => announcing'[agents[b]] = announcing[agents[b]]
    BY <2>1, <2>3
  <2>5. a \in crossed' \/ (agents[a] = c /\ Announcing(a)' /\ status'[a] = announcing'[c])
    BY <2>1, <2>2, IdentityAssumption DEF Announcing
  <2>8. a \in crossed' \/ ~Telling(a)'
    BY <2>1 DEF Telling
  <2>6. AnnouncedIsSet'
    BY <2>1, <2>4, <2>5, <2>8 DEF AnnouncedIsSet, Announcing, Telling
  <2>7. PresenceTruth'
    <3> SUFFICES ASSUME NEW d \in ClientListeners, NEW b \in Agents, b \notin lost[d],
                        b \notin crossed', heard[d][b] # "unknown", ~Announcing(b)'
                 PROVE  heard[d][b] = AgentStatus(b)'
      <4>1. ClientListeners' = ClientListeners /\ heard' = heard /\ lost' = lost
        BY <2>1 DEF ClientListeners
      <4>. QED
        BY <4>1 DEF PresenceTruth
    <3>1. b # a
      BY <2>5
    <3>2. b \notin crossed /\ ~Announcing(b) /\ AgentStatus(b)' = AgentStatus(b)
      BY <2>1, <2>4, <3>1 DEF Announcing, AgentStatus
    <3>. QED
      BY <3>2 DEF PresenceTruth
  <2>. QED
    BY <2>6, <2>7
<1>10. ASSUME NEW c \in Conns, BroadcastStatus(c)
       PROVE  (PresenceTruth /\ AnnouncedIsSet)'
  <2>1. PICK a \in Agents, word \in Statuses :
          /\ a = owner[c] /\ announcing[c] = word /\ word # "unset"
          /\ Broadcast(a, word)
          /\ announcing' = [announcing EXCEPT ![c] = "unset"]
          /\ telling' \in {telling, [telling EXCEPT ![c] = word]}
          /\ crossed' = IF agents[a] = c THEN crossed ELSE crossed \cup {a}
          /\ UNCHANGED <<status, agents, clientConns>>
    BY <1>10 DEF BroadcastStatus, CrossedBy
  <2>2. \A b \in Agents : agents[b] = c => b = a
    BY <2>1, IdentityAssumption DEF OwnerInv
  <2>3. \A b \in Agents : b # a =>
          /\ b \in crossed <=> b \in crossed'
          /\ Announcing(b) <=> Announcing(b)'
          /\ agents[b] # None => announcing'[agents[b]] = announcing[agents[b]]
    BY <2>1, <2>2 DEF Announcing
  <2>7. \A b \in Agents : b # a /\ agents[b] # None => telling'[agents[b]] = telling[agents[b]]
    BY <2>1, <2>2
  <2>4. a \notin crossed' =>
          agents[a] = c /\ status[a] = word /\ word = AgentStatus(a)' /\ ~Announcing(a)'
    <3>1. SUFFICES ASSUME a \notin crossed'
                   PROVE  agents[a] = c /\ status[a] = word /\ word = AgentStatus(a)' /\ ~Announcing(a)'
      OBVIOUS
    <3>2. agents[a] = c /\ a \notin crossed
      BY <2>1, <3>1
    <3>3. status[a] = word /\ word # "unset"
      BY <2>1, <3>2, IdentityAssumption DEF AnnouncedIsSet, Announcing
    <3>. QED
      BY <2>1, <3>2, <3>3, IdentityAssumption DEF AgentStatus, Announcing
  <2>9. TypeOK /\ PresenceTruth
    OBVIOUS
  <2>5. PresenceTruth'
    BY ONLY <2>1, <2>3, <2>4, <2>9, BroadcastIsTrue
  <2>8. a \notin crossed' /\ Telling(a)' => status[a] = telling'[agents[a]]
    <3> SUFFICES ASSUME a \notin crossed', Telling(a)'
                 PROVE  status[a] = telling'[c]
      BY <2>4
    <3>1. a \notin crossed /\ agents[a] = c /\ agents' = agents
      BY <2>1, <2>4
    <3>2. CASE telling' = telling
      BY <3>1, <3>2 DEF AnnouncedIsSet, Telling
    <3>3. CASE telling' = [telling EXCEPT ![c] = word]
      BY <2>4, <3>3
    <3>. QED
      BY <2>1, <3>2, <3>3
  <2>6. AnnouncedIsSet'
    <3> SUFFICES ASSUME NEW b \in Agents, b \notin crossed'
                 PROVE  /\ Announcing(b)' => status[b] = announcing'[agents[b]]
                        /\ Telling(b)' => status[b] = telling'[agents[b]]
      BY <2>1 DEF AnnouncedIsSet
    <3>1. CASE b = a
      BY <2>4, <2>8, <3>1
    <3>2. CASE b # a
      BY <2>1, <2>3, <2>7, <3>2 DEF AnnouncedIsSet, Announcing, Telling
    <3>. QED
      BY <3>1, <3>2
  <2>. QED
    BY <2>5, <2>6
<1>13. ASSUME UNCHANGED <<agents, clientConns, status, announcing>>,
              \A b \in Agents :
                /\ b \in crossed => b \in crossed'
                /\ Telling(b)' => Telling(b) /\ telling'[agents[b]] = telling[agents[b]]
       PROVE  AnnouncedIsSet'
  BY <1>13 DEF AnnouncedIsSet, Announcing
<1>14. ASSUME NEW c \in Conns, EmptyStatus(c) \/ LookUpDevices(c)
       PROVE  (PresenceTruth /\ AnnouncedIsSet)'
  <2>1. UNCHANGED <<heard, lost, agents, clientConns, status, announcing, crossed>>
    BY <1>14 DEF EmptyStatus, LookUpDevices
  <2>2. \A d \in Conns : telling'[d] = telling[d] \/ telling'[d] \in {"unset", "nothing"}
    BY <1>14 DEF EmptyStatus, LookUpDevices
  <2>3. AnnouncedIsSet'
    BY <1>13, <2>1, <2>2 DEF Telling
  <2>5. /\ ClientListeners' = ClientListeners
        /\ \A b \in Agents : AgentStatus(b)' = AgentStatus(b) /\ (Announcing(b)' <=> Announcing(b))
    BY <2>1 DEF ClientListeners, AgentStatus, Announcing
  <2>4. PresenceTruth'
    BY <2>1, <2>5 DEF PresenceTruth
  <2>. QED
    BY <2>3, <2>4
<1>15. ASSUME NEW c \in Conns, NotifyDevice(c)
       PROVE  (PresenceTruth /\ AnnouncedIsSet)'
  <2>1. PICK d \in recipients[c] : NotifiedAs(c, d)
    BY <1>15, NotifyMeans
  <2>2. PICK a \in Agents : a = owner[c] /\ telling[c] # "nothing" /\ d \in Conns
    BY <2>1
  <2>3. /\ UNCHANGED <<agents, clientConns, status, announcing>>
        /\ telling' = [telling EXCEPT ![c] = IF recipients[c] = {d} THEN "nothing" ELSE @]
        /\ crossed' = IF agents[a] = c THEN crossed ELSE crossed \cup {a}
    BY <2>1, <2>2 DEF NotifiedAs, CrossedBy
  <2>4. AnnouncedIsSet'
    BY <1>13, <2>3 DEF Telling
  <2>5. PresenceTruth'
    <3> SUFFICES ASSUME NEW e \in ClientListeners, NEW b \in Agents, b \notin lost'[e],
                        b \notin crossed', heard'[e][b] # "unknown", ~Announcing(b)
                 PROVE  heard'[e][b] = AgentStatus(b)
      <4>1. /\ ClientListeners' = ClientListeners
            /\ \A b \in Agents : AgentStatus(b)' = AgentStatus(b) /\ (Announcing(b)' <=> Announcing(b))
        BY <2>3 DEF ClientListeners, AgentStatus, Announcing
      <4>. QED
        BY <4>1 DEF PresenceTruth
    <3>1. e \in Conns /\ b \notin crossed
      BY <2>3, ListenersSettled
    <3>2. CASE heard'[e][b] = heard[e][b] /\ b \notin lost[e]
      BY <3>1, <3>2 DEF PresenceTruth
    <3>3. CASE ~(heard'[e][b] = heard[e][b] /\ b \notin lost[e])
      <4>1. /\ telling[c] # "unset"
            /\ heard' = [heard EXCEPT ![d] = [heard[d] EXCEPT ![a] = telling[c]]]
            /\ lost' = [lost EXCEPT ![d] = @ \ {a}]
        BY <2>1, <2>2, <3>3 DEF NotifiedAs
      <4>2. e = d /\ b = a
        BY <2>2, <3>1, <3>3, <4>1
      <4>3. agents[a] = c /\ c # None
        BY <2>3, <4>2, IdentityAssumption
      <4>4. status[a] = telling[c]
        BY <2>2, <3>1, <4>1, <4>2, <4>3 DEF AnnouncedIsSet, Telling
      <4>5. heard'[e][b] = telling[c]
        BY <2>2, <3>1, <4>1, <4>2
      <4>. QED
        BY <4>1, <4>2, <4>3, <4>4, <4>5 DEF AgentStatus
    <3>. QED
      BY <3>2, <3>3
  <2>. QED
    BY <2>4, <2>5
<1>11. ASSUME NEW c \in Conns, ConnNext(c), ~SetAgentStatus(c), ~BroadcastStatus(c),
              ~EmptyStatus(c), ~LookUpDevices(c), ~NotifyDevice(c)
       PROVE  (PresenceTruth /\ AnnouncedIsSet)'
  <2>1. UNCHANGED presenceVars
    BY <1>11
       DEF presenceVars, ConnNext, HandleAgentConnect, HandleClientConnect, Connect, SendTo,
           ReadHeartbeat, ReadFail, WriterSend, WriterClose, WriteFail, WriterReturns,
           PeerClose, HeartbeatExpires
  <2>. QED
    BY <2>1, PresenceFrame
<1>12. CASE UNCHANGED vars
  BY <1>12, PresenceFrame DEF presenceVars, vars
<1>. QED
  BY <1>1, <1>2, <1>3, <1>5, <1>6, <1>7, <1>8, <1>9, <1>10, <1>11, <1>12,
     <1>14, <1>15 DEF Next, RunNext, RunBody

(* What a client was told of an agent, and did not miss on a full buffer,   *)
(* is what the hub reports, unless a connection that was not the registered *)
(* one interfered (hub.go:425-445).                                         *)
THEOREM PresenceTruthHolds == Spec => []PresenceTruth
<1>1. Init => PresenceInv
  BY DEF Init, PresenceInv, PresenceTruth, UnsettledHeardNothing, ClientListeners,
         AnnouncedIsSet, Announcing, Telling, RecipientsSettled
<1>2. HubInv /\ PresenceInv /\ [Next]_vars => PresenceInv'
  BY PresenceStep, UnsettledStep, RecipientsStep DEF PresenceInv
<1>3. PresenceInv => PresenceTruth
  BY DEF PresenceInv
<1>. QED
  BY <1>1, <1>2, <1>3, HubInvariant, PTL DEF Spec

=============================================================================
