-------------------------------- MODULE Push --------------------------------
(***************************************************************************)
(* Push notifications (server/push.go): requests that register and remove  *)
(* device tokens and Web Push subscriptions, the muting of a conversation  *)
(* (server/notif_prefs.go), and the goroutine that notifies a user of a    *)
(* message; together with the requests of module Accounts.                 *)
(*                                                                         *)
(* Every SQL statement is a step.  There is one conversation, to which all *)
(* notifications belong.  A push is the call of the push service with a    *)
(* token, whether or not it succeeds: its error is only logged.  Where a   *)
(* handler does not look at the error of a statement, or goes on after it, *)
(* the failing statement is an action of its own; every other failure cuts *)
(* the request short (Cut).  The platforms are two, web and all others.    *)
(* The configuration and the payload of the services are left out.         *)
(***************************************************************************)
EXTENDS Accounts

CONSTANT Tokens   \* device tokens and Web Push endpoints

Platforms == {"device", "web"}

ASSUME PushAssumption == None \notin Tokens \cup Platforms

VARIABLES
  platform,  \* device_tokens: per user and token its platform, None without a row
  keyOwner,  \* web_push_subscriptions: per endpoint, which is UNIQUE, its user
  muted,     \* users that have muted the conversation
  token,     \* the token a request is about
  toPush,    \* tokens a notification has read and not yet pushed to
  pushed,    \* tokens it has pushed to
  failed     \* requests that went on after a statement that failed

pushTables == <<platform, keyOwner, muted>>
pushVars == <<pushTables, token, toPush, pushed, failed>>
vars == <<accountVars, pushVars>>

Init ==
  /\ AccountInit
  /\ platform = [u \in Users |-> [t \in Tokens |-> None]]
  /\ keyOwner = [t \in Tokens |-> None]
  /\ muted = {}
  /\ token = Empty
  /\ toPush = [r \in Requests |-> {}]
  /\ pushed = [r \in Requests |-> {}]
  /\ failed = {}

-----------------------------------------------------------------------------

BeginPush(r, o, step, u) ==
  /\ Begin(r, o, step)
  /\ Claims(r, u)
  /\ UNCHANGED <<agent, offer, oldPassword, newPassword, pushTables, toPush, pushed, failed>>

BeginTokenRequest(r, o, step, u, t) ==
  /\ BeginPush(r, o, step, u)
  /\ token' = [token EXCEPT ![r] = t]

BeginRegister(r, u, t) == BeginTokenRequest(r, "register", "upsert", u, t)
BeginUnregister(r, u, t) == BeginTokenRequest(r, "unregister", "delete", u, t)
BeginSubscribe(r, u, t) == BeginTokenRequest(r, "subscribe", "token", u, t)
BeginUnsubscribe(r, u, t) == BeginTokenRequest(r, "unsubscribe", "token", u, t)

BeginMute(r, u) == BeginPush(r, "mute", "upsert", u) /\ UNCHANGED token
\* Unmuting is setting the preference to false, or deleting it.
BeginUnmute(r, u) ==
  \E step \in {"upsert", "delete"} : BeginPush(r, "unmute", step, u) /\ UNCHANGED token
BeginNotify(r, u) == BeginPush(r, "notify", "muted", u) /\ UNCHANGED token

\* The rest of a statement that writes only what is named.
Rest == UNCHANGED <<tables, arguments, result, was, before, token, failed>>

\* The statement fails, and the handler goes on as if it had not.
GoesOn(r, o, step, next) ==
  /\ At(r, o, step)
  /\ Goto(r, next)
  /\ failed' = failed \cup {r}
  /\ UNCHANGED <<tables, arguments, result, was, before, token, pushTables, toPush, pushed>>

SetPlatform(r, p) == platform' = [platform EXCEPT ![user[r]][token[r]] = p]

-----------------------------------------------------------------------------
(* Device tokens and subscriptions.                                         *)

\* The platform is what the request says.
RegisterToken(r) ==
  /\ At(r, "register", "upsert")
  /\ \E p \in Platforms : SetPlatform(r, p)
  /\ Goto(r, "answered")
  /\ Rest /\ UNCHANGED <<keyOwner, muted, toPush, pushed>>

UnregisterToken(r) ==
  /\ At(r, "unregister", "delete")
  /\ SetPlatform(r, None)
  /\ Goto(r, "answered")
  /\ Rest /\ UNCHANGED <<keyOwner, muted, toPush, pushed>>

\* INSERT OR REPLACE INTO device_tokens
SubscribeToken(r) ==
  /\ At(r, "subscribe", "token")
  /\ SetPlatform(r, "web")
  /\ Goto(r, "keys")
  /\ Rest /\ UNCHANGED <<keyOwner, muted, toPush, pushed>>

\* INSERT OR REPLACE INTO web_push_subscriptions: the row of another user with
\* the same endpoint is replaced.
SubscribeKeys(r) ==
  /\ At(r, "subscribe", "keys")
  /\ keyOwner' = [keyOwner EXCEPT ![token[r]] = user[r]]
  /\ Goto(r, "answered")
  /\ Rest /\ UNCHANGED <<platform, muted, toPush, pushed>>

\* The table cannot be created, or the keys not stored: "Non-fatal".
SubscribeKeysFails(r) == GoesOn(r, "subscribe", "keys", "answered")

\* DELETE ... AND platform = 'web'
UnsubscribeToken(r) ==
  /\ At(r, "unsubscribe", "token")
  /\ IF platform[user[r]][token[r]] = "web" THEN SetPlatform(r, None) ELSE UNCHANGED platform
  /\ Goto(r, "keys")
  /\ Rest /\ UNCHANGED <<keyOwner, muted, toPush, pushed>>

UnsubscribeTokenFails(r) == GoesOn(r, "unsubscribe", "token", "keys")

\* Defect: the keys stay.
NoKeyDeleted(r) == keyOwner

KeyDeleted(r) ==
  IF keyOwner[token[r]] = user[r] THEN [keyOwner EXCEPT ![token[r]] = None] ELSE keyOwner

UnsubscribeKeys(r) ==
  /\ At(r, "unsubscribe", "keys")
  /\ keyOwner' = KeyDeleted(r)
  /\ Goto(r, "answered")
  /\ Rest /\ UNCHANGED <<platform, muted, toPush, pushed>>

UnsubscribeKeysFails(r) == GoesOn(r, "unsubscribe", "keys", "answered")

-----------------------------------------------------------------------------
(* Muting, and notifying.                                                   *)

\* ON CONFLICT(user_id, conversation_id) DO UPDATE SET muted
SetMuted(r) ==
  /\ op[r] \in {"mute", "unmute"} /\ pc[r] = "upsert"
  /\ muted' = IF op[r] = "mute" THEN muted \cup {user[r]} ELSE muted \ {user[r]}
  /\ Goto(r, "answered")
  /\ Rest /\ UNCHANGED <<platform, keyOwner, toPush, pushed>>

DeleteMuted(r) ==
  /\ At(r, "unmute", "delete")
  /\ muted' = muted \ {user[r]}
  /\ Goto(r, "answered")
  /\ Rest /\ UNCHANGED <<platform, keyOwner, toPush, pushed>>

DeleteMutedFails(r) == GoesOn(r, "unmute", "delete", "answered")

\* Defect: muting is not looked at.
NeverMuted(r) == FALSE

IsConversationMuted(r) == user[r] \in muted

CheckMuted(r) ==
  /\ At(r, "notify", "muted")
  /\ Goto(r, IF IsConversationMuted(r) THEN "answered" ELSE "tokens")
  /\ Rest /\ UNCHANGED <<pushTables, toPush, pushed>>

\* The database does not answer: not muted.
CheckMutedFails(r) == GoesOn(r, "notify", "muted", "tokens")

\* getDeviceTokensForUser
DeviceTokens(r) == {t \in Tokens : platform[user[r]][t] # None}

ReadTokens(r) ==
  /\ At(r, "notify", "tokens")
  /\ toPush' = [toPush EXCEPT ![r] = DeviceTokens(r)]
  /\ Goto(r, IF DeviceTokens(r) = {} THEN "answered" ELSE "send")
  /\ Rest /\ UNCHANGED <<pushTables, pushed>>

\* sendPushNotification for the next of the tokens.
SendPush(r) ==
  /\ At(r, "notify", "send")
  /\ \E t \in toPush[r] :
       /\ pushed' = [pushed EXCEPT ![r] = @ \cup {t}]
       /\ toPush' = [toPush EXCEPT ![r] = @ \ {t}]
       /\ Goto(r, IF toPush[r] = {t} THEN "answered" ELSE "send")
  /\ Rest /\ UNCHANGED pushTables

PushNext ==
  \E r \in Requests :
    \/ \E u \in Users :
         \/ \E t \in Tokens :
              \/ BeginRegister(r, u, t)
              \/ BeginUnregister(r, u, t)
              \/ BeginSubscribe(r, u, t)
              \/ BeginUnsubscribe(r, u, t)
         \/ BeginMute(r, u)
         \/ BeginUnmute(r, u)
         \/ BeginNotify(r, u)
    \/ RegisterToken(r)
    \/ UnregisterToken(r)
    \/ SubscribeToken(r)
    \/ SubscribeKeys(r)
    \/ SubscribeKeysFails(r)
    \/ UnsubscribeToken(r)
    \/ UnsubscribeTokenFails(r)
    \/ UnsubscribeKeys(r)
    \/ UnsubscribeKeysFails(r)
    \/ SetMuted(r)
    \/ DeleteMuted(r)
    \/ DeleteMutedFails(r)
    \/ CheckMuted(r)
    \/ CheckMutedFails(r)
    \/ ReadTokens(r)
    \/ SendPush(r)

Next == (AccountNext /\ UNCHANGED pushVars) \/ PushNext

Spec == Init /\ [][Next]_vars

-----------------------------------------------------------------------------
(* Properties.                                                              *)

About(r, u, t) == user[r] = u /\ token[r] = t

(* What a user has turned off stays off: a notification that began after a  *)
(* token was unregistered, or the conversation muted, is not pushed to it,  *)
(* although the goroutine checks, reads and sends in separate steps; except *)
(* when the user registered the token or unmuted again meanwhile.  A mute   *)
(* that the notification could not read does not count                      *)
(* (notif_prefs.go:118-131); a token it could not read is not pushed to.    *)
OffStaysOff ==
  \A n, w \in Requests :
    <<w, n>> \in before /\ op[n] = "notify" =>
      /\ \A t \in pushed[n] :
           Answered(w, "unregister") /\ About(w, user[n], t) =>
             \E g \in Requests : /\ op[g] \in {"register", "subscribe"}
                                 /\ About(g, user[n], t) /\ <<g, w>> \notin before
      /\ Answered(w, "mute") /\ user[w] = user[n] /\ pushed[n] # {} /\ n \notin failed =>
           \E g \in Requests :
             op[g] = "unmute" /\ user[g] = user[n] /\ <<g, w>> \notin before

\* A statement of r failed, or r was cut short.
Broken(r) == r \in failed \/ pc[r] = "cut"

\* A later request of the same user about the same endpoint ran as a whole.
Repaired(r) ==
  \E s \in Requests :
    /\ <<r, s>> \in before /\ About(s, user[r], token[r])
    /\ op[s] \in {"subscribe", "unsubscribe"} /\ pc[s] = "answered" /\ s \notin failed

(* The keys of a subscription are stored and removed with it, in two        *)
(* statements each.  Where they differ, a request of the user about the     *)
(* endpoint is under way, or one was cut short or went on after a failed    *)
(* statement (push.go:466-483 and 521-522) and none that ran as a whole     *)
(* came after it; or two requests about the endpoint overlapped, or it was  *)
(* also registered or unregistered as a device token, which leaves the keys *)
(* alone, or another user subscribed with it, who takes the keys over.      *)
KeysWithToken ==
  \A u \in Users, t \in Tokens :
    (keyOwner[t] = u) # (platform[u][t] = "web") =>
      \/ \E r \in Requests : About(r, u, t) /\ (InFlight(r) \/ (Broken(r) /\ ~Repaired(r)))
      \/ \E r, s \in Requests : token[r] = t /\ token[s] = t /\ Overlap(r, s)
      \/ \E r \in Requests : About(r, u, t) /\ op[r] \in {"register", "unregister"}
      \/ \E r \in Requests : token[r] = t /\ user[r] # u /\ op[r] = "subscribe"

=============================================================================
