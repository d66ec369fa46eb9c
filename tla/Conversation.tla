---------------------------- MODULE Conversation ----------------------------
(***************************************************************************)
(* One conversation in the database and the handlers that work on it at    *)
(* the same time: sending with attachments (routeChatMessage, storeMessage *)
(* and server/conversations.go), storing an encrypted message              *)
(* (server/e2e.go), editing and deleting a message                         *)
(* (server/messages_edit_delete.go), toggling a reaction                   *)
(* (server/reactions.go), tags (server/tags.go), muting                    *)
(* (server/notif_prefs.go), uploading a file (server/attachments.go),      *)
(* marking as read and deleting the conversation.                          *)
(*                                                                         *)
(* Every SQL statement is a step; none of the handlers uses a transaction. *)
(* The requests are those of the owner of the conversation and of its      *)
(* agent; a request of anybody else is refused and changes nothing.        *)
(* view and told are what a connected device, whose buffer is never full,  *)
(* last heard about a message and its reaction.  Failures of the database  *)
(* other than constraints are left out.                                    *)
(***************************************************************************)
EXTENDS Naturals, FiniteSets

CONSTANTS Msgs,         \* message ids; each is generated once
          AgentMsgs,    \* those the agent sends
          Attachments,  \* ids of uploaded files; each is generated once
          Requests,     \* handler invocations; each serves one request
          None

\* What a request may be.
Ops == {"send", "seal", "edit", "delete", "react", "tag", "untag", "mute", "unmute",
        "upload", "read", "drop"}

ASSUME ConversationAssumption ==
  /\ AgentMsgs \subseteq Msgs /\ IsFiniteSet(AgentMsgs)
  /\ None \notin Msgs \cup Requests \cup Ops /\ None \notin BOOLEAN
  /\ {"none", "original", "blank"} \cap Requests = {}

VARIABLES
  conv,      \* the row in conversations exists
  text,      \* messages.content by id: the text an edit wrote is its request
  deleted,   \* messages.is_deleted
  seen,      \* messages that were ever marked as read
  stored,    \* rows in attachments
  link,      \* attachments.message_id
  disk,      \* files in the upload directory, by the id of their attachment
  sealed,    \* rows in encrypted_messages, named by the request that stored them
  reaction,  \* the reactions row of the owner, for one emoji, by message
  tag,       \* the conversation_tags row for one tag
  muted,     \* notification_preferences.muted of the owner, None without a row
  op, msg,   \* the request: what and which message
  pc,        \* the next statement of its handler
  found,     \* the id of the reaction it has read
  files,     \* the attachments it has yet to link, or uploads
  view, told,
  counted,   \* sum of the counts reported by mark-read
  raced      \* messages written by a request while another one worked on them

labels == <<tag, muted>>
uploads == <<stored, link, disk>>
tables == <<conv, text, deleted, seen, uploads, sealed, reaction, labels>>
request == <<op, msg, found, files>>
events == <<view, told, counted>>
vars == <<tables, request, pc, events, raced>>

Texts == {"none", "original", "blank"} \cup Requests

Present(m) == text[m] # "none"

Init ==
  /\ conv = TRUE
  /\ text \in [Msgs -> {"none", "original"}]
  /\ deleted = {}
  /\ seen = {}
  /\ stored \in SUBSET Attachments
  /\ link = [a \in Attachments |-> None]
  /\ disk = stored
  /\ sealed = {}
  /\ reaction = [m \in Msgs |-> None]
  /\ tag = None
  /\ muted = None
  /\ op = [r \in Requests |-> None]
  /\ msg = [r \in Requests |-> None]
  /\ pc = [r \in Requests |-> "idle"]
  /\ found = [r \in Requests |-> None]
  /\ files = [r \in Requests |-> {}]
  /\ view = text
  /\ told = [m \in Msgs |-> "none"]
  /\ counted = 0
  /\ raced = {}

-----------------------------------------------------------------------------
(* Requests and their steps.                                                *)

InFlight(r) == pc[r] \notin {"idle", "done"}

\* The request is at work on the message; an upload only refers to it.
WorksOn(r, m) == InFlight(r) /\ op[r] # "upload" /\ msg[r] = m

Overlaps(r, m) == \E s \in Requests \ {r} : WorksOn(s, m)

Race(r, m) == raced' = IF Overlaps(r, m) THEN raced \cup {m} ELSE raced

At(r, o, step) == op[r] = o /\ pc[r] = step

Goto(r, step) == pc' = [pc EXCEPT ![r] = step]

\* A step that only reads.
Reads(r, step) ==
  /\ Goto(r, step)
  /\ UNCHANGED <<tables, request, events, raced>>

Begin(r, o, m, step) ==
  /\ pc[r] = "idle"
  /\ op' = [op EXCEPT ![r] = o]
  /\ msg' = [msg EXCEPT ![r] = m]
  /\ Goto(r, step)
  /\ UNCHANGED <<tables, found, events, raced>>

-----------------------------------------------------------------------------
(* Sending: getConversation, INSERT, one UPDATE per attachment, delivery.   *)

\* A new id is given out, so a message is sent once.
BeginSend(r, m) ==
  /\ ~Present(m) /\ view[m] = "none"
  /\ \A s \in Requests : op[s] = "send" => msg[s] # m
  /\ Begin(r, "send", m, "conv")
  /\ \E S \in SUBSET Attachments : files' = [files EXCEPT ![r] = S]

SendCheck(r) ==
  /\ At(r, "send", "conv")
  /\ Reads(r, IF conv THEN "insert" ELSE "done")

\* Defect: foreign keys are not enforced.
Unreferenced == TRUE

\* The foreign key of messages.conversation_id.
Referenced == conv

SendInsert(r) ==
  /\ At(r, "send", "insert")
  /\ \/ /\ Referenced
        /\ text' = [text EXCEPT ![msg[r]] = "original"]
        /\ Goto(r, "link")
     \/ /\ ~Referenced
        /\ Goto(r, "done")
        /\ UNCHANGED text
  /\ UNCHANGED <<conv, deleted, seen, uploads, sealed, reaction, labels, request, events, raced>>

\* `AND message_id IS NULL`
Linkable(a) == a \in stored /\ link[a] = None

\* The error of the UPDATE, when the message is gone again, is ignored.
SendLink(r) ==
  /\ At(r, "send", "link")
  /\ \E a \in files[r] :
       /\ files' = [files EXCEPT ![r] = @ \ {a}]
       /\ link' = IF Linkable(a) /\ Present(msg[r]) THEN [link EXCEPT ![a] = msg[r]] ELSE link
  /\ UNCHANGED <<conv, text, deleted, seen, stored, disk, sealed, reaction, labels, op, msg, pc,
                 found, events, raced>>

SendDeliver(r) ==
  /\ At(r, "send", "link")
  /\ files[r] = {}
  /\ view' = [view EXCEPT ![msg[r]] = "original"]
  /\ Goto(r, "done")
  /\ Race(r, msg[r])
  /\ UNCHANGED <<tables, request, told, counted>>

-----------------------------------------------------------------------------
(* handleStoreEncryptedMessage: getConversation and INSERT; the pointer to  *)
(* it that devices are sent is not kept track of.                           *)

BeginSeal(r) == Begin(r, "seal", None, "conv") /\ UNCHANGED files

SealCheck(r) ==
  /\ At(r, "seal", "conv")
  /\ Reads(r, IF conv THEN "insert" ELSE "done")

SealInsert(r) ==
  /\ At(r, "seal", "insert")
  /\ sealed' = IF Referenced THEN sealed \cup {r} ELSE sealed
  /\ Goto(r, "done")
  /\ UNCHANGED <<conv, text, deleted, seen, uploads, reaction, labels, request, events, raced>>

-----------------------------------------------------------------------------
(* handleMessageEdit: SELECT and checks, UPDATE, getConversation and events.*)

BeginEdit(r, m) == Begin(r, "edit", m, "select") /\ UNCHANGED files

\* Defect: is_deleted is not looked at.
EditableAnyway(m) == Present(m) /\ m \notin AgentMsgs

Editable(m) == Present(m) /\ m \notin deleted /\ m \notin AgentMsgs

EditSelect(r) ==
  /\ At(r, "edit", "select")
  /\ Reads(r, IF Editable(msg[r]) THEN "update" ELSE "done")

\* An UPDATE that meets no row is not noticed.
EditUpdate(r) ==
  /\ At(r, "edit", "update")
  /\ text' = IF Present(msg[r]) THEN [text EXCEPT ![msg[r]] = r] ELSE text
  /\ Race(r, msg[r])
  /\ Goto(r, "notify")
  /\ UNCHANGED <<conv, deleted, seen, uploads, sealed, reaction, labels, request, events>>

EditNotify(r) ==
  /\ At(r, "edit", "notify")
  /\ view' = IF conv THEN [view EXCEPT ![msg[r]] = r] ELSE view
  /\ Goto(r, "done")
  /\ Race(r, msg[r])
  /\ UNCHANGED <<tables, request, told, counted>>

-----------------------------------------------------------------------------
(* handleMessageDelete: SELECT, getConversation, UPDATE, events.            *)

BeginDelete(r, m) == Begin(r, "delete", m, "select") /\ UNCHANGED files

DeleteSelect(r) ==
  /\ At(r, "delete", "select")
  /\ Reads(r, IF Present(msg[r]) /\ msg[r] \notin deleted THEN "conv" ELSE "done")

DeleteCheck(r) ==
  /\ At(r, "delete", "conv")
  /\ Reads(r, IF conv THEN "update" ELSE "done")

DeleteUpdate(r) ==
  /\ At(r, "delete", "update")
  /\ \/ /\ Present(msg[r])
        /\ text' = [text EXCEPT ![msg[r]] = "blank"]
        /\ deleted' = deleted \cup {msg[r]}
     \/ /\ ~Present(msg[r])
        /\ UNCHANGED <<text, deleted>>
  /\ Race(r, msg[r])
  /\ Goto(r, "notify")
  /\ UNCHANGED <<conv, seen, uploads, sealed, reaction, labels, request, events>>

\* Defect: nobody is told.
DeleteUntold(r) ==
  /\ At(r, "delete", "notify")
  /\ Goto(r, "done")
  /\ UNCHANGED <<tables, request, events, raced>>

DeleteNotify(r) ==
  /\ At(r, "delete", "notify")
  /\ view' = [view EXCEPT ![msg[r]] = "blank"]
  /\ Goto(r, "done")
  /\ Race(r, msg[r])
  /\ UNCHANGED <<tables, request, told, counted>>

-----------------------------------------------------------------------------
(* handleReact: SELECT of the message and getConversation, SELECT of the    *)
(* reaction, DELETE of it or INSERT, events.                                *)

BeginReact(r, m) == Begin(r, "react", m, "select") /\ UNCHANGED files

ReactSelect(r) ==
  /\ At(r, "react", "select")
  /\ Reads(r, IF Present(msg[r]) THEN "conv" ELSE "done")

ReactCheck(r) ==
  /\ At(r, "react", "conv")
  /\ Reads(r, IF conv THEN "toggle" ELSE "done")

ReactLookup(r) ==
  /\ At(r, "react", "toggle")
  /\ found' = [found EXCEPT ![r] = reaction[msg[r]]]
  /\ Goto(r, IF reaction[msg[r]] = None THEN "insert" ELSE "remove")
  /\ UNCHANGED <<tables, op, msg, files, events, raced>>

\* UNIQUE(message_id, user_id, emoji) and the foreign key of message_id.
ReactInsert(r) ==
  /\ At(r, "react", "insert")
  /\ \/ /\ reaction[msg[r]] = None /\ Present(msg[r])
        /\ reaction' = [reaction EXCEPT ![msg[r]] = r]
        /\ Goto(r, "notify")
     \/ /\ ~(reaction[msg[r]] = None /\ Present(msg[r]))
        /\ Goto(r, "done")
        /\ UNCHANGED reaction
  /\ Race(r, msg[r])
  /\ UNCHANGED <<conv, text, deleted, seen, uploads, sealed, labels, request, events>>

\* DELETE by the id that was read: another request's row is left alone.
ReactRemove(r) ==
  /\ At(r, "react", "remove")
  /\ reaction' = [reaction EXCEPT ![msg[r]] = IF @ = found[r] THEN None ELSE @]
  /\ Race(r, msg[r])
  /\ Goto(r, "notify")
  /\ UNCHANGED <<conv, text, deleted, seen, uploads, sealed, labels, request, events>>

ReactNotify(r) ==
  /\ At(r, "react", "notify")
  /\ told' = [told EXCEPT ![msg[r]] = IF found[r] = None THEN "added" ELSE "removed"]
  /\ Goto(r, "done")
  /\ Race(r, msg[r])
  /\ UNCHANGED <<tables, request, view, counted>>

-----------------------------------------------------------------------------
(* handleAddTag: getConversation, SELECT of the tag, INSERT with            *)
(* UNIQUE(conversation_id, tag); handleRemoveTag: getConversation, DELETE.  *)

BeginTag(r) ==
  /\ \E o \in {"tag", "untag"} : Begin(r, o, None, "conv")
  /\ UNCHANGED files

TagCheck(r) ==
  /\ At(r, "tag", "conv")
  /\ Reads(r, IF conv THEN "toggle" ELSE "done")

TagLookup(r) ==
  /\ At(r, "tag", "toggle")
  /\ Reads(r, IF tag = None THEN "insert" ELSE "done")

TagInsert(r) ==
  /\ At(r, "tag", "insert")
  /\ tag' = IF Referenced /\ tag = None THEN r ELSE tag
  /\ Goto(r, "done")
  /\ UNCHANGED <<conv, text, deleted, seen, uploads, sealed, reaction, muted, request, events, raced>>

UntagCheck(r) ==
  /\ At(r, "untag", "conv")
  /\ Reads(r, IF conv THEN "remove" ELSE "done")

UntagDelete(r) ==
  /\ At(r, "untag", "remove")
  /\ tag' = None
  /\ Goto(r, "done")
  /\ UNCHANGED <<conv, text, deleted, seen, uploads, sealed, reaction, muted, request, events, raced>>

-----------------------------------------------------------------------------
(* handleSetNotificationPrefs: SELECT of the owner, INSERT or UPDATE;       *)
(* handleDeleteNotificationPrefs: one DELETE.                               *)

BeginMute(r) == Begin(r, "mute", None, "conv") /\ UNCHANGED files

MuteCheck(r) ==
  /\ At(r, "mute", "conv")
  /\ Reads(r, IF conv THEN "update" ELSE "done")

MuteUpsert(r) ==
  /\ At(r, "mute", "update")
  /\ \E b \in BOOLEAN : muted' = IF Referenced THEN b ELSE muted
  /\ Goto(r, "done")
  /\ UNCHANGED <<conv, text, deleted, seen, uploads, sealed, reaction, tag, request, events, raced>>

BeginUnmute(r) == Begin(r, "unmute", None, "remove") /\ UNCHANGED files

UnmuteDelete(r) ==
  /\ At(r, "unmute", "remove")
  /\ muted' = None
  /\ Goto(r, "done")
  /\ UNCHANGED <<conv, text, deleted, seen, uploads, sealed, reaction, tag, request, events, raced>>

-----------------------------------------------------------------------------
(* handleUpload: the file is written and then its row is stored, at once    *)
(* with a message if the request names one.                                 *)

BeginUpload(r, a, m) ==
  /\ a \notin stored \cup disk
  /\ \A s \in Requests : op[s] = "upload" => a \notin files[s]
  /\ Begin(r, "upload", m, "write")
  /\ files' = [files EXCEPT ![r] = {a}]

\* A file that cannot be written completely is removed again.
UploadWrite(r) ==
  /\ At(r, "upload", "write")
  /\ \/ disk' = disk \cup files[r] /\ Goto(r, "insert")
     \/ disk' = disk /\ Goto(r, "done")
  /\ UNCHANGED <<conv, text, deleted, seen, stored, link, sealed, reaction, labels, request,
                 events, raced>>

\* Defect: the file stays when its row is refused.
NothingRemoved(r) == {}

Removed(r) == files[r]

\* The foreign key of attachments.message_id refuses a message that is not there.
UploadInsert(r) ==
  /\ At(r, "upload", "insert")
  /\ \/ /\ msg[r] # None => Present(msg[r])
        /\ stored' = stored \cup files[r]
        /\ link' = [a \in Attachments |-> IF a \in files[r] THEN msg[r] ELSE link[a]]
        /\ disk' = disk
     \/ /\ msg[r] # None /\ ~Present(msg[r])
        /\ disk' = disk \ Removed(r)
        /\ UNCHANGED <<stored, link>>
  /\ Goto(r, "done")
  /\ UNCHANGED <<conv, text, deleted, seen, sealed, reaction, labels, request, events, raced>>

-----------------------------------------------------------------------------
(* handleMarkRead: getConversation, one UPDATE, whose count is reported; the *)
(* read receipts that follow are not kept track of.                         *)

BeginRead(r) == Begin(r, "read", None, "conv") /\ UNCHANGED files

ReadCheck(r) ==
  /\ At(r, "read", "conv")
  /\ Reads(r, IF conv THEN "update" ELSE "done")

\* Defect: messages that are read already are marked again.
AllFromAgent == {m \in AgentMsgs : Present(m)}

\* `sender_type = 'agent' AND read_at IS NULL`
Unread == {m \in AgentMsgs : Present(m) /\ m \notin seen}

ReadUpdate(r) ==
  /\ At(r, "read", "update")
  /\ seen' = seen \cup Unread
  /\ counted' = counted + Cardinality(Unread)
  /\ Goto(r, "done")
  /\ UNCHANGED <<conv, text, deleted, uploads, sealed, reaction, labels, request, view, told, raced>>

-----------------------------------------------------------------------------
(* deleteConversation: getConversation, DELETE of the messages, whose       *)
(* reactions go with them, DELETE of the conversation.                      *)

BeginDrop(r) == Begin(r, "drop", None, "conv") /\ UNCHANGED files

DropCheck(r) ==
  /\ At(r, "drop", "conv")
  /\ Reads(r, IF conv THEN "messages" ELSE "done")

\* Defect: the foreign key of attachments is not enforced.
NoneAttached == {}

\* Messages that attachments.message_id refers to.
Attached == {m \in Msgs : \E a \in Attachments : link[a] = m}

DropMessages(r) ==
  /\ At(r, "drop", "messages")
  /\ \/ /\ \A m \in Attached : ~Present(m)
        /\ text' = [m \in Msgs |-> "none"]
        /\ reaction' = [m \in Msgs |-> None]
        /\ Goto(r, "row")
     \/ /\ \E m \in Attached : Present(m)
        /\ Goto(r, "done")
        /\ UNCHANGED <<text, reaction>>
  /\ UNCHANGED <<conv, deleted, seen, uploads, sealed, labels, request, events, raced>>

\* A message stored in the meantime, or an encrypted one, keeps the conversation;
\* tags and preferences go with it.
DropRow(r) ==
  /\ At(r, "drop", "row")
  /\ conv' = (conv /\ (sealed # {} \/ \E m \in Msgs : Present(m)))
  /\ IF conv' THEN UNCHANGED labels ELSE tag' = None /\ muted' = None
  /\ Goto(r, "done")
  /\ UNCHANGED <<text, deleted, seen, uploads, sealed, reaction, request, events, raced>>

-----------------------------------------------------------------------------

Start(r) ==
  \/ \E m \in Msgs :
       BeginSend(r, m) \/ BeginEdit(r, m) \/ BeginDelete(r, m) \/ BeginReact(r, m)
  \/ BeginSeal(r) \/ BeginTag(r) \/ BeginMute(r) \/ BeginUnmute(r)
  \/ \E a \in Attachments, m \in Msgs \cup {None} : BeginUpload(r, a, m)
  \/ BeginRead(r)
  \/ BeginDrop(r)

Step(r) ==
  \/ SendCheck(r) \/ SendInsert(r) \/ SendLink(r) \/ SendDeliver(r)
  \/ SealCheck(r) \/ SealInsert(r)
  \/ EditSelect(r) \/ EditUpdate(r) \/ EditNotify(r)
  \/ DeleteSelect(r) \/ DeleteCheck(r) \/ DeleteUpdate(r) \/ DeleteNotify(r)
  \/ ReactSelect(r) \/ ReactCheck(r) \/ ReactLookup(r) \/ ReactInsert(r)
  \/ ReactRemove(r) \/ ReactNotify(r)
  \/ TagCheck(r) \/ TagLookup(r) \/ TagInsert(r) \/ UntagCheck(r) \/ UntagDelete(r)
  \/ MuteCheck(r) \/ MuteUpsert(r) \/ UnmuteDelete(r)
  \/ UploadWrite(r) \/ UploadInsert(r)
  \/ ReadCheck(r) \/ ReadUpdate(r)
  \/ DropCheck(r) \/ DropMessages(r) \/ DropRow(r)

Next == \E r \in Requests : Start(r) \/ Step(r)

Spec == Init /\ [][Next]_vars

-----------------------------------------------------------------------------
(* Properties.                                                              *)

(* Types of the tables and of the handlers' progress; only messages of the  *)
(* agent are ever marked as read (conversations.go:294).                    *)
TypeOK ==
  /\ conv \in BOOLEAN
  /\ text \in [Msgs -> Texts]
  /\ deleted \in SUBSET Msgs
  /\ seen \in SUBSET AgentMsgs
  /\ stored \in SUBSET Attachments
  /\ link \in [Attachments -> Msgs \cup {None}]
  /\ disk \in SUBSET Attachments
  /\ sealed \in SUBSET Requests
  /\ reaction \in [Msgs -> Requests \cup {None}]
  /\ tag \in Requests \cup {None}
  /\ muted \in BOOLEAN \cup {None}
  /\ op \in [Requests -> Ops \cup {None}]
  /\ msg \in [Requests -> Msgs \cup {None}]
  /\ pc \in [Requests -> {"idle", "conv", "select", "insert", "link", "update", "toggle",
                          "write", "remove", "messages", "row", "notify", "done"}]
  /\ found \in [Requests -> Requests \cup {None}]
  /\ files \in [Requests -> SUBSET Attachments]
  /\ view \in [Msgs -> Texts]
  /\ told \in [Msgs -> {"none", "added", "removed"}]
  /\ counted \in Nat
  /\ raced \in SUBSET Msgs

(* A conversation that is gone has left nothing behind, although it is      *)
(* deleted in two statements (conversations.go:205-210) and messages and    *)
(* reactions, tags and preferences may be stored between them and before    *)
(* them.  Of the encrypted messages, which it does not delete, there were   *)
(* none.                                                                    *)
NothingLeftBehind ==
  ~conv =>
    /\ \A m \in Msgs : ~Present(m) /\ reaction[m] = None
    /\ sealed = {} /\ tag = None /\ muted = None

(* What the database says of an attachment is true: its message is in the   *)
(* history.  No deletion of the conversation, at any time, takes a message  *)
(* away from under an attachment (conversations.go:77-79 and 205), and no   *)
(* upload names one that is gone (attachments.go:185-194).                  *)
AttachmentHasMessage ==
  \A a \in Attachments : link[a] # None => Present(link[a])

(* An attachment never moves from one message to another, however many      *)
(* messages name it at the same time (conversations.go:78).                 *)
AttachmentStays ==
  [][\A a \in Attachments : link[a] # None => link'[a] = link[a]]_vars

(* The file of every attachment is on the disk, and a file without a row is *)
(* one that is being uploaded (attachments.go:153-196): an upload that is   *)
(* refused, because its message was deleted meanwhile, leaves none behind.  *)
AttachmentHasFile ==
  /\ stored \subseteq disk
  /\ \A a \in disk \ stored : \E r \in Requests : At(r, "upload", "insert") /\ a \in files[r]

(* An attachment that can be listed can be downloaded with its message, and *)
(* a refused upload or a deletion in between leaves no half of one.         *)
AttachmentIsWhole == AttachmentHasMessage /\ AttachmentHasFile

(* Concurrent mark-read requests of several devices report every message    *)
(* exactly once between them (conversations.go:294).                        *)
ReadCountedOnce == counted = Cardinality(seen)

\* No request is at work on the message.
Quiet(m) == \A r \in Requests : ~WorksOn(r, m)

(* A deleted message shows a text again only after requests on it have      *)
(* overlapped, as an edit does that passed its check before the deletion    *)
(* (messages_edit_delete.go:53) and writes after it.                        *)
DeletedTextOnlyByRace ==
  \A m \in deleted : Present(m) /\ text[m] # "blank" => m \in raced

(* When nobody is at work on a message, and no two requests ever were at    *)
(* the same time, devices have been told what the database has: its text    *)
(* and the owner's reaction.                                                *)
DevicesUpToDate ==
  \A m \in Msgs : Present(m) /\ Quiet(m) /\ m \notin raced =>
    /\ view[m] = text[m]
    /\ told[m] = "added" <=> reaction[m] # None
=============================================================================
